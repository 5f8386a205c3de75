--------------------------- MODULE MachineProofs ---------------------------
(***************************************************************************)
(* Theorems about Machine, for every number of processes, instances, ports *)
(* and steps and every bound: under the condition that no process took the *)
(* lock with a reading another one had overtaken, whatever is left on the  *)
(* machine is accounted for, finished installations have different ports   *)
(* and no shared artifact is removed under a live instance, but by a       *)
(* `rollback --all` in whose second pass another process wrote.            *)
(***************************************************************************)
EXTENDS Machine, TLAPS

Held == {"install", "undo", "disk"}
Holds(p) == proc[p].pc \in Held

\* The lock has one holder.
OneHolder == \A p, q \in Process : Holds(p) /\ Holds(q) => p = q

\* What a manifest calls ours is recorded in it, on disk and in memory.
OursAreRecorded ==
    /\ \A i \in Instance : manifest[i].ours \subseteq manifest[i].recorded
    /\ \A p \in Process : proc[p].mem.ours \subseteq proc[p].mem.recorded

Others(i) == UNION {Accounted(j) : j \in Instance \ {i}}

AllAccounted ==
    /\ \A i \in Instance : made[i] \subseteq Accounted(i)
    /\ shared \subseteq UNION {Accounted(i) : i \in Instance}

\* A finished installation has written its odoo.conf, with the port its
\* manifest has; no two live instances have the same in theirs.
ConfIsRecorded ==
    \A i \in Instance :
        /\ manifest[i].finished => ConfStep \in manifest[i].recorded
        /\ RepeatPort /\ ConfStep \in manifest[i].recorded => conf[i] = manifest[i].port

PortsOfTheLive ==
    RepeatPort => \A i, j \in Instance :
        IsLive(i) /\ IsLive(j) /\ i # j => ~Clash(manifest[i].port, manifest[j].port)

\* What a process nobody has overtaken has read, or keeps in step, is what is on
\* disk: the manifest, who else lives and with which ports.  An undo is ahead of
\* the manifest it will write.
Before(r) ==
    r.pc \in {"discover", "ask"} =>
        IF r.start = "Resume" THEN r.mem = manifest[r.inst]
        ELSE r.mem = Empty(r.port) /\ (r.start = "Fresh" => manifest[r.inst].recorded = {})

Confirming(r) == r.pc = "confirm" => r.mem = manifest[r.inst]

PortIsMem(r) == RepeatPort /\ r.pc \in {"discover", "ask", "install"} => r.mem.port = r.port

KnowsOthers(r) ==
    r.pc \in {"ask", "load", "confirm"} \cup Held /\ r.back # "pass2" => r.others = LiveOthers(r.inst)

PortIsFree(r) ==
    r.pc \in {"ask", "install"} => \A j \in LiveOthers(r.inst) : ~Clash(r.port, manifest[j].port)

Installing(r) ==
    r.pc = "install" =>
        /\ r.mem.recorded = manifest[r.inst].recorded /\ r.mem.ours = manifest[r.inst].ours
        /\ \A s \in Step : s < r.at => s \in r.mem.recorded
        /\ r.mem.finished => ConfStep \in r.mem.recorded

KeepsPort(r) ==
    r.pc \in Held =>
        /\ r.mem.recorded \subseteq manifest[r.inst].recorded
        /\ manifest[r.inst].recorded # {} => r.mem.port = manifest[r.inst].port

Removing(r) ==
    r.pc \in {"undo", "disk"} =>
        /\ made[r.inst] \subseteq r.mem.ours \cup archive[r.inst]
        /\ shared \subseteq r.mem.ours \cup archive[r.inst] \cup Others(r.inst)

UpToDate(r) ==
    /\ Before(r) /\ Confirming(r) /\ PortIsMem(r) /\ KnowsOthers(r) /\ PortIsFree(r)
    /\ Installing(r) /\ KeepsPort(r) /\ Removing(r)

NobodyLives == \A j \in Instance : ~IsLive(j)

\* In the second pass nobody lives, as long as nobody else has written.
SecondPassIsAlone == \A p \in Process \ misled : SecondPass(proc[p]) => NobodyLives

Coherent ==
    /\ AllAccounted /\ ConfIsRecorded /\ PortsOfTheLive /\ SecondPassIsAlone
    /\ \A p \in Process : p \notin stale => UpToDate(proc[p])
    /\ \A p \in Process : Holds(p) => p \notin stale

\* Only rollback_manifest has somewhere to return to.
Returning(r) == r.back # "idle" => r.pc \in {"load", "confirm", "disk"}

MachineInv ==
    /\ TypeOK /\ OneHolder /\ OursAreRecorded
    /\ \A p \in Process : Returning(proc[p])
    /\ ~overtaken => Coherent

LEMMA ClashBothWays == \A a, b : Clash(a, b) <=> Clash(b, a)
  BY DEF Clash

-----------------------------------------------------------------------------
(* Types.                                                                  *)

\* There is a port and an instance as soon as a command can be given.
LEMMA EmptyType == \A q \in Port : Empty(q) \in State
  BY DEF Empty, State

LEMMA IdleType ==
    ASSUME NEW i \in Instance, NEW q \in Port  PROVE Idle \in Proc /\ NoPort \in Port
  <1>1. NoPort \in Port
    BY DEF NoPort
  <1>2. (CHOOSE j \in Instance : TRUE) \in Instance
    OBVIOUS
  <1>3. Empty(NoPort) \in State
    BY <1>1, EmptyType
  <1>4. QED  BY <1>1, <1>2, <1>3, StepsAssumption DEF Idle, Proc, Start

LEMMA ProcType ==
    ASSUME TypeOK, NEW p \in Process
    PROVE  /\ proc[p] \in Proc
           /\ proc[p].back \in {"idle", "pass1", "pass2"}
           /\ proc[p].inst \in Instance /\ proc[p].port \in Port /\ proc[p].mem \in State
           /\ proc[p].others \subseteq Instance /\ proc[p].at \in 0 .. N + 1 /\ proc[p].start \in Start
           /\ manifest[proc[p].inst] \in State
           /\ Idle \in Proc
  <1>1. proc[p] \in Proc /\ manifest \in [Instance -> State]
    BY DEF TypeOK
  <1>2. /\ proc[p].back \in {"idle", "pass1", "pass2"}
        /\ proc[p].inst \in Instance /\ proc[p].port \in Port /\ proc[p].mem \in State
        /\ proc[p].others \subseteq Instance /\ proc[p].at \in 0 .. N + 1 /\ proc[p].start \in Start
    BY <1>1 DEF Proc
  <1>3. QED  BY <1>1, <1>2, IdleType

\* An action that gives one process another state, writes one manifest or none,
\* and keeps the rest.
LEMMA StepsType ==
    ASSUME TypeOK, NEW p \in Process, NEW r \in Proc, Becomes(p, r),
           manifest' \in [Instance -> State], stale' \subseteq Process, misled' \subseteq Process,
           overtaken' \in BOOLEAN,
           commands' \in 0 .. MaxCommands, faults' \in 0 .. MaxFaults,
           made' \in [Instance -> SUBSET (Step \ SharedStep)], shared' \subseteq SharedStep,
           conf' \in [Instance -> Port], archive' \in [Instance -> SUBSET Step]
    PROVE  TypeOK'
  BY DEF TypeOK, Becomes

LEMMA WritesType ==
    ASSUME TypeOK, NEW p \in Process, NEW i \in Instance, NEW m \in State, Writes(p, i, m)
    PROVE  manifest' \in [Instance -> State] /\ stale' \subseteq Process /\ misled' \subseteq Process
  BY DEF TypeOK, Writes

-----------------------------------------------------------------------------
(* What one process becomes, seen by the others.                           *)

\* Only the process changes, and it does not take the lock.
LEMMA OnlyTheProcess ==
    ASSUME MachineInv, NEW p \in Process, NEW r \in Proc, Becomes(p, r), TypeOK',
           UNCHANGED <<made, shared, conf, manifest, archive, overtaken>>,
           stale' = stale \/ stale' = stale \ {p},
           misled' = misled \/ misled' = misled \ {p},
           r.mem.ours \subseteq r.mem.recorded, Returning(r),
           Coherent /\ p \notin misled' /\ SecondPass(r) => NobodyLives,
           r.pc \in Held => Holds(p),
           r.pc \in Held => stale' = stale,
           Coherent /\ p \notin stale' => UpToDate(r)
    PROVE  MachineInv'
  <1>1. /\ proc'[p] = r
        /\ \A q \in Process \ {p} : proc'[q] = proc[q]
    BY DEF Becomes, MachineInv, TypeOK
  <1>2. OneHolder'
    BY <1>1 DEF MachineInv, OneHolder, Holds
  <1>3. OursAreRecorded' /\ \A q \in Process : Returning(proc'[q])
    BY <1>1 DEF MachineInv, OursAreRecorded
  <1>4. ASSUME ~overtaken'  PROVE Coherent'
    <2>1. Coherent
      BY <1>4 DEF MachineInv
    <2>2. (AllAccounted /\ ConfIsRecorded /\ PortsOfTheLive)'
      BY <2>1 DEF Coherent, AllAccounted, ConfIsRecorded, PortsOfTheLive, Accounted, IsLive
    <2>3. ASSUME NEW q \in Process, q \notin stale'  PROVE UpToDate(proc'[q])
      <3>1. CASE q = p
        BY <1>1, <2>1, <2>3, <3>1
      <3>2. CASE q # p
        BY <1>1, <2>1, <2>3, <3>2 DEF Coherent
      <3>3. QED  BY <3>1, <3>2
    <2>4. \A q \in Process : UpToDate(proc'[q]) <=> UpToDate(proc[q])'
      BY DEF UpToDate, Before, Confirming, PortIsMem, KnowsOthers, PortIsFree, Installing, KeepsPort,
             Removing, LiveOthers, IsLive, Others, Accounted
    <2>5. \A q \in Process : Holds(q)' => q \notin stale'
      BY <1>1, <2>1 DEF Coherent, Holds
    <2>6. SecondPassIsAlone'
      <3>1. NobodyLives' <=> NobodyLives
        BY DEF NobodyLives, IsLive
      <3>2. ASSUME NEW q \in Process \ misled', SecondPass(proc'[q])  PROVE NobodyLives
        BY <1>1, <2>1, <3>2 DEF Coherent, SecondPassIsAlone
      <3>3. \A q \in Process : SecondPass(proc[q])' <=> SecondPass(proc'[q])
        BY DEF SecondPass
      <3>4. QED  BY <3>1, <3>2, <3>3 DEF SecondPassIsAlone
    <2>7. QED  BY <2>2, <2>3, <2>4, <2>5, <2>6 DEF Coherent
  <1>5. (\A q \in Process : Returning(proc[q]))'
    BY <1>3 DEF Returning
  <1>6. QED  BY <1>2, <1>3, <1>4, <1>5 DEF MachineInv

\* One process acts while no other holds the lock; it writes a manifest, which
\* overtakes everybody else, or none.
LEMMA OneActs ==
    ASSUME MachineInv, NEW p \in Process, NEW r \in Proc, Becomes(p, r), TypeOK',
           \A q \in Process \ {p} : ~Holds(q),
           \/ UNCHANGED <<manifest, stale, misled>>
           \/ /\ stale' = stale \cup {q \in Process \ {p} : proc[q].pc # "idle"}
              /\ misled' = misled \cup {q \in Process \ {p} : SecondPass(proc[q])},
           \A i \in Instance : manifest'[i].ours \subseteq manifest'[i].recorded,
           r.mem.ours \subseteq r.mem.recorded, Returning(r),
           overtaken => overtaken',
           ~overtaken' /\ p \notin misled /\ SecondPass(r) => NobodyLives',
           ~overtaken' => (AllAccounted /\ ConfIsRecorded /\ PortsOfTheLive)',
           ~overtaken' => p \notin stale /\ UpToDate(r)'
    PROVE  MachineInv'
  <1>1. /\ proc'[p] = r
        /\ \A q \in Process \ {p} : proc'[q] = proc[q]
    BY DEF Becomes, MachineInv, TypeOK
  <1>2. OneHolder'
    BY <1>1 DEF OneHolder, Holds
  <1>3. OursAreRecorded' /\ \A q \in Process : Returning(proc'[q])
    BY <1>1 DEF MachineInv, OursAreRecorded
  <1>4. ASSUME ~overtaken'  PROVE Coherent'
    <2>1. Coherent
      BY <1>4 DEF MachineInv
    <2>2. ASSUME NEW q \in Process, q # p, q \notin stale'  PROVE UpToDate(proc[q])'
      <3>1. proc'[q] = proc[q] /\ proc[q].pc \notin Held
        BY <1>1, <2>2 DEF Holds
      <3>2. CASE UNCHANGED <<manifest, stale, misled>>
        <4>1. UpToDate(proc[q])
          BY <2>1, <2>2, <3>2 DEF Coherent
        <4>2. QED  BY <3>1, <3>2, <4>1 DEF UpToDate, Before, Confirming, PortIsMem, KnowsOthers,
                        PortIsFree, Installing, KeepsPort, Removing, LiveOthers, IsLive, Held
      <3>3. CASE stale' = stale \cup {o \in Process \ {p} : proc[o].pc # "idle"}
        <4>1. proc'[q].pc = "idle"
          BY <2>2, <3>1, <3>3
        <4>2. QED  BY <4>1 DEF UpToDate, Before, Confirming, PortIsMem, KnowsOthers, PortIsFree,
                        Installing, KeepsPort, Removing, Held
      <3>4. QED  BY <3>2, <3>3
    <2>3. UpToDate(proc[p])'
      <3>1. UpToDate(r)'
        BY <1>4
      <3>2. QED  BY <1>1, <3>1 DEF UpToDate, Before, Confirming, PortIsMem, KnowsOthers, PortIsFree,
                      Installing, KeepsPort, Removing
    <2>4. \A q \in Process : Holds(q)' => q = p
      BY <1>1 DEF Holds
    <2>5. p \notin stale'
      BY <1>4
    <2>6. SecondPassIsAlone'
      <3>1. ASSUME NEW q \in Process \ misled', SecondPass(proc'[q])  PROVE NobodyLives'
        <4>1. CASE q = p
          <5>1. p \notin misled
            BY <3>1, <4>1
          <5>2. QED  BY <1>1, <1>4, <3>1, <4>1, <5>1
        <4>2. CASE q # p
          <5>1. SecondPass(proc[q]) /\ UNCHANGED <<manifest, misled>>
            BY <1>1, <3>1, <4>2
          <5>2. NobodyLives
            BY <2>1, <3>1, <5>1 DEF Coherent, SecondPassIsAlone
          <5>3. QED  BY <5>1, <5>2 DEF NobodyLives, IsLive
        <4>3. QED  BY <4>1, <4>2
      <3>2. \A q \in Process : SecondPass(proc[q])' <=> SecondPass(proc'[q])
        BY DEF SecondPass
      <3>3. QED  BY <3>1, <3>2 DEF SecondPassIsAlone
    <2>7. QED  BY <1>4, <2>2, <2>3, <2>4, <2>5, <2>6 DEF Coherent
  <1>5. (\A q \in Process : Returning(proc[q]))'
    BY <1>3 DEF Returning
  <1>6. QED  BY <1>2, <1>3, <1>4, <1>5 DEF MachineInv

\* A process that has ended, or is between two manifests, claims nothing.
LEMMA RestIsUpToDate ==
    ASSUME NEW r, r.pc \in {"idle", "pass1", "pass2"}  PROVE UpToDate(r) /\ UpToDate(r)'
  BY DEF UpToDate, Before, Confirming, PortIsMem, KnowsOthers, PortIsFree, Installing, KeepsPort,
         Removing, Held

LEMMA RestType ==
    ASSUME TypeOK, NEW p \in Process, NEW pc \in {"idle", "pass1", "pass2"}
    PROVE  LET r == [Idle EXCEPT !.pc = pc]
           IN  /\ r \in Proc /\ r.pc = pc /\ r.back = "idle" /\ r.mem.ours = {} /\ r.mem.recorded = {}
               /\ Returning(r) /\ (SecondPass(r) => pc = "pass2")
  <1>1. Idle \in Proc
    BY ProcType
  <1>2. QED  BY <1>1 DEF Proc, Idle, Empty, Returning, SecondPass

\* A process of the second pass still knows what it knew.
LEMMA StillAlone ==
    ASSUME MachineInv, NEW p \in Process, SecondPass(proc[p]), Coherent, p \notin misled
    PROVE  NobodyLives
  BY DEF Coherent, SecondPassIsAlone

\* Who else lives is not for the instance to change.
LEMMA OthersKept ==
    ASSUME NEW i \in Instance, \A j \in Instance \ {i} : manifest'[j] = manifest[j]
    PROVE  LiveOthers(i)' = LiveOthers(i)
  BY DEF LiveOthers, IsLive

-----------------------------------------------------------------------------
(* The actions that only change what a process holds in memory.            *)

LEMMA DecideStartInv ==
    ASSUME MachineInv, NEW p \in Process, NEW i \in Instance, NEW port \in Port,
           NEW force \in BOOLEAN, DecideStart(p, i, port, force)
    PROVE  MachineInv'
  <1> DEFINE start == StartDecision(manifest[i], force)
             mem == IF start = "Resume" THEN manifest[i] ELSE Empty(port)
             r == [Idle EXCEPT !.pc = "discover", !.inst = i, !.port = port,
                               !.start = start, !.mem = mem]
  <1>1. TypeOK
    BY DEF MachineInv
  <1>2. manifest[i] \in State /\ mem \in State /\ mem.ours \subseteq mem.recorded
    BY <1>1, EmptyType DEF TypeOK, MachineInv, OursAreRecorded, Empty
  <1>3. start \in Start /\ (start = "Fresh" => manifest[i].recorded = {})
    BY DEF DecideStart, StartDecision, Start
  <1>4. RepeatPort /\ start = "Resume" => port = manifest[i].port
    BY DEF DecideStart
  <1>5. /\ r.pc = "discover" /\ r.inst = i /\ r.port = port /\ r.start = start /\ r.mem = mem
        /\ r.back = "idle" /\ r \in Proc
    BY <1>2, <1>3, IdleType DEF Idle, Proc
  <1>6. Becomes(p, r) /\ stale' = stale \ {p}
    BY DEF DecideStart
  <1>7. TypeOK'
    <2>1. commands' \in 0 .. MaxCommands /\ stale' \subseteq Process
      BY <1>1, BoundsAssumption DEF DecideStart, TypeOK
    <2>2. UNCHANGED <<made, shared, conf, manifest, archive, misled, overtaken, faults>>
      BY DEF DecideStart
    <2> HIDE DEF r
    <2>3. QED  BY <1>1, <1>5, <1>6, <2>1, <2>2 DEF TypeOK, Becomes
  <1>8. UpToDate(r)
    <2>1. Before(r)
      BY <1>3, <1>5 DEF Before
    <2>2. PortIsMem(r)
      BY <1>4, <1>5 DEF PortIsMem, Empty
    <2> HIDE DEF r
    <2>3. QED  BY <1>5, <2>1, <2>2 DEF UpToDate, Confirming, KnowsOthers, PortIsFree, Installing,
                    KeepsPort, Removing, Held
  <1>9. UNCHANGED <<made, shared, conf, manifest, archive, misled, overtaken>>
    BY DEF DecideStart
  <1> HIDE DEF r
  <1>10. r.mem.ours \subseteq r.mem.recorded /\ r.pc \notin Held /\ Returning(r) /\ ~SecondPass(r)
    BY <1>2, <1>5 DEF Held, Returning, SecondPass
  <1>11. QED  BY <1>5, <1>6, <1>7, <1>8, <1>9, <1>10, OnlyTheProcess

\* An action that lets a process go, back to where it came from, and changes
\* nothing else the others know.
LEMMA GoesBack ==
    ASSUME MachineInv, NEW p \in Process, NEW pc \in {"idle", "pass1", "pass2"},
           Becomes(p, [Idle EXCEPT !.pc = pc]),
           faults' \in 0 .. MaxFaults, commands' \in 0 .. MaxCommands,
           UNCHANGED <<made, shared, conf, manifest, archive, stale, overtaken>>,
           misled' = misled \/ misled' = misled \ {p},
           Coherent /\ p \notin misled' /\ pc = "pass2" => NobodyLives
    PROVE  MachineInv'
  <1>1. TypeOK
    BY DEF MachineInv
  <1>2. PICK r \in Proc : r = [Idle EXCEPT !.pc = pc]
    BY <1>1, RestType
  <1>3. /\ r.pc = pc /\ r.mem.ours \subseteq r.mem.recorded
        /\ Returning(r) /\ (SecondPass(r) => pc = "pass2")
    BY <1>1, <1>2, RestType
  <1>4. Becomes(p, r)
    BY <1>2
  <1>5. TypeOK'
    BY <1>1, <1>4 DEF TypeOK, Becomes
  <1>6. UpToDate(r) /\ r.pc \notin Held
    BY <1>3, RestIsUpToDate DEF Held
  <1>7. QED  BY <1>3, <1>4, <1>5, <1>6, OnlyTheProcess

LEMMA LetsGo ==
    ASSUME MachineInv, NEW p \in Process, Exits(p),
           faults' \in 0 .. MaxFaults, commands' \in 0 .. MaxCommands,
           UNCHANGED <<made, shared, conf, manifest, archive, stale, misled, overtaken>>
    PROVE  MachineInv'
  <1>1. Becomes(p, [Idle EXCEPT !.pc = "idle"])
    BY DEF Exits, Idle
  <1>2. QED  BY <1>1, GoesBack

LEMMA DiscoverInv ==
    ASSUME MachineInv, NEW p \in Process, Discover(p)
    PROVE  MachineInv'
  <1>1. TypeOK
    BY DEF MachineInv
  <1>2. UNCHANGED <<made, shared, conf, manifest, archive, stale, misled, overtaken, commands, faults>>
    BY DEF Discover
  <1>3. CASE Exits(p)
    <2>1. faults' \in 0 .. MaxFaults /\ commands' \in 0 .. MaxCommands
      BY <1>1, <1>2 DEF TypeOK
    <2>2. QED  BY <1>2, <1>3, <2>1, LetsGo
  <1>4. CASE /\ ~PortConflict(proc[p].inst, proc[p].port, proc[p].start)
             /\ Becomes(p, [proc[p] EXCEPT !.pc = "ask", !.others = LiveOthers(proc[p].inst)])
    <2> DEFINE r == [proc[p] EXCEPT !.pc = "ask", !.others = LiveOthers(proc[p].inst)]
    <2>1. /\ r.pc = "ask" /\ r.inst = proc[p].inst /\ r.port = proc[p].port /\ r.mem = proc[p].mem
          /\ r.start = proc[p].start /\ r.others = LiveOthers(r.inst) /\ r.back = proc[p].back /\ r \in Proc
      BY <1>1, ProcType DEF Proc, LiveOthers
    <2>2. Becomes(p, r)
      BY <1>4
    <2> HIDE DEF r
    <2>3. TypeOK'
      BY <1>1, <1>2, <2>1, <2>2 DEF TypeOK, Becomes
    <2>4. r.mem.ours \subseteq r.mem.recorded /\ r.pc \notin Held
      BY <2>1 DEF MachineInv, OursAreRecorded, Held
    <2>a. Returning(r) /\ ~SecondPass(r)
      BY <2>1 DEF MachineInv, Returning, SecondPass, Discover
    <2>5. ASSUME Coherent, p \notin stale'  PROVE UpToDate(r)
      <3>1. UpToDate(proc[p]) /\ proc[p].pc = "discover"
        BY <1>2, <2>5 DEF Coherent, Discover
      <3>2. Before(r) /\ PortIsMem(r)
        BY <2>1, <3>1 DEF UpToDate, Before, PortIsMem
      <3>3. PortIsFree(r)
        BY <1>4, <2>1 DEF PortIsFree, PortConflict
      <3>4. QED  BY <2>1, <3>2, <3>3 DEF UpToDate, Confirming, KnowsOthers, Installing, KeepsPort,
                      Removing, Held
    <2>6. QED  BY <1>2, <2>1, <2>2, <2>3, <2>4, <2>5, <2>a, OnlyTheProcess
  <1>5. QED  BY <1>3, <1>4 DEF Discover

LEMMA TurnedAwayInv ==
    ASSUME MachineInv, NEW p \in Process, TurnedAway(p)
    PROVE  MachineInv'
  <1>1. /\ Exits(p) /\ faults' = faults /\ commands' = commands
        /\ UNCHANGED <<made, shared, conf, manifest, archive, stale, misled, overtaken>>
    BY DEF TurnedAway
  <1>2. QED  BY <1>1, LetsGo DEF MachineInv, TypeOK

LEMMA DieInv ==
    ASSUME MachineInv, NEW p \in Process, Die(p)
    PROVE  MachineInv'
  <1>1. faults' \in 0 .. MaxFaults /\ commands' \in 0 .. MaxCommands
    BY BoundsAssumption DEF Die, MachineInv, TypeOK
  <1>2. QED  BY <1>1, LetsGo DEF Die

LEMMA RollsBackInv ==
    ASSUME MachineInv, NEW p \in Process, NEW i \in Instance, NEW others \in SUBSET Instance,
           NEW from \in {"idle", "pass1", "pass2"}, RollsBack(p, i, others, from),
           stale' = stale \ {p}, commands' \in 0 .. MaxCommands,
           UNCHANGED <<made, shared, conf, manifest, archive, misled, overtaken, faults>>,
           from # "pass2" => others = LiveOthers(i),
           from = "pass2" => proc[p].pc = "pass2"
    PROVE  MachineInv'
  <1>1. TypeOK
    BY DEF MachineInv
  <1>2. PICK r \in Proc : r = [Idle EXCEPT !.pc = "load", !.back = from, !.inst = i, !.others = others]
    BY <1>1, ProcType DEF Proc
  <1>3. /\ r.pc = "load" /\ r.back = from /\ r.inst = i /\ r.others = others
        /\ r.mem.ours = {} /\ r.mem.recorded = {}
    BY <1>2 DEF Idle, Empty
  <1>4. Becomes(p, r)
    BY <1>2 DEF RollsBack
  <1>5. TypeOK'
    BY <1>1, <1>4 DEF TypeOK, Becomes
  <1>6. UpToDate(r) /\ r.pc \notin Held /\ Returning(r)
    BY <1>3 DEF UpToDate, Before, Confirming, PortIsMem, KnowsOthers, PortIsFree, Installing, KeepsPort,
       Removing, Held, Returning
  <1>7. ASSUME Coherent, p \notin misled', SecondPass(r)  PROVE NobodyLives
    <2>1. SecondPass(proc[p])
      BY <1>3, <1>7 DEF SecondPass
    <2>2. QED  BY <1>7, <2>1, StillAlone
  <1>8. QED  BY <1>3, <1>4, <1>5, <1>6, <1>7, OnlyTheProcess

LEMMA BeginRollbackInv ==
    ASSUME MachineInv, NEW p \in Process, NEW i \in Instance, BeginRollback(p, i)
    PROVE  MachineInv'
  <1>1. commands' \in 0 .. MaxCommands
    BY BoundsAssumption DEF BeginRollback, MachineInv, TypeOK
  <1>2. LiveOthers(i) \in SUBSET Instance
    BY DEF LiveOthers
  <1>3. QED  BY <1>1, <1>2, RollsBackInv DEF BeginRollback

LEMMA Pass1Inv ==
    ASSUME MachineInv, NEW p \in Process, Pass1(p)
    PROVE  MachineInv'
  <1>1. PICK i \in Instance : RollsBack(p, i, LiveOthers(i), "pass1")
    BY DEF Pass1
  <1>2. LiveOthers(i) \in SUBSET Instance
    BY DEF LiveOthers
  <1>3. /\ stale' = stale \ {p} /\ commands' \in 0 .. MaxCommands
        /\ UNCHANGED <<made, shared, conf, manifest, archive, misled, overtaken, faults>>
    BY DEF Pass1, MachineInv, TypeOK
  <1>4. QED  BY <1>1, <1>2, <1>3, RollsBackInv

LEMMA Pass2Inv ==
    ASSUME MachineInv, NEW p \in Process, Pass2(p)
    PROVE  MachineInv'
  <1>1. PICK i \in Instance : RollsBack(p, i, {}, "pass2")
    BY DEF Pass2
  <1>2. /\ stale' = stale \ {p} /\ commands' \in 0 .. MaxCommands /\ proc[p].pc = "pass2"
        /\ UNCHANGED <<made, shared, conf, manifest, archive, misled, overtaken, faults>>
    BY DEF Pass2, MachineInv, TypeOK
  <1>3. QED  BY <1>1, <1>2, RollsBackInv

LEMMA BeginAllInv ==
    ASSUME MachineInv, NEW p \in Process, BeginAll(p)
    PROVE  MachineInv'
  <1>1. faults' \in 0 .. MaxFaults /\ commands' \in 0 .. MaxCommands
    BY BoundsAssumption DEF BeginAll, MachineInv, TypeOK
  <1>2. /\ Becomes(p, [Idle EXCEPT !.pc = "pass1"])
        /\ UNCHANGED <<made, shared, conf, manifest, archive, stale, misled, overtaken>>
    BY DEF BeginAll
  <1>3. QED  BY <1>1, <1>2, GoesBack

\* The second pass begins when the first has found nobody alive.
LEMMA Pass1DoneInv ==
    ASSUME MachineInv, NEW p \in Process, Pass1Done(p)
    PROVE  MachineInv'
  <1>1. faults' \in 0 .. MaxFaults /\ commands' \in 0 .. MaxCommands
    BY DEF Pass1Done, MachineInv, TypeOK
  <1>2. /\ Becomes(p, [Idle EXCEPT !.pc = "pass2"]) /\ misled' = misled \ {p} /\ NobodyLives
        /\ UNCHANGED <<made, shared, conf, manifest, archive, stale, overtaken>>
    BY DEF Pass1Done, NobodyLives
  <1>3. QED  BY <1>1, <1>2, GoesBack

LEMMA AllDoneInv ==
    ASSUME MachineInv, NEW p \in Process, AllDone(p)
    PROVE  MachineInv'
  <1>1. /\ faults' \in 0 .. MaxFaults /\ commands' \in 0 .. MaxCommands /\ Exits(p)
        /\ UNCHANGED <<made, shared, conf, manifest, archive, stale, misled, overtaken>>
    BY DEF AllDone, MachineInv, TypeOK
  <1>2. QED  BY <1>1, LetsGo

LEMMA LoadInv ==
    ASSUME MachineInv, NEW p \in Process, Load(p)
    PROVE  MachineInv'
  <1>1. TypeOK
    BY DEF MachineInv
  <1>2. UNCHANGED <<made, shared, conf, manifest, archive, stale, misled, overtaken, commands, faults>>
    BY DEF Load
  <1>3. CASE Returns(p)
    <2>1. PICK pc \in {"idle", "pass1", "pass2"} : pc = proc[p].back
      BY <1>1, ProcType
    <2>2. Becomes(p, [Idle EXCEPT !.pc = pc])
      BY <1>3, <2>1 DEF Returns
    <2>3. faults' \in 0 .. MaxFaults /\ commands' \in 0 .. MaxCommands
      BY <1>1, <1>2 DEF TypeOK
    <2>4. Coherent /\ p \notin misled' /\ pc = "pass2" => NobodyLives
      BY <1>2, <2>1, StillAlone DEF SecondPass
    <2>5. QED  BY <1>2, <2>2, <2>3, <2>4, GoesBack
  <1>4. CASE Becomes(p, [proc[p] EXCEPT !.pc = "confirm", !.mem = manifest[proc[p].inst]])
    <2> DEFINE r == [proc[p] EXCEPT !.pc = "confirm", !.mem = manifest[proc[p].inst]]
    <2>1. /\ r.pc = "confirm" /\ r.inst = proc[p].inst /\ r.mem = manifest[proc[p].inst]
          /\ r.others = proc[p].others /\ r.back = proc[p].back /\ r \in Proc
      BY <1>1, ProcType DEF Proc
    <2>2. Becomes(p, r)
      BY <1>4
    <2> HIDE DEF r
    <2>3. TypeOK'
      BY <1>1, <1>2, <2>1, <2>2 DEF TypeOK, Becomes
    <2>4. r.mem.ours \subseteq r.mem.recorded /\ r.pc \notin Held
      BY <1>1, <2>1, ProcType DEF MachineInv, OursAreRecorded, Held
    <2>a. Returning(r)
      BY <2>1 DEF Returning
    <2>b. ASSUME Coherent, p \notin misled', SecondPass(r)  PROVE NobodyLives
      <3>1. SecondPass(proc[p])
        BY <2>1, <2>b DEF SecondPass
      <3>2. QED  BY <1>2, <2>b, <3>1, StillAlone
    <2>5. ASSUME Coherent, p \notin stale'  PROVE UpToDate(r)
      <3>1. UpToDate(proc[p]) /\ proc[p].pc = "load"
        BY <1>2, <2>5 DEF Coherent, Load
      <3>2. KnowsOthers(r)
        BY <2>1, <3>1 DEF UpToDate, KnowsOthers
      <3>3. QED  BY <2>1, <3>2 DEF UpToDate, Before, Confirming, PortIsMem, PortIsFree, Installing,
                      KeepsPort, Removing, Held
    <2>6. QED  BY <1>2, <2>1, <2>2, <2>3, <2>4, <2>5, <2>a, <2>b, OnlyTheProcess
  <1>5. QED  BY <1>3, <1>4 DEF Load

\* From the failure on, what is to be undone is what the manifest says.
LEMMA FailInv ==
    ASSUME MachineInv, NEW p \in Process, Fail(p)
    PROVE  MachineInv'
  <1>1. TypeOK /\ proc[p].pc = "install" /\ proc[p].at \in Step
    BY DEF MachineInv, Fail
  <1>2. UNCHANGED <<made, shared, conf, manifest, archive, stale, misled, overtaken, commands>>
    BY DEF Fail
  <1>3. faults' \in 0 .. MaxFaults /\ commands' \in 0 .. MaxCommands
    BY <1>1, BoundsAssumption DEF Fail, TypeOK
  <1>4. CASE Exits(p)
    BY <1>2, <1>3, <1>4, LetsGo
  <1>5. CASE Becomes(p, [proc[p] EXCEPT !.pc = "undo", !.at = @ - 1])
    <2> DEFINE r == [proc[p] EXCEPT !.pc = "undo", !.at = @ - 1]
    <2>1. proc[p].at - 1 \in 0 .. N + 1
      BY <1>1, StepsAssumption DEF Step
    <2>2. /\ r.pc = "undo" /\ r.inst = proc[p].inst /\ r.mem = proc[p].mem
          /\ r.others = proc[p].others /\ r.back = proc[p].back /\ r \in Proc
      BY <1>1, <2>1, ProcType DEF Proc
    <2>3. Becomes(p, r)
      BY <1>5
    <2> HIDE DEF r
    <2>4. TypeOK'
      BY <1>1, <1>2, <1>3, <2>2, <2>3 DEF TypeOK, Becomes
    <2>5. r.mem.ours \subseteq r.mem.recorded /\ Holds(p)
      BY <1>1, <2>2 DEF MachineInv, OursAreRecorded, Holds, Held
    <2>a. Returning(r) /\ ~SecondPass(r)
      BY <1>1, <2>2 DEF MachineInv, Returning, SecondPass
    <2>6. ASSUME Coherent, p \notin stale'  PROVE UpToDate(r)
      <3>1. UpToDate(proc[p])
        BY <1>2, <2>6 DEF Coherent
      <3>2. KnowsOthers(r) /\ KeepsPort(r)
        BY <1>1, <2>2, <3>1 DEF UpToDate, KnowsOthers, KeepsPort, Held
      <3>3. r.mem.ours = manifest[r.inst].ours
        BY <1>1, <2>2, <3>1 DEF UpToDate, Installing
      <3>4. Removing(r)
        BY <1>1, <2>2, <2>6, <3>3, ProcType DEF Removing, Coherent, AllAccounted, Accounted, Others
      <3>5. QED  BY <2>2, <3>2, <3>4 DEF UpToDate, Before, Confirming, PortIsMem, PortIsFree,
                      Installing
    <2>7. QED  BY <1>2, <2>2, <2>3, <2>4, <2>5, <2>6, <2>a, OnlyTheProcess
  <1>6. QED  BY <1>4, <1>5 DEF Fail

-----------------------------------------------------------------------------
(* The actions of who takes or holds the lock.                             *)

LEMMA OthersDoNotHold ==
    ASSUME MachineInv, NEW p \in Process, ~Locked \/ Holds(p)
    PROVE  \A q \in Process \ {p} : ~Holds(q)
  BY DEF MachineInv, OneHolder, Holds, Held, Locked

\* What is known of a holder as long as nobody was overtaken.
LEMMA HolderIsUpToDate ==
    ASSUME MachineInv, ~overtaken, NEW p \in Process, Holds(p)
    PROVE  Coherent /\ p \notin stale /\ UpToDate(proc[p])
  BY DEF MachineInv, Coherent

\* A manifest of instance i is written in which the same work is called ours,
\* and no record is new.
LEMMA SameAccounts ==
    ASSUME TypeOK, NEW i \in Instance, NEW m \in State,
           manifest' = [manifest EXCEPT ![i] = m], archive' \in [Instance -> SUBSET Step],
           \A j \in Instance \ {i} : archive'[j] = archive[j]
    PROVE  /\ \A j \in Instance \ {i} : Accounted(j)' = Accounted(j) /\ manifest'[j] = manifest[j]
           /\ Accounted(i)' = m.ours \cup archive'[i] /\ manifest'[i] = m
           /\ Others(i)' = Others(i)
           /\ LiveOthers(i)' = LiveOthers(i)
  <1>1. /\ manifest'[i] = m
        /\ \A j \in Instance \ {i} : manifest'[j] = manifest[j]
    BY DEF TypeOK
  <1>2. \A j \in Instance \ {i} : Accounted(j)' = Accounted(j)
    BY <1>1 DEF Accounted
  <1>3. LiveOthers(i)' = LiveOthers(i)
    BY <1>1 DEF LiveOthers, IsLive
  <1>4. Others(i)' = Others(i)
    BY <1>2 DEF Others
  <1>5. QED  BY <1>1, <1>2, <1>3, <1>4 DEF Accounted

\* Only instance i writes its manifest, and with no new record: the ports of the
\* live stay apart.
LEMMA PortsStayApart ==
    ASSUME TypeOK, NEW i \in Instance, NEW m \in State, PortsOfTheLive,
           manifest' = [manifest EXCEPT ![i] = m], m.recorded \subseteq manifest[i].recorded,
           m.recorded # {} => m.port = manifest[i].port
    PROVE  PortsOfTheLive'
  <1>1. /\ manifest'[i] = m
        /\ \A j \in Instance \ {i} : manifest'[j] = manifest[j]
    BY DEF TypeOK
  <1>2. \A j \in Instance : IsLive(j)' => IsLive(j) /\ manifest'[j].port = manifest[j].port
    BY <1>1 DEF IsLive
  <1>3. QED  BY <1>2 DEF PortsOfTheLive

LEMMA BeginUndoInv ==
    ASSUME MachineInv, NEW p \in Process, BeginUndo(p)
    PROVE  MachineInv'
  <1>1. TypeOK /\ proc[p].pc = "confirm"
    BY DEF MachineInv, BeginUndo
  <1>2. UNCHANGED <<made, shared, conf, manifest, archive, stale, misled, commands, faults>>
    BY DEF BeginUndo
  <1>3. ~Locked /\ overtaken' = (overtaken \/ p \in stale)
    BY DEF BeginUndo, TakesLock
  <1>a. N \in 0 .. N + 1
    BY StepsAssumption
  <1>b. PICK r \in Proc : r = [proc[p] EXCEPT !.pc = "disk", !.at = N]
    BY <1>1, <1>a, ProcType DEF Proc
  <1>4. /\ r.pc = "disk" /\ r.inst = proc[p].inst /\ r.mem = proc[p].mem
        /\ r.others = proc[p].others /\ r.back = proc[p].back /\ r \in Proc
    BY <1>1, <1>b, ProcType DEF Proc
  <1>5. Becomes(p, r)
    BY <1>b DEF BeginUndo
  <1>6. overtaken' \in BOOLEAN
    BY <1>1, <1>3 DEF TypeOK
  <1>7. TypeOK'
    BY <1>1, <1>2, <1>4, <1>5, <1>6 DEF TypeOK, Becomes
  <1>8. /\ \A q \in Process \ {p} : ~Holds(q)
        /\ r.mem.ours \subseteq r.mem.recorded
        /\ \A i \in Instance : manifest'[i].ours \subseteq manifest'[i].recorded
    BY <1>2, <1>3, <1>4, OthersDoNotHold DEF MachineInv, OursAreRecorded
  <1>9. ASSUME ~overtaken'
        PROVE  (AllAccounted /\ ConfIsRecorded /\ PortsOfTheLive)' /\ p \notin stale /\ UpToDate(r)'
    <2>1. Coherent /\ p \notin stale /\ UpToDate(proc[p])
      BY <1>3, <1>9 DEF MachineInv, Coherent
    <2>2. (AllAccounted /\ ConfIsRecorded /\ PortsOfTheLive)'
      BY <1>2, <2>1 DEF Coherent, AllAccounted, ConfIsRecorded, PortsOfTheLive, Accounted, IsLive
    <2>3. r.mem = manifest[r.inst] /\ (r.back # "pass2" => r.others = LiveOthers(r.inst))
      BY <1>1, <1>4, <2>1 DEF UpToDate, Confirming, KnowsOthers
    <2>4. Removing(r) /\ KeepsPort(r)
      BY <1>1, <1>4, <2>1, <2>3, ProcType DEF Removing, KeepsPort, Coherent, AllAccounted, Accounted, Others
    <2>5. UpToDate(r)
      BY <1>4, <2>3, <2>4 DEF UpToDate, Before, Confirming, PortIsMem, KnowsOthers, PortIsFree, Installing
    <2>6. UpToDate(r)'
      BY <1>2, <2>5 DEF UpToDate, Before, Confirming, PortIsMem, KnowsOthers, PortIsFree, Installing,
         KeepsPort, Removing, LiveOthers, IsLive, Others, Accounted
    <2>7. QED  BY <2>1, <2>2, <2>6
  <1>10. Returning(r) /\ (SecondPass(r) => SecondPass(proc[p]))
    BY <1>4 DEF Returning, SecondPass
  <1>11. ASSUME ~overtaken', p \notin misled, SecondPass(r)  PROVE NobodyLives'
    <2>1. NobodyLives
      BY <1>3, <1>10, <1>11, StillAlone DEF MachineInv
    <2>2. QED  BY <1>2, <2>1 DEF NobodyLives, IsLive
  <1>12. UNCHANGED <<manifest, stale, misled>> /\ (overtaken => overtaken')
    BY <1>2, <1>3
  <1>13. QED  BY <1>4, <1>5, <1>7, <1>8, <1>9, <1>10, <1>11, <1>12, OneActs

LEMMA BeginInstallInv ==
    ASSUME MachineInv, NEW p \in Process, BeginInstall(p)
    PROVE  MachineInv'
  <1>1. TypeOK /\ proc[p].pc = "ask"
    BY DEF MachineInv, BeginInstall
  <1>2. UNCHANGED <<made, shared, conf, commands, faults>>
    BY DEF BeginInstall
  <1>3. ~Locked /\ overtaken' = (overtaken \/ p \in stale)
    BY DEF BeginInstall, TakesLock
  <1>4. /\ \A q \in Process \ {p} : ~Holds(q)
        /\ overtaken' \in BOOLEAN
        /\ overtaken => overtaken'
    BY <1>1, <1>3, OthersDoNotHold DEF TypeOK
  <1>5. PICK i \in Instance : i = proc[p].inst
    BY <1>1, ProcType
  <1>a. 1 \in 0 .. N + 1
    BY StepsAssumption
  <1>b. PICK r \in Proc : r = [proc[p] EXCEPT !.pc = "install", !.at = 1]
    BY <1>1, <1>a, ProcType DEF Proc
  <1>6. /\ r.pc = "install" /\ r.inst = i /\ r.mem = proc[p].mem /\ r.start = proc[p].start
        /\ r.others = proc[p].others /\ r.at = 1 /\ r.port = proc[p].port /\ r \in Proc
        /\ r.back = proc[p].back
    BY <1>1, <1>5, <1>b, ProcType DEF Proc
  <1>7. r.mem.ours \subseteq r.mem.recorded
    BY <1>6 DEF MachineInv, OursAreRecorded
  <1>8. ASSUME ~overtaken'
        PROVE  Coherent /\ p \notin stale /\ UpToDate(proc[p])
    BY <1>3, <1>8 DEF MachineInv, Coherent
  <1>c. proc[p].back = "idle" /\ Returning(r) /\ ~SecondPass(r)
    BY <1>1, <1>6 DEF MachineInv, Returning, SecondPass
  \* What a process nobody has overtaken goes on to install with.
  <1>9. ASSUME ~overtaken'
        PROVE  PortIsMem(r) /\ KnowsOthers(r) /\ PortIsFree(r)
    BY <1>1, <1>5, <1>6, <1>8, <1>9, <1>c DEF UpToDate, PortIsMem, KnowsOthers, PortIsFree
  <1>10. CASE /\ proc[p].start # "Replace" /\ Becomes(p, r)
              /\ UNCHANGED <<manifest, archive, stale, misled>>
    <2>1. TypeOK'
      BY <1>1, <1>2, <1>4, <1>6, <1>10 DEF TypeOK, Becomes
    <2>2. \A j \in Instance : manifest'[j].ours \subseteq manifest'[j].recorded
      BY <1>10 DEF MachineInv, OursAreRecorded
    <2>3. ASSUME ~overtaken'
          PROVE  (AllAccounted /\ ConfIsRecorded /\ PortsOfTheLive)' /\ p \notin stale /\ UpToDate(r)'
      <3>1. (AllAccounted /\ ConfIsRecorded /\ PortsOfTheLive)'
        BY <1>2, <1>8, <1>10, <2>3
           DEF Coherent, AllAccounted, ConfIsRecorded, PortsOfTheLive, Accounted, IsLive
      <3>2. \/ r.mem = manifest[i]
            \/ r.mem = Empty(r.port) /\ manifest[i].recorded = {} /\ manifest[i].ours = {}
        BY <1>1, <1>5, <1>6, <1>8, <1>10, <2>3, ProcType
           DEF UpToDate, Before, Start, MachineInv, OursAreRecorded
      <3>3. ConfIsRecorded
        BY <1>8, <2>3 DEF Coherent
      <3>4. Installing(r)
        <4>1. r.mem.recorded = manifest[i].recorded /\ r.mem.ours = manifest[i].ours
          BY <3>2 DEF Empty
        <4>2. r.mem.finished => ConfStep \in r.mem.recorded
          BY <3>2, <3>3 DEF Empty, ConfIsRecorded
        <4>3. \A s \in Step : ~(s < 1)
          BY StepsAssumption DEF Step
        <4>4. QED  BY <1>6, <4>1, <4>2, <4>3 DEF Installing
      <3>5. KeepsPort(r)
        BY <1>6, <3>2 DEF KeepsPort, Empty
      <3>6. UpToDate(r)
        BY <1>6, <1>9, <2>3, <3>4, <3>5 DEF UpToDate, Before, Confirming, Removing
      <3>7. UpToDate(r)'
        BY <1>2, <1>10, <3>6 DEF UpToDate, Before, Confirming, PortIsMem, KnowsOthers, PortIsFree,
           Installing, KeepsPort, Removing, LiveOthers, IsLive, Others, Accounted
      <3>8. QED  BY <1>8, <2>3, <3>1, <3>7
    <2>4. QED  BY <1>4, <1>6, <1>7, <1>10, <1>c, <2>1, <2>2, <2>3, OneActs
  <1>11. CASE /\ proc[p].start = "Replace" /\ manifest[i].recorded # {}
              /\ archive' = [archive EXCEPT ![i] = @ \cup manifest[i].ours]
              /\ Writes(p, i, Empty(proc[p].port)) /\ Becomes(p, r)
    <2>a. PICK m \in State : m = Empty(proc[p].port)
      BY <1>1, ProcType, EmptyType
    <2>1. /\ m \in State /\ m.recorded = {} /\ m.ours = {} /\ m.finished = FALSE
          /\ m.port = proc[p].port
      BY <2>a DEF Empty
    <2>2. manifest' = [manifest EXCEPT ![i] = m]
      BY <1>11, <2>a DEF Writes
    <2>3. archive' \in [Instance -> SUBSET Step] /\ archive'[i] = archive[i] \cup manifest[i].ours
          /\ \A j \in Instance \ {i} : archive'[j] = archive[j]
      BY <1>1, <1>11 DEF TypeOK, State
    <2>4. TypeOK'
      <3>1. manifest' \in [Instance -> State] /\ stale' \subseteq Process /\ misled' \subseteq Process
        BY <1>1, <1>11, <2>1, <2>a, WritesType
      <3>2. QED  BY <1>1, <1>2, <1>4, <1>6, <1>11, <2>3, <3>1 DEF TypeOK, Becomes
    <2>5. /\ \A j \in Instance \ {i} : Accounted(j)' = Accounted(j) /\ manifest'[j] = manifest[j]
          /\ Accounted(i)' = m.ours \cup archive'[i] /\ manifest'[i] = m
          /\ LiveOthers(i)' = LiveOthers(i)
      BY <1>1, <2>1, <2>2, <2>3, SameAccounts
    <2>6. \A j \in Instance : manifest'[j].ours \subseteq manifest'[j].recorded
      BY <2>1, <2>5 DEF MachineInv, OursAreRecorded
    <2>7. ASSUME ~overtaken'
          PROVE  (AllAccounted /\ ConfIsRecorded /\ PortsOfTheLive)' /\ p \notin stale /\ UpToDate(r)'
      <3>1. Coherent /\ UpToDate(proc[p])
        BY <1>8, <2>7
      <3>2. \A j \in Instance : Accounted(j)' = Accounted(j)
        BY <2>1, <2>3, <2>5 DEF Accounted
      <3>3. AllAccounted'
        BY <1>2, <3>1, <3>2 DEF Coherent, AllAccounted
      <3>4. ConfIsRecorded'
        BY <1>2, <2>1, <2>5, <3>1 DEF Coherent, ConfIsRecorded
      <3>5. PortsOfTheLive'
        BY <1>1, <2>1, <2>2, <3>1, PortsStayApart DEF Coherent
      <3>6. r.mem = m
        BY <1>1, <1>6, <1>11, <2>a, <3>1 DEF UpToDate, Before
      <3>7. Installing(r)' /\ KeepsPort(r)'
        <4>1. \A s \in Step : ~(s < 1)
          BY StepsAssumption DEF Step
        <4>2. QED  BY <1>6, <2>1, <2>5, <3>6, <4>1 DEF Installing, KeepsPort
      <3>8. PortIsMem(r)' /\ KnowsOthers(r)' /\ PortIsFree(r)'
        <4>1. LiveOthers(i) \subseteq Instance \ {i}
          BY DEF LiveOthers
        <4>2. QED  BY <1>6, <1>9, <2>5, <2>7, <4>1 DEF PortIsMem, KnowsOthers, PortIsFree
      <3>9. QED  BY <1>6, <1>8, <2>7, <3>3, <3>4, <3>5, <3>7, <3>8 DEF UpToDate, Before, Confirming, Removing
    <2>8. /\ stale' = stale \cup {q \in Process \ {p} : proc[q].pc # "idle"}
          /\ misled' = misled \cup {q \in Process \ {p} : SecondPass(proc[q])}
      BY <1>11 DEF Writes
    <2>9. QED  BY <1>4, <1>6, <1>7, <1>11, <1>c, <2>4, <2>6, <2>7, <2>8, OneActs
  <1>12. CASE /\ proc[p].start = "Replace" /\ manifest[i].recorded = {} /\ Exits(p)
              /\ UNCHANGED <<manifest, archive, stale, misled>>
    <2>1. PICK e \in Proc : e = Idle
      BY <1>1, ProcType
    <2>2. Becomes(p, e) /\ e.mem.ours \subseteq e.mem.recorded /\ Returning(e) /\ ~SecondPass(e)
      BY <1>12, <2>1 DEF Exits, Idle, Empty, Returning, SecondPass
    <2>3. TypeOK'
      BY <1>1, <1>2, <1>4, <1>12, <2>1, <2>2 DEF TypeOK, Becomes
    <2>4. \A j \in Instance : manifest'[j].ours \subseteq manifest'[j].recorded
      BY <1>12 DEF MachineInv, OursAreRecorded
    <2>5. ASSUME ~overtaken'
          PROVE  (AllAccounted /\ ConfIsRecorded /\ PortsOfTheLive)' /\ p \notin stale /\ UpToDate(e)'
      <3>1. (AllAccounted /\ ConfIsRecorded /\ PortsOfTheLive)'
        BY <1>2, <1>8, <1>12, <2>5
           DEF Coherent, AllAccounted, ConfIsRecorded, PortsOfTheLive, Accounted, IsLive
      <3>2. UpToDate(e)'
        BY <2>1, RestIsUpToDate DEF Idle
      <3>3. QED  BY <1>8, <2>5, <3>1, <3>2
    <2>6. QED  BY <1>4, <1>12, <2>1, <2>2, <2>3, <2>4, <2>5, OneActs
  <1>13. QED  BY <1>5, <1>b, <1>10, <1>11, <1>12 DEF BeginInstall

\* A step already recorded is skipped.
LEMMA SkipInv ==
    ASSUME MachineInv, NEW p \in Process, proc[p].pc = "install", proc[p].at \in Step,
           proc[p].at \in proc[p].mem.recorded,
           Becomes(p, [proc[p] EXCEPT !.at = proc[p].at + 1]),
           UNCHANGED <<made, shared, conf, manifest, stale, misled, archive, overtaken, commands, faults>>
    PROVE  MachineInv'
  <1>1. TypeOK
    BY DEF MachineInv
  <1>2. proc[p].at \in Nat /\ proc[p].at + 1 \in 0 .. N + 1
    BY StepsAssumption DEF Step
  <1>3. PICK r \in Proc : r = [proc[p] EXCEPT !.at = proc[p].at + 1]
    BY <1>1, <1>2, ProcType DEF Proc
  <1>4. /\ r.pc = "install" /\ r.inst = proc[p].inst /\ r.mem = proc[p].mem /\ r.port = proc[p].port
        /\ r.others = proc[p].others /\ r.at = proc[p].at + 1 /\ r.start = proc[p].start
        /\ r.back = proc[p].back
    BY <1>1, <1>3, ProcType DEF Proc
  <1>5. TypeOK'
    BY <1>1, <1>3 DEF TypeOK, Becomes
  <1>6. r.mem.ours \subseteq r.mem.recorded /\ Holds(p)
    BY <1>4 DEF MachineInv, OursAreRecorded, Holds, Held
  <1>7. ASSUME Coherent, p \notin stale'  PROVE UpToDate(r)
    <2>1. UpToDate(proc[p])
      BY <1>7 DEF Coherent
    <2>2. \A s \in Step : s < r.at => s \in r.mem.recorded
      <3>1. \A s \in Step : s < proc[p].at + 1 => s < proc[p].at \/ s = proc[p].at
        BY <1>2, StepsAssumption DEF Step
      <3>2. \A s \in Step : s < proc[p].at => s \in proc[p].mem.recorded
        BY <2>1 DEF UpToDate, Installing
      <3>3. QED  BY <1>4, <3>1, <3>2
    <2>3. QED  BY <1>4, <2>1, <2>2 DEF UpToDate, Before, Confirming, PortIsMem, KnowsOthers, PortIsFree,
                    Installing, KeepsPort, Removing
  <1>8. Returning(r) /\ ~SecondPass(r)
    BY <1>4 DEF MachineInv, Returning, SecondPass
  <1>9. QED  BY <1>3, <1>4, <1>5, <1>6, <1>7, <1>8, OnlyTheProcess

\* A step is run, recorded and saved.
LEMMA RunInv ==
    ASSUME MachineInv, NEW p \in Process, proc[p].pc = "install",
           NEW i \in Instance, i = proc[p].inst, NEW s \in Step, s = proc[p].at,
           NEW saved,
           saved = [proc[p].mem EXCEPT !.recorded = @ \cup {s},
                                       !.ours = IF Here(i, s) THEN @ ELSE @ \cup {s}],
           shared' = IF s \in SharedStep THEN shared \cup {s} ELSE shared,
           made' = IF s \in SharedStep THEN made ELSE [made EXCEPT ![i] = @ \cup {s}],
           conf' = IF s = ConfStep THEN [conf EXCEPT ![i] = proc[p].port] ELSE conf,
           Writes(p, i, saved),
           Becomes(p, [proc[p] EXCEPT !.at = s + 1, !.mem = saved]),
           UNCHANGED <<archive, overtaken, commands, faults>>
    PROVE  MachineInv'
  <1>1. TypeOK /\ Holds(p)
    BY DEF MachineInv, Holds, Held
  <1>2. s \in Nat /\ s + 1 \in 0 .. N + 1
    BY StepsAssumption DEF Step
  <1>3. /\ saved \in State
        /\ saved.recorded = proc[p].mem.recorded \cup {s}
        /\ saved.ours = IF Here(i, s) THEN proc[p].mem.ours ELSE proc[p].mem.ours \cup {s}
        /\ saved.port = proc[p].mem.port /\ saved.finished = proc[p].mem.finished
    <2>1. proc[p].mem \in State
      BY <1>1, ProcType
    <2>2. QED  BY <2>1 DEF State
  <1>4. PICK r \in Proc : r = [proc[p] EXCEPT !.at = s + 1, !.mem = saved]
    BY <1>1, <1>2, <1>3, ProcType DEF Proc
  <1>5. /\ r.pc = "install" /\ r.inst = i /\ r.mem = saved /\ r.port = proc[p].port
        /\ r.others = proc[p].others /\ r.at = s + 1 /\ r.back = proc[p].back
    BY <1>1, <1>4, ProcType DEF Proc
  <1>6. /\ manifest' = [manifest EXCEPT ![i] = saved]
        /\ stale' = stale \cup {q \in Process \ {p} : proc[q].pc # "idle"}
        /\ misled' = misled \cup {q \in Process \ {p} : SecondPass(proc[q])}
    BY DEF Writes
  <1>7. TypeOK'
    <2>1. manifest' \in [Instance -> State] /\ stale' \subseteq Process /\ misled' \subseteq Process
      BY <1>1, <1>3, WritesType
    <2>2. /\ shared' \subseteq SharedStep /\ made' \in [Instance -> SUBSET (Step \ SharedStep)]
      BY <1>1 DEF TypeOK
    <2>3. conf' \in [Instance -> Port]
      BY <1>1, ProcType DEF TypeOK
    <2>4. proc' \in [Process -> Proc]
      BY <1>1, <1>4 DEF TypeOK, Becomes
    <2>5. QED  BY <1>1, <2>1, <2>2, <2>3, <2>4 DEF TypeOK
  <1>8. /\ \A j \in Instance \ {i} : Accounted(j)' = Accounted(j) /\ manifest'[j] = manifest[j]
        /\ Accounted(i)' = saved.ours \cup archive[i] /\ manifest'[i] = saved
        /\ LiveOthers(i)' = LiveOthers(i)
    <2>1. archive' = archive /\ archive' \in [Instance -> SUBSET Step]
      BY <1>1 DEF TypeOK
    <2>2. QED  BY <1>1, <1>3, <1>6, <2>1, SameAccounts
  <1>9. saved.ours \subseteq saved.recorded
    BY <1>3 DEF MachineInv, OursAreRecorded
  <1>10. \A j \in Instance : manifest'[j].ours \subseteq manifest'[j].recorded
    BY <1>8, <1>9 DEF MachineInv, OursAreRecorded
  <1>11. ASSUME ~overtaken'
         PROVE  (AllAccounted /\ ConfIsRecorded /\ PortsOfTheLive)' /\ p \notin stale /\ UpToDate(r)'
    <2>1. Coherent /\ p \notin stale /\ UpToDate(proc[p])
      BY <1>1, <1>11, HolderIsUpToDate
    <2>2. /\ proc[p].mem.recorded = manifest[i].recorded /\ proc[p].mem.ours = manifest[i].ours
          /\ \A t \in Step : t < s => t \in proc[p].mem.recorded
          /\ proc[p].mem.finished => ConfStep \in proc[p].mem.recorded
      BY <2>1 DEF UpToDate, Installing
    <2>3. \A j \in Instance : Accounted(j) \subseteq Accounted(j)'
      BY <1>3, <1>8, <2>2 DEF Accounted
    <2>4. ~Here(i, s) => s \in Accounted(i)'
      BY <1>3, <1>8
    <2>5. AllAccounted'
      <3>1. ASSUME NEW j \in Instance  PROVE made'[j] \subseteq Accounted(j)'
        <4>1. made[j] \subseteq Accounted(j)'
          BY <2>1, <2>3 DEF Coherent, AllAccounted
        <4>2. CASE s \in SharedStep \/ j # i
          BY <1>1, <4>1, <4>2 DEF TypeOK
        <4>3. CASE s \notin SharedStep /\ j = i
          <5>1. made'[j] = made[i] \cup {s}
            BY <1>1, <4>3 DEF TypeOK
          <5>2. Here(i, s) => s \in made[i]
            BY <4>3 DEF Here
          <5>3. QED  BY <2>4, <4>1, <4>3, <5>1, <5>2
        <4>4. QED  BY <4>2, <4>3
      <3>2. shared' \subseteq UNION {Accounted(j)' : j \in Instance}
        <4>1. shared \subseteq UNION {Accounted(j)' : j \in Instance}
          BY <2>1, <2>3 DEF Coherent, AllAccounted
        <4>2. s \in SharedStep => s \in shared \/ s \in Accounted(i)'
          BY <2>4 DEF Here
        <4>3. QED  BY <4>1, <4>2
      <3>3. QED  BY <3>1, <3>2 DEF AllAccounted
    <2>6. RepeatPort => saved.port = proc[p].port
      BY <1>3, <2>1 DEF UpToDate, PortIsMem
    <2>7. manifest[i].recorded # {} => saved.port = manifest[i].port
      BY <1>1, <1>3, <2>1 DEF UpToDate, KeepsPort, Holds
    <2>8. ConfIsRecorded'
      <3>1. ASSUME NEW j \in Instance, j # i
            PROVE  /\ manifest'[j].finished => ConfStep \in manifest'[j].recorded
                   /\ RepeatPort /\ ConfStep \in manifest'[j].recorded => conf'[j] = manifest'[j].port
        <4>1. conf'[j] = conf[j] /\ manifest'[j] = manifest[j]
          BY <1>1, <1>8, <3>1 DEF TypeOK
        <4>2. QED  BY <2>1, <4>1 DEF Coherent, ConfIsRecorded
      <3>2. saved.finished => ConfStep \in saved.recorded
        BY <1>3, <2>2
      <3>3. ASSUME RepeatPort, ConfStep \in saved.recorded  PROVE conf'[i] = saved.port
        <4>1. CASE s = ConfStep
          BY <1>1, <2>6, <3>3, <4>1 DEF TypeOK
        <4>2. CASE s # ConfStep
          <5>1. ConfStep \in manifest[i].recorded
            BY <1>3, <2>2, <3>3, <4>2
          <5>2. conf[i] = manifest[i].port
            BY <2>1, <3>3, <5>1 DEF Coherent, ConfIsRecorded
          <5>3. QED  BY <2>7, <4>2, <5>1, <5>2
        <4>3. QED  BY <4>1, <4>2
      <3>4. QED  BY <1>8, <3>1, <3>2, <3>3 DEF ConfIsRecorded
    <2>9. PortsOfTheLive'
      <3>1. \A j \in Instance \ {i} : IsLive(j)' <=> IsLive(j)
        BY <1>8 DEF IsLive
      <3>2. ASSUME RepeatPort, NEW j \in Instance, j # i, IsLive(j)
            PROVE  ~Clash(saved.port, manifest[j].port)
        <4>1. j \in LiveOthers(i)
          BY <3>2 DEF LiveOthers
        <4>2. QED  BY <2>1, <2>6, <3>2, <4>1 DEF UpToDate, PortIsFree
      <3>3. ASSUME RepeatPort, NEW j \in Instance, NEW k \in Instance, j # k, IsLive(j)', IsLive(k)'
            PROVE  ~Clash(manifest'[j].port, manifest'[k].port)
        <4>1. CASE j = i
          <5>1. IsLive(k) /\ manifest'[k] = manifest[k]
            BY <1>8, <3>1, <3>3, <4>1
          <5>2. QED  BY <1>8, <3>2, <3>3, <4>1, <5>1
        <4>2. CASE k = i
          <5>1. IsLive(j) /\ manifest'[j] = manifest[j]
            BY <1>8, <3>1, <3>3, <4>2
          <5>2. QED  BY <1>8, <3>2, <3>3, <4>2, <5>1, ClashBothWays
        <4>3. CASE j # i /\ k # i
          <5>1. /\ IsLive(j) /\ manifest'[j] = manifest[j]
                /\ IsLive(k) /\ manifest'[k] = manifest[k]
            BY <1>8, <3>1, <3>3, <4>3
          <5>2. QED  BY <2>1, <3>3, <5>1 DEF Coherent, PortsOfTheLive
        <4>4. QED  BY <4>1, <4>2, <4>3
      <3>4. QED  BY <3>3 DEF PortsOfTheLive, Clash
    <2>10. Installing(r)' /\ KeepsPort(r)'
      <3>1. \A t \in Step : t < s + 1 => t < s \/ t = s
        BY <1>2 DEF Step
      <3>2. \A t \in Step : t < s + 1 => t \in saved.recorded
        BY <1>3, <2>2, <3>1
      <3>3. saved.finished => ConfStep \in saved.recorded
        BY <1>3, <2>2
      <3>4. QED  BY <1>5, <1>8, <3>2, <3>3 DEF Installing, KeepsPort
    <2>11. PortIsMem(r)' /\ KnowsOthers(r)' /\ PortIsFree(r)'
      <3>1. LiveOthers(i) \subseteq Instance \ {i}
        BY DEF LiveOthers
      <3>2. PortIsMem(r)'
        BY <1>5, <2>6 DEF PortIsMem
      <3>3. KnowsOthers(r)'
        BY <1>1, <1>5, <1>8, <2>1 DEF UpToDate, KnowsOthers, Holds
      <3>4. PortIsFree(r)'
        BY <1>5, <1>8, <2>1, <3>1 DEF UpToDate, PortIsFree
      <3>5. QED  BY <3>2, <3>3, <3>4
    <2>12. QED  BY <1>5, <2>1, <2>5, <2>8, <2>9, <2>10, <2>11 DEF UpToDate, Before, Confirming, Removing
  <1>12. \A q \in Process \ {p} : ~Holds(q)
    BY <1>1, OthersDoNotHold
  <1>13. Returning(r) /\ ~SecondPass(r)
    BY <1>5 DEF MachineInv, Returning, SecondPass
  <1>14. QED  BY <1>4, <1>5, <1>6, <1>7, <1>9, <1>10, <1>11, <1>12, <1>13, OneActs

LEMMA InstallStepInv ==
    ASSUME MachineInv, NEW p \in Process, InstallStep(p)
    PROVE  MachineInv'
  <1>1. TypeOK /\ proc[p].pc = "install" /\ proc[p].at \in Step
    BY DEF MachineInv, InstallStep
  <1>2. PICK i \in Instance : i = proc[p].inst
    BY <1>1, ProcType
  <1>3. PICK s \in Step : s = proc[p].at
    BY <1>1
  <1>4. CASE s \in proc[p].mem.recorded
    <2>1. /\ Becomes(p, [proc[p] EXCEPT !.at = proc[p].at + 1])
          /\ UNCHANGED <<made, shared, conf, manifest, stale, misled, archive, overtaken, commands, faults>>
      BY <1>3, <1>4 DEF InstallStep
    <2>2. QED  BY <1>1, <1>3, <1>4, <2>1, SkipInv
  <1>5. CASE s \notin proc[p].mem.recorded
    <2> DEFINE next == [proc[p] EXCEPT !.at = s + 1]
    <2>1. PICK saved : saved = [next.mem EXCEPT !.recorded = @ \cup {s},
                                                !.ours = IF Here(i, s) THEN @ ELSE @ \cup {s}]
      OBVIOUS
    <2>2. /\ shared' = IF s \in SharedStep THEN shared \cup {s} ELSE shared
          /\ made' = IF s \in SharedStep THEN made ELSE [made EXCEPT ![i] = @ \cup {s}]
          /\ conf' = IF s = ConfStep THEN [conf EXCEPT ![i] = proc[p].port] ELSE conf
          /\ Writes(p, i, saved)
          /\ Becomes(p, [next EXCEPT !.mem = saved])
          /\ UNCHANGED <<archive, overtaken, commands, faults>>
      BY <1>2, <1>3, <1>5, <2>1 DEF InstallStep
    <2>3. proc[p] \in Proc
      BY <1>1, ProcType
    <2>4. /\ next.mem = proc[p].mem
          /\ [next EXCEPT !.mem = saved] = [proc[p] EXCEPT !.at = s + 1, !.mem = saved]
      BY <2>3 DEF Proc
    <2>5. saved = [proc[p].mem EXCEPT !.recorded = @ \cup {s},
                                      !.ours = IF Here(i, s) THEN @ ELSE @ \cup {s}]
      BY <2>1, <2>4
    <2>6. Becomes(p, [proc[p] EXCEPT !.at = s + 1, !.mem = saved])
      BY <2>2, <2>4
    <2> HIDE DEF next
    <2>7. QED  BY <1>1, <1>2, <1>3, <2>2, <2>5, <2>6, RunInv
  <1>6. QED  BY <1>4, <1>5

\* A holder writes its manifest for the last time and lets the lock go: nothing
\* on the machine is disowned by what it writes, and no record is new.
LEMMA LastWrite ==
    ASSUME MachineInv, NEW p \in Process, Holds(p), NEW i \in Instance, NEW m \in State,
           Writes(p, i, m), Returns(p), m.ours \subseteq m.recorded,
           UNCHANGED <<made, shared, conf, archive, overtaken, commands, faults>>,
           ~overtaken' =>
               /\ Coherent /\ p \notin stale
               /\ m.recorded \subseteq manifest[i].recorded
               /\ m.recorded # {} => m.port = manifest[i].port
               /\ m.finished => ConfStep \in m.recorded
               /\ made[i] \subseteq m.ours \cup archive[i]
               /\ shared \subseteq m.ours \cup archive[i] \cup Others(i)
    PROVE  MachineInv'
  <1>1. TypeOK
    BY DEF MachineInv
  <1>a. PICK pc \in {"idle", "pass1", "pass2"} : pc = proc[p].back
    BY <1>1, ProcType
  <1>2. PICK e \in Proc : e = [Idle EXCEPT !.pc = pc]
    BY <1>1, RestType
  <1>3. /\ manifest' = [manifest EXCEPT ![i] = m]
        /\ stale' = stale \cup {q \in Process \ {p} : proc[q].pc # "idle"}
        /\ misled' = misled \cup {q \in Process \ {p} : SecondPass(proc[q])}
    BY DEF Writes
  <1>4. TypeOK'
    <2>1. manifest' \in [Instance -> State] /\ stale' \subseteq Process /\ misled' \subseteq Process
      BY <1>1, WritesType
    <2>2. QED  BY <1>1, <1>2, <1>a, <2>1 DEF TypeOK, Becomes, Returns
  <1>5. /\ \A j \in Instance \ {i} : Accounted(j)' = Accounted(j) /\ manifest'[j] = manifest[j]
        /\ Accounted(i)' = m.ours \cup archive[i] /\ manifest'[i] = m
        /\ Others(i)' = Others(i)
    <2>1. archive' = archive /\ archive' \in [Instance -> SUBSET Step]
      BY <1>1 DEF TypeOK
    <2>2. QED  BY <1>1, <1>3, <2>1, SameAccounts
  <1>6. \A j \in Instance : manifest'[j].ours \subseteq manifest'[j].recorded
    BY <1>5 DEF MachineInv, OursAreRecorded
  <1>9. /\ e.mem.ours \subseteq e.mem.recorded /\ Becomes(p, e) /\ Returning(e)
        /\ e.pc = pc /\ (SecondPass(e) => pc = "pass2")
    BY <1>1, <1>2, <1>a, RestType DEF Returns
  <1>7. ASSUME ~overtaken'
        PROVE  (AllAccounted /\ ConfIsRecorded /\ PortsOfTheLive)' /\ p \notin stale /\ UpToDate(e)'
    <2>1. AllAccounted'
      <3>1. \A j \in Instance : made'[j] \subseteq Accounted(j)'
        BY <1>5, <1>7 DEF Coherent, AllAccounted
      <3>2. UNION {Accounted(j)' : j \in Instance} = Accounted(i)' \cup Others(i)'
        BY DEF Others
      <3>3. shared' \subseteq Accounted(i)' \cup Others(i)'
        BY <1>5, <1>7
      <3>4. QED  BY <3>1, <3>2, <3>3 DEF AllAccounted
    <2>2. ConfIsRecorded'
      BY <1>5, <1>7 DEF Coherent, ConfIsRecorded
    <2>3. PortsOfTheLive'
      BY <1>1, <1>3, <1>7, PortsStayApart DEF Coherent
    <2>4. UpToDate(e)'
      BY <1>9, RestIsUpToDate
    <2>5. QED  BY <1>7, <2>1, <2>2, <2>3, <2>4
  <1>8. \A q \in Process \ {p} : ~Holds(q)
    BY OthersDoNotHold
  <1>10. ASSUME ~overtaken', p \notin misled, SecondPass(e)  PROVE NobodyLives'
    <2>1. NobodyLives
      <3>1. SecondPass(proc[p])
        BY <1>9, <1>10, <1>a DEF SecondPass
      <3>2. QED  BY <1>10, <3>1, StillAlone DEF MachineInv
    <2>2. QED  BY <1>5, <1>10, <2>1 DEF NobodyLives, IsLive
  <1>11. QED  BY <1>3, <1>4, <1>6, <1>7, <1>8, <1>9, <1>10, OneActs

LEMMA FinishInv ==
    ASSUME MachineInv, NEW p \in Process, Finish(p)
    PROVE  MachineInv'
  <1>1. TypeOK /\ Holds(p) /\ proc[p].pc = "install" /\ proc[p].at = N + 1
    BY DEF MachineInv, Holds, Held, Finish
  <1>2. UNCHANGED <<made, shared, conf, archive, overtaken, commands, faults>> /\ Exits(p)
    BY DEF Finish
  <1>3. PICK i \in Instance : i = proc[p].inst
    BY <1>1, ProcType
  <1>4. PICK m \in State : m = [proc[p].mem EXCEPT !.finished = TRUE]
    BY <1>1, ProcType DEF State
  <1>5. /\ m.recorded = proc[p].mem.recorded /\ m.ours = proc[p].mem.ours
        /\ m.port = proc[p].mem.port
    BY <1>1, <1>4, ProcType DEF State
  <1>6. Writes(p, i, m)
    BY <1>3, <1>4 DEF Finish
  <1>8. ASSUME ~overtaken'
        PROVE  /\ Coherent /\ p \notin stale
               /\ m.recorded = manifest[i].recorded /\ m.ours = manifest[i].ours
               /\ m.recorded # {} => m.port = manifest[i].port
               /\ ConfStep \in m.recorded
               /\ made[i] \subseteq m.ours \cup archive[i]
               /\ shared \subseteq m.ours \cup archive[i] \cup Others(i)
    <2>1. Coherent /\ p \notin stale /\ UpToDate(proc[p])
      BY <1>1, <1>2, <1>8, HolderIsUpToDate
    <2>2. m.recorded = manifest[i].recorded /\ m.ours = manifest[i].ours
      BY <1>1, <1>3, <1>5, <2>1 DEF UpToDate, Installing
    <2>3. m.recorded # {} => m.port = manifest[i].port
      BY <1>1, <1>3, <1>5, <2>1, <2>2 DEF UpToDate, KeepsPort, Holds
    <2>4. ConfStep \in Step /\ ConfStep < N + 1
      BY StepsAssumption DEF Step
    <2>5. ConfStep \in m.recorded
      BY <1>1, <1>5, <2>1, <2>4 DEF UpToDate, Installing
    <2>6. QED  BY <2>1, <2>2, <2>3, <2>5 DEF Coherent, AllAccounted, Accounted, Others
  <1>9. m.ours \subseteq m.recorded
    BY <1>5 DEF MachineInv, OursAreRecorded
  <1>10. Returns(p)
    BY <1>1, <1>2 DEF MachineInv, Returning, Returns, Exits, Idle
  <1>11. QED  BY <1>1, <1>2, <1>6, <1>8, <1>9, <1>10, LastWrite

\* One undo, of a step that is recorded.
LEMMA UndoStepInv ==
    ASSUME MachineInv, NEW p \in Process, proc[p].pc \in {"undo", "disk"}, ~Undone(p),
           proc[p].at \in proc[p].mem.recorded, UndoStep(p),
           UNCHANGED <<conf, manifest, archive, stale, misled, overtaken, commands, faults>>
    PROVE  MachineInv'
  <1>1. TypeOK /\ Holds(p)
    BY DEF MachineInv, Holds, Held
  <1>2. PICK i \in Instance : i = proc[p].inst
    BY <1>1, ProcType
  <1>3. PICK s \in Step : s = proc[p].at
    BY <1>1, ProcType DEF State
  <1>4. PICK held \in BOOLEAN : held = (s \in SharedStep /\ proc[p].others # {})
    OBVIOUS
  <1>5. PICK gone \in SUBSET Step : gone = IF s \in proc[p].mem.ours /\ ~held THEN {s} ELSE {}
    OBVIOUS
  <1>6. PICK m \in State :
            m = [proc[p].mem EXCEPT !.recorded = IF held THEN @ ELSE @ \ {s},
                                    !.ours = IF held THEN @ ELSE @ \ {s}]
    BY <1>1, ProcType DEF State
  <1>7. /\ m.recorded = IF held THEN proc[p].mem.recorded ELSE proc[p].mem.recorded \ {s}
        /\ m.ours = IF held THEN proc[p].mem.ours ELSE proc[p].mem.ours \ {s}
        /\ m.port = proc[p].mem.port
    BY <1>1, <1>6, ProcType DEF State
  <1>8. s - 1 \in 0 .. N + 1
    BY StepsAssumption DEF Step
  <1>9. PICK r \in Proc : r = [proc[p] EXCEPT !.at = s - 1, !.mem = m]
    BY <1>1, <1>8, ProcType DEF Proc
  <1>10. /\ r.pc = proc[p].pc /\ r.inst = i /\ r.mem = m /\ r.others = proc[p].others
         /\ r.back = proc[p].back
    BY <1>1, <1>2, <1>9, ProcType DEF Proc
  <1>11. /\ shared' = IF s \in SharedStep THEN shared \ gone ELSE shared
         /\ made' = IF s \in SharedStep THEN made ELSE [made EXCEPT ![i] = @ \ gone]
    BY <1>2, <1>3, <1>4, <1>5 DEF UndoStep
  <1>12. Becomes(p, r)
    <2>1. Becomes(p, [proc[p] EXCEPT !.at = s - 1,
                        !.mem.recorded = IF held THEN @ ELSE @ \ {s},
                        !.mem.ours = IF held THEN @ ELSE @ \ {s}])
      BY <1>2, <1>3, <1>4 DEF UndoStep
    <2>2. proc[p] \in Proc /\ proc[p].mem \in State
      BY <1>1, ProcType
    <2>3. r = [proc[p] EXCEPT !.at = s - 1,
                   !.mem.recorded = IF held THEN @ ELSE @ \ {s},
                   !.mem.ours = IF held THEN @ ELSE @ \ {s}]
      BY <1>6, <1>9, <2>2 DEF Proc, State
    <2>4. QED  BY <2>1, <2>3
  <1>13. TypeOK'
    <2>1. /\ shared' \subseteq SharedStep /\ made' \in [Instance -> SUBSET (Step \ SharedStep)]
      BY <1>1, <1>11 DEF TypeOK
    <2>2. proc' \in [Process -> Proc]
      BY <1>1, <1>12 DEF TypeOK, Becomes
    <2>3. QED  BY <1>1, <2>1, <2>2 DEF TypeOK
  <1>14. m.ours \subseteq m.recorded
    BY <1>7 DEF MachineInv, OursAreRecorded
  <1>15. \A j \in Instance : manifest'[j].ours \subseteq manifest'[j].recorded
    BY DEF MachineInv, OursAreRecorded
  <1>16. ASSUME ~overtaken'
         PROVE  (AllAccounted /\ ConfIsRecorded /\ PortsOfTheLive)' /\ p \notin stale /\ UpToDate(r)'
    <2>1. Coherent /\ p \notin stale /\ UpToDate(proc[p])
      BY <1>1, <1>16, HolderIsUpToDate
    <2>2. shared' \subseteq shared /\ \A j \in Instance : made'[j] \subseteq made[j]
      BY <1>1, <1>11 DEF TypeOK
    <2>3. (AllAccounted /\ ConfIsRecorded /\ PortsOfTheLive)'
      BY <2>1, <2>2 DEF Coherent, AllAccounted, ConfIsRecorded, PortsOfTheLive, Accounted, IsLive
    <2>4. /\ made[i] \subseteq proc[p].mem.ours \cup archive[i]
          /\ shared \subseteq proc[p].mem.ours \cup archive[i] \cup Others(i)
      BY <1>2, <2>1 DEF UpToDate, Removing
    <2>5. made'[i] \subseteq m.ours \cup archive'[i]
      <3>1. CASE s \in SharedStep
        BY <1>1, <1>7, <1>11, <2>4, <3>1 DEF TypeOK
      <3>2. CASE s \notin SharedStep
        <4>1. made'[i] = made[i] \ gone
          BY <1>1, <1>11, <3>2 DEF TypeOK
        <4>2. QED  BY <1>4, <1>5, <1>7, <2>4, <3>2, <4>1
      <3>3. QED  BY <3>1, <3>2
    <2>6. shared' \subseteq m.ours \cup archive'[i] \cup Others(i)'
      <3>1. Others(i)' = Others(i) /\ shared \subseteq SharedStep
        BY <1>1 DEF Others, Accounted, TypeOK
      <3>2. QED  BY <1>5, <1>7, <1>11, <2>4, <3>1
    <2>7. Removing(r)'
      BY <1>10, <2>5, <2>6 DEF Removing
    <2>8. KeepsPort(r)' /\ KnowsOthers(r)'
      <3>1. r.back # "pass2" => r.others = LiveOthers(i)' /\ LiveOthers(i)' = LiveOthers(i)
        BY <1>1, <1>2, <1>10, <2>1 DEF UpToDate, KnowsOthers, Holds, LiveOthers, IsLive
      <3>2. m.recorded \subseteq manifest[i].recorded /\
            (manifest[i].recorded # {} => m.port = manifest[i].port)
        BY <1>1, <1>2, <1>7, <2>1 DEF UpToDate, KeepsPort, Holds
      <3>3. QED  BY <1>10, <3>1, <3>2 DEF KeepsPort, KnowsOthers
    <2>9. QED  BY <1>10, <2>1, <2>3, <2>7, <2>8 DEF UpToDate, Before, Confirming, PortIsMem,
                    PortIsFree, Installing
  <1>17. \A q \in Process \ {p} : ~Holds(q)
    BY <1>1, OthersDoNotHold
  <1>18. Returning(r) /\ (SecondPass(r) => SecondPass(proc[p]))
    BY <1>10 DEF MachineInv, Returning, SecondPass
  <1>19. ASSUME ~overtaken', p \notin misled, SecondPass(r)  PROVE NobodyLives'
    <2>1. NobodyLives
      BY <1>18, <1>19, StillAlone DEF MachineInv
    <2>2. QED  BY <2>1 DEF NobodyLives, IsLive
  <1>20. QED  BY <1>9, <1>10, <1>18, <1>19, <1>12, <1>13, <1>14, <1>15, <1>16, <1>17, OneActs

LEMMA UndoInv ==
    ASSUME MachineInv, NEW p \in Process, Undo(p)
    PROVE  MachineInv'
  <1>1. TypeOK /\ proc[p].pc \in {"undo", "disk"} /\ proc[p].at # 0 /\ Holds(p)
    BY DEF MachineInv, Undo, Undone, Holds, Held
  <1>2. UNCHANGED <<conf, manifest, archive, stale, misled, overtaken, commands, faults>>
    BY DEF Undo
  <1>3. CASE proc[p].at \in proc[p].mem.recorded
    BY <1>1, <1>2, <1>3, UndoStepInv DEF Undo
  <1>4. CASE proc[p].at \notin proc[p].mem.recorded
    <2> DEFINE r == [proc[p] EXCEPT !.at = @ - 1]
    <2>1. proc[p].at - 1 \in 0 .. N + 1
      BY <1>1, ProcType, StepsAssumption
    <2>2. /\ r.pc = proc[p].pc /\ r.inst = proc[p].inst /\ r.mem = proc[p].mem
          /\ r.others = proc[p].others /\ r.back = proc[p].back /\ r \in Proc
      BY <1>1, <2>1, ProcType DEF Proc
    <2>3. Becomes(p, r) /\ UNCHANGED <<made, shared>>
      BY <1>4 DEF Undo
    <2> HIDE DEF r
    <2>4. TypeOK'
      BY <1>1, <1>2, <2>2, <2>3 DEF TypeOK, Becomes
    <2>5. r.mem.ours \subseteq r.mem.recorded
      BY <2>2 DEF MachineInv, OursAreRecorded
    <2>a. Returning(r) /\ (SecondPass(r) => SecondPass(proc[p]))
      BY <2>2 DEF MachineInv, Returning, SecondPass
    <2>b. Coherent /\ p \notin misled' /\ SecondPass(r) => NobodyLives
      BY <1>2, <2>a, StillAlone
    <2>6. ASSUME Coherent, p \notin stale'  PROVE UpToDate(r)
      <3>1. UpToDate(proc[p])
        BY <1>2, <2>6 DEF Coherent
      <3>2. QED  BY <1>1, <2>2, <3>1 DEF UpToDate, Before, Confirming, PortIsMem, KnowsOthers,
                      PortIsFree, Installing, KeepsPort, Removing
    <2>7. QED  BY <1>1, <1>2, <2>2, <2>3, <2>4, <2>5, <2>6, <2>a, <2>b, OnlyTheProcess
  <1>5. QED  BY <1>3, <1>4

LEMMA WriteBackInv ==
    ASSUME MachineInv, NEW p \in Process, WriteBack(p)
    PROVE  MachineInv'
  <1>1. TypeOK /\ Holds(p) /\ proc[p].pc \in {"undo", "disk"}
    BY DEF MachineInv, Holds, Held, WriteBack
  <1>2. UNCHANGED <<made, shared, conf, archive, overtaken, commands, faults>> /\ Returns(p)
    BY DEF WriteBack
  <1>3. PICK i \in Instance : i = proc[p].inst
    BY <1>1, ProcType
  <1>4. PICK m \in State : m = IF proc[p].mem.recorded = {} THEN Empty(proc[p].mem.port)
                               ELSE [proc[p].mem EXCEPT !.finished = FALSE]
    <2>1. proc[p].mem \in State /\ proc[p].mem.port \in Port
      BY <1>1, ProcType DEF State
    <2>2. Empty(proc[p].mem.port) \in State
      BY <2>1, EmptyType
    <2>3. [proc[p].mem EXCEPT !.finished = FALSE] \in State
      BY <2>1 DEF State
    <2>4. QED  BY <2>2, <2>3
  <1>5. /\ m.recorded = proc[p].mem.recorded /\ m.ours = proc[p].mem.ours
        /\ m.port = proc[p].mem.port /\ m.finished = FALSE
    BY <1>1, <1>4, ProcType DEF State, Empty, MachineInv, OursAreRecorded
  <1>6. Writes(p, i, m)
    BY <1>3, <1>4 DEF WriteBack
  <1>7. m.ours \subseteq m.recorded
    BY <1>5 DEF MachineInv, OursAreRecorded
  <1>8. ASSUME ~overtaken'
        PROVE  /\ Coherent /\ p \notin stale
               /\ m.recorded \subseteq manifest[i].recorded
               /\ m.recorded # {} => m.port = manifest[i].port
               /\ made[i] \subseteq m.ours \cup archive[i]
               /\ shared \subseteq m.ours \cup archive[i] \cup Others(i)
    <2>1. Coherent /\ p \notin stale /\ UpToDate(proc[p])
      BY <1>1, <1>2, <1>8, HolderIsUpToDate
    <2>2. QED  BY <1>1, <1>3, <1>5, <2>1 DEF UpToDate, KeepsPort, Removing, Holds
  <1>9. QED  BY <1>1, <1>2, <1>5, <1>6, <1>7, <1>8, LastWrite

-----------------------------------------------------------------------------
(* The invariant holds of every behaviour.                                 *)

\* A command needs an instance and a port, so Init is typed when there are some.
LEMMA MachineInvInit ==
    ASSUME Init, Instance # {}, Port # {}  PROVE MachineInv
  <1>1. PICK i \in Instance : TRUE
    OBVIOUS
  <1>2. PICK q \in Port : TRUE
    OBVIOUS
  <1>3. Idle \in Proc /\ NoPort \in Port /\ Empty(NoPort) \in State
    BY <1>1, <1>2, IdleType, EmptyType
  <1>4. TypeOK
    <2>1. 0 \in 0 .. MaxCommands /\ 0 \in 0 .. MaxFaults
      BY BoundsAssumption
    <2>2. /\ made \in [Instance -> SUBSET (Step \ SharedStep)] /\ shared \subseteq SharedStep
          /\ conf \in [Instance -> Port] /\ archive \in [Instance -> SUBSET Step]
      BY <1>3 DEF Init
    <2>3. manifest \in [Instance -> State] /\ proc \in [Process -> Proc]
      BY <1>3 DEF Init
    <2>4. stale \subseteq Process /\ misled \subseteq Process /\ overtaken \in BOOLEAN
      BY DEF Init
    <2>5. commands \in 0 .. MaxCommands /\ faults \in 0 .. MaxFaults
      BY <2>1 DEF Init
    <2>6. QED  BY <2>2, <2>3, <2>4, <2>5 DEF TypeOK
  <1>5. Idle.pc = "idle" /\ Idle.back = "idle" /\ Idle.mem = Empty(NoPort)
    BY DEF Idle
  <1>6. OneHolder /\ OursAreRecorded /\ \A p \in Process : Returning(proc[p])
    BY <1>5 DEF Init, OneHolder, OursAreRecorded, Returning, Holds, Held, Empty
  <1>7. Coherent
    <2>1. AllAccounted /\ ConfIsRecorded /\ PortsOfTheLive
      BY DEF Init, AllAccounted, ConfIsRecorded, PortsOfTheLive, IsLive, Empty
    <2>2. \A p \in Process : UpToDate(proc[p]) /\ ~Holds(p)
      BY <1>5, RestIsUpToDate DEF Init, Holds, Held
    <2>3. SecondPassIsAlone
      BY <1>5 DEF Init, SecondPassIsAlone, SecondPass
    <2>4. QED  BY <2>1, <2>2, <2>3 DEF Coherent
  <1>8. QED  BY <1>4, <1>6, <1>7 DEF MachineInv

LEMMA MachineInvNext == ASSUME MachineInv, [Next]_vars  PROVE MachineInv'
  <1>1. CASE UNCHANGED vars
    BY <1>1 DEF vars, MachineInv, TypeOK, OneHolder, OursAreRecorded, Holds, Coherent, AllAccounted,
       Accounted, ConfIsRecorded, PortsOfTheLive, UpToDate, Before, Confirming, PortIsMem, KnowsOthers,
       PortIsFree, Installing, KeepsPort, Removing, LiveOthers, IsLive, Others, Returning,
       SecondPassIsAlone, SecondPass, NobodyLives
  <1>2. ASSUME NEW p \in Process, NEW i \in Instance, NEW port \in Port, NEW force \in ForceGiven,
               DecideStart(p, i, port, force)
        PROVE  MachineInv'
    BY <1>2, BoundsAssumption, DecideStartInv
  <1>3. ASSUME NEW p \in Process, NEW i \in Instance, BeginRollback(p, i)  PROVE MachineInv'
    BY <1>3, BeginRollbackInv
  <1>4. ASSUME NEW p \in Process,
               \/ Discover(p) \/ TurnedAway(p) \/ BeginInstall(p)
               \/ InstallStep(p) \/ Finish(p) \/ Fail(p)
               \/ BeginAll(p) \/ Pass1(p) \/ Pass1Done(p) \/ Pass2(p) \/ AllDone(p)
               \/ Load(p) \/ BeginUndo(p) \/ Undo(p) \/ WriteBack(p) \/ Die(p)
        PROVE  MachineInv'
    BY <1>4, DiscoverInv, TurnedAwayInv, BeginInstallInv, InstallStepInv, FinishInv, FailInv, LoadInv,
       BeginUndoInv, UndoInv, WriteBackInv, DieInv, BeginAllInv, Pass1Inv, Pass1DoneInv,
       Pass2Inv, AllDoneInv
  <1>5. QED  BY <1>1, <1>2, <1>3, <1>4 DEF Next

LEMMA MachineInvAlways == ASSUME Instance # {}, Port # {}  PROVE Spec => []MachineInv
  BY MachineInvInit, MachineInvNext, PTL DEF Spec

\* Type correctness of the commands, their manifests and what they hold in
\* memory (main.rs, state.rs).
THEOREM MachineTypeOK == ASSUME Instance # {}, Port # {}  PROVE Spec => []TypeOK
  <1>1. MachineInv => TypeOK
    BY DEF MachineInv
  <1>2. QED  BY <1>1, MachineInvAlways, PTL

\* However many installations and rollbacks are started, interrupted, resumed
\* or begun again with --force, whatever is on the machine is called ours by a
\* manifest or by one set aside, as long as no process took the lock with a
\* reading that another one had overtaken (decide_start, main.rs).
THEOREM MachineOwned ==
    ASSUME Instance # {}, Port # {}  PROVE Spec => []OwnedUnlessOvertaken
  <1>1. MachineInv => OwnedUnlessOvertaken
    BY DEF MachineInv, OwnedUnlessOvertaken, NoWorkDisowned, Coherent, AllAccounted
  <1>2. QED  BY <1>1, MachineInvAlways, PTL

\* Two finished installations have no port in common in their odoo.conf, gevent
\* ports included, when a resumed installation repeats its ports
\* (port_conflict, main.rs).
THEOREM MachinePortsDiffer ==
    ASSUME Instance # {}, Port # {}, RepeatPort  PROVE Spec => []PortsDifferUnlessOvertaken
  <1>1. ASSUME MachineInv  PROVE PortsDifferUnlessOvertaken
    <2>1. SUFFICES ASSUME ~overtaken, NEW i \in Instance, NEW j \in Instance,
                          manifest[i].finished, manifest[j].finished, i # j
                   PROVE  ~Clash(conf[i], conf[j])
      BY DEF PortsDifferUnlessOvertaken, PortsDiffer
    <2>2. Coherent
      BY <1>1, <2>1 DEF MachineInv
    <2>3. ConfStep \in manifest[i].recorded /\ ConfStep \in manifest[j].recorded
      BY <2>1, <2>2 DEF Coherent, ConfIsRecorded
    <2>4. manifest[i].port = conf[i] /\ manifest[j].port = conf[j]
      BY <2>1, <2>2, <2>3 DEF Coherent, ConfIsRecorded
    <2>5. IsLive(i) /\ IsLive(j)
      BY <2>3, StepsAssumption DEF IsLive
    <2>6. QED  BY <2>1, <2>2, <2>4, <2>5 DEF Coherent, PortsOfTheLive
  <1>2. QED  BY <1>1, MachineInvAlways, PTL

\* No rollback of an instance, and no `rollback --all` in whose second pass no
\* other process wrote a manifest, removes a shared artifact while another
\* instance has its own on the machine (rollback_manifest, run_rollback).
THEOREM MachineSharedSurvives ==
    ASSUME Instance # {}, Port # {}  PROVE Spec => SharedSurvivesTheLive
  <1>1. ASSUME MachineInv, [Next]_vars, NEW p \in Process \ misled, NEW s \in SharedStep,
               TakenFromTheLive(p, s)
        PROVE  FALSE
    <2>1. /\ ~overtaken /\ s \in shared \ shared' /\ proc[p].pc \in {"undo", "disk"}
          /\ TypeOK
      BY <1>1 DEF TakenFromTheLive, MachineInv
    <2>2. PICK j \in Instance \ {proc[p].inst} : manifest[j].ours \cap made[j] # {}
      BY <1>1 DEF TakenFromTheLive
    <2>3. PICK q \in Process : Undo(q) /\ UndoStep(q)
      <3>1. shared' # shared
        BY <2>1
      <3>2. PICK q \in Process : InstallStep(q) \/ Undo(q)
        <4>1. Next
          BY <1>1, <3>1 DEF vars
        <4>2. ASSUME NEW q \in Process,
                     \/ \E i \in Instance, port \in Port, force \in ForceGiven :
                            DecideStart(q, i, port, force)
                     \/ \E i \in Instance : BeginRollback(q, i)
                     \/ Discover(q) \/ TurnedAway(q) \/ BeginInstall(q) \/ Finish(q) \/ Fail(q)
              PROVE  shared' = shared
          BY <4>2 DEF DecideStart, BeginRollback, Discover, TurnedAway, BeginInstall, Finish, Fail
        <4>3. ASSUME NEW q \in Process,
                     \/ BeginAll(q) \/ Pass1(q) \/ Pass1Done(q) \/ Pass2(q) \/ AllDone(q)
                     \/ Load(q) \/ BeginUndo(q) \/ WriteBack(q) \/ Die(q)
              PROVE  shared' = shared
          BY <4>3 DEF BeginAll, Pass1, Pass1Done, Pass2, AllDone, Load, BeginUndo, WriteBack, Die
        <4>4. QED  BY <3>1, <4>1, <4>2, <4>3 DEF Next
      <3>3. ~InstallStep(q)
        BY <2>1 DEF InstallStep
      <3>4. QED  BY <3>1, <3>2, <3>3 DEF Undo
    <2>4. proc[q].pc \in {"undo", "disk"} /\ Holds(q) /\ Holds(p)
      BY <2>1, <2>3 DEF Undo, Holds, Held
    <2>5. p = q
      BY <1>1, <2>4 DEF MachineInv, OneHolder
    <2>6. proc[p].others = {}
      BY <2>1, <2>3, <2>5 DEF UndoStep
    <2>7. Coherent /\ UpToDate(proc[p])
      BY <1>1, <2>1, <2>4, HolderIsUpToDate
    <2>8. ~IsLive(j)
      <3>1. CASE proc[p].back = "pass2"
        BY <1>1, <2>2, <2>7, <3>1, StillAlone DEF SecondPass, NobodyLives
      <3>2. CASE proc[p].back # "pass2"
        <4>1. LiveOthers(proc[p].inst) = {}
          BY <2>1, <2>6, <2>7, <3>2 DEF UpToDate, KnowsOthers, Held
        <4>2. QED  BY <2>2, <4>1 DEF LiveOthers
      <3>3. QED  BY <3>1, <3>2
    <2>9. manifest[j].recorded \subseteq SharedStep
      BY <2>8 DEF IsLive
    <2>10. /\ manifest[j].ours \subseteq manifest[j].recorded
           /\ made[j] \subseteq Step \ SharedStep
      BY <1>1, <2>1, <2>2 DEF MachineInv, OursAreRecorded, TypeOK
    <2>11. QED  BY <2>2, <2>9, <2>10
  <1>2. ASSUME MachineInv, [Next]_vars
        PROVE  [\A p \in Process \ misled, s \in SharedStep : ~TakenFromTheLive(p, s)]_vars
    BY <1>1, <1>2
  <1>3. QED  BY <1>2, MachineInvAlways, PTL DEF Spec, SharedSurvivesTheLive

=============================================================================
