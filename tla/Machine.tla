------------------------------ MODULE Machine ------------------------------
(***************************************************************************)
(* Several `invok install` and `invok rollback` commands on one machine    *)
(* (run_install, run_rollback and rollback_manifest, main.rs): what each   *)
(* reads before it asks for confirmation, the lock it takes after, and     *)
(* what it does under the lock with what it read before.  `rollback --all` *)
(* takes the lock once for each manifest and reads again in between, but   *)
(* not, in its second pass, who lives.                                     *)
(*                                                                         *)
(* A step of an installation, with its save, is one action here: Engine has*)
(* the failures inside it.  A process reads manifests at any time, between *)
(* two saves of another one too.                                           *)
(***************************************************************************)
EXTENDS Naturals

CONSTANTS
    Process,
    Instance,
    Port,         \* the pairs of ports (--port, --gevent-port) asked for
    Listens,      \* Listens[q]: the ports of the pair q
    N,            \* length of the canonical sequence
    SharedStep,   \* the steps whose artifact every instance depends on
    ConfStep,     \* the step that writes the instance's port in odoo.conf
    ForceGiven,   \* may --force be given: subset of BOOLEAN
    RepeatPort,   \* is a resumed installation asked for with the same port
    MaxCommands,  \* bound on the commands started
    MaxFaults     \* bound on deaths and interrupted or failed steps together

VARIABLES
    made,      \* made[i]: the steps whose artifact instance i has on the machine
    shared,    \* the shared steps whose artifact is on the machine
    conf,      \* conf[i]: the port in the odoo.conf of instance i
    manifest,  \* manifest[i]: the file of instance i
    archive,   \* archive[i]: what the manifests --force set aside call ours
    proc,      \* proc[p]: a process and what it holds in memory
    stale,     \* the processes whose reading another one's write has overtaken
    misled,    \* history: the processes in the second pass of --all since
               \* whose first another one wrote a manifest
    overtaken, \* has a process in `stale` ever taken the lock
    commands,  \* how many commands were started
    faults     \* how many faults have happened

vars == <<made, shared, conf, manifest, archive, proc, stale, misled, overtaken, commands, faults>>

Step == 1 .. N

ASSUME StepsAssumption ==
    /\ N \in Nat \ {0}
    /\ SharedStep \subseteq Step
    /\ ConfStep \in Step \ SharedStep
ASSUME BoundsAssumption ==
    /\ ForceGiven \subseteq BOOLEAN /\ ForceGiven # {}
    /\ RepeatPort \in BOOLEAN
    /\ MaxCommands \in Nat /\ MaxFaults \in Nat

\* A manifest: the steps recorded, those among them whose snapshot says
\* CreatedByUs, the port of the configuration and the finished flag.
State == [recorded : SUBSET Step, ours : SUBSET Step, port : Port, finished : BOOLEAN]

Empty(port) == [recorded |-> {}, ours |-> {}, port |-> port, finished |-> FALSE]

Start == {"Fresh", "Resume", "Replace"}

\* "discover", "ask": an installation before the lock; "install", "undo": under
\* it.  "load", "confirm": rollback_manifest before the lock; "disk": under it;
\* "pass1", "pass2": between two manifests of --all.  It returns to `back`.
Proc == [pc : {"idle", "discover", "ask", "install", "undo", "load", "confirm", "disk",
               "pass1", "pass2"},
         back : {"idle", "pass1", "pass2"}, inst : Instance, port : Port, start : Start, mem : State,
         others : SUBSET Instance, at : 0 .. N + 1]

NoPort == CHOOSE q \in Port : TRUE

Idle == [pc |-> "idle", back |-> "idle", inst |-> CHOOSE i \in Instance : TRUE, port |-> NoPort,
         start |-> "Fresh", mem |-> Empty(NoPort), others |-> {}, at |-> 0]

-----------------------------------------------------------------------------
\* Found::is_live, Discovery::live_others and port_conflict.
IsLive(i) == manifest[i].recorded \ SharedStep # {}

LiveOthers(i) == {j \in Instance \ {i} : IsLive(j)}

\* Discovery::tombstones.
IsTombstone(i) == manifest[i].recorded # {} /\ ~IsLive(i)

\* Each of the two ports of one may be either port of the other.
Clash(a, b) == Listens[a] \cap Listens[b] # {}

\* Mutant: a resumed installation is not asked about its port again.
PortConflictOfFresh(i, port, start) ==
    start # "Resume" /\ \E j \in LiveOthers(i) : Clash(port, manifest[j].port)

PortConflict(i, port, start) == \E j \in LiveOthers(i) : Clash(port, manifest[j].port)

\* Mutant: an interrupted installation is started afresh.
StartDecisionAmnesic(m, force) ==
    IF m.recorded = {} THEN "Fresh"
    ELSE IF force THEN "Replace"
    ELSE IF m.finished THEN "Refuse"
    ELSE "Fresh"

\* start_decision; the port is no part of an installation's identity.
StartDecision(m, force) ==
    IF m.recorded = {} THEN "Fresh"
    ELSE IF force THEN "Replace"
    ELSE IF m.finished THEN "Refuse"
    ELSE "Resume"

Locked == \E p \in Process : proc[p].pc \in {"install", "undo", "disk"}

-----------------------------------------------------------------------------
Init ==
    /\ made = [i \in Instance |-> {}]
    /\ shared = {}
    /\ conf = [i \in Instance |-> NoPort]
    /\ manifest = [i \in Instance |-> Empty(NoPort)]
    /\ archive = [i \in Instance |-> {}]
    /\ proc = [p \in Process |-> Idle]
    /\ stale = {}
    /\ misled = {}
    /\ overtaken = FALSE
    /\ commands = 0
    /\ faults = 0

Becomes(p, r) == proc' = [proc EXCEPT ![p] = r]

\* A process that ends holds nothing any more, nor does --all between two
\* manifests.
Exits(p) == Becomes(p, Idle)

Returns(p) == Becomes(p, [Idle EXCEPT !.pc = proc[p].back])

SecondPass(r) == "pass2" \in {r.pc, r.back}

\* Writing (or removing) the manifest of i overtakes whoever is reading.
Writes(p, i, m) ==
    /\ manifest' = [manifest EXCEPT ![i] = m]
    /\ stale' = stale \cup {q \in Process \ {p} : proc[q].pc # "idle"}
    /\ misled' = misled \cup {q \in Process \ {p} : SecondPass(proc[q])}

\* decide_start: the manifest is read and the decision taken.
DecideStart(p, i, port, force) ==
    /\ proc[p].pc = "idle"
    /\ commands < MaxCommands
    /\ commands' = commands + 1
    /\ StartDecision(manifest[i], force) # "Refuse"
    /\ LET start == StartDecision(manifest[i], force)
       IN  /\ RepeatPort /\ start = "Resume" => port = manifest[i].port
           /\ Becomes(p, [Idle EXCEPT !.pc = "discover", !.inst = i, !.port = port,
                          !.start = start,
                          !.mem = IF start = "Resume" THEN manifest[i] ELSE Empty(port)])
    /\ stale' = stale \ {p}
    /\ UNCHANGED <<made, shared, conf, manifest, archive, misled, overtaken, faults>>

\* discover, port_conflict, live_others: every manifest is read once more.
Discover(p) ==
    /\ proc[p].pc = "discover"
    /\ IF PortConflict(proc[p].inst, proc[p].port, proc[p].start)
       THEN Exits(p)
       ELSE Becomes(p, [proc[p] EXCEPT !.pc = "ask", !.others = LiveOthers(proc[p].inst)])
    /\ UNCHANGED <<made, shared, conf, manifest, archive, stale, misled, overtaken, commands, faults>>

\* The environment is not fit, the administrator says no, or somebody holds the
\* lock.
TurnedAway(p) ==
    /\ proc[p].pc \in {"ask", "confirm"}
    /\ Exits(p)
    /\ UNCHANGED <<made, shared, conf, manifest, archive, stale, misled, overtaken, commands, faults>>

\* The lock is one file for the whole machine, and taking it reads nothing.
TakesLock(p) ==
    /\ ~Locked
    /\ overtaken' = (overtaken \/ p \in stale)

\* The administrator confirms and the lock is free; --force sets the manifest
\* aside, which is an error when it is gone meanwhile.
BeginInstall(p) ==
    /\ proc[p].pc = "ask"
    /\ TakesLock(p)
    /\ LET i == proc[p].inst
           begun == [proc[p] EXCEPT !.pc = "install", !.at = 1]
       IN  \/ /\ proc[p].start # "Replace"
              /\ Becomes(p, begun)
              /\ UNCHANGED <<manifest, archive, stale, misled>>
           \/ /\ proc[p].start = "Replace"
              /\ manifest[i].recorded # {}
              /\ archive' = [archive EXCEPT ![i] = @ \cup manifest[i].ours]
              /\ Writes(p, i, Empty(proc[p].port))
              /\ Becomes(p, begun)
           \/ /\ proc[p].start = "Replace"
              /\ manifest[i].recorded = {}
              /\ Exits(p)
              /\ UNCHANGED <<manifest, archive, stale, misled>>
    /\ UNCHANGED <<made, shared, conf, commands, faults>>

Here(i, s) == IF s \in SharedStep THEN s \in shared ELSE s \in made[i]

\* execute, one step: skipped when recorded, otherwise run, recorded and saved.
\* What the snapshot finds is not ours; odoo.conf is written all the same.  The
\* configuration of a resumed manifest is not touched.
InstallStep(p) ==
    /\ proc[p].pc = "install" /\ proc[p].at \in Step
    /\ LET i == proc[p].inst
           s == proc[p].at
           next == [proc[p] EXCEPT !.at = s + 1]
           saved == [next.mem EXCEPT !.recorded = @ \cup {s},
                                     !.ours = IF Here(i, s) THEN @ ELSE @ \cup {s}]
       IN  \/ /\ s \in proc[p].mem.recorded
              /\ Becomes(p, next)
              /\ UNCHANGED <<made, shared, conf, manifest, stale, misled>>
           \/ /\ s \notin proc[p].mem.recorded
              /\ shared' = IF s \in SharedStep THEN shared \cup {s} ELSE shared
              /\ made' = IF s \in SharedStep THEN made ELSE [made EXCEPT ![i] = @ \cup {s}]
              /\ conf' = IF s = ConfStep THEN [conf EXCEPT ![i] = proc[p].port] ELSE conf
              /\ Writes(p, i, saved)
              /\ Becomes(p, [next EXCEPT !.mem = saved])
    /\ UNCHANGED <<archive, overtaken, commands, faults>>

Finish(p) ==
    /\ proc[p].pc = "install" /\ proc[p].at = N + 1
    /\ Writes(p, proc[p].inst, [proc[p].mem EXCEPT !.finished = TRUE])
    /\ Exits(p)
    /\ UNCHANGED <<made, shared, conf, archive, overtaken, commands, faults>>

\* A step fails or the installation is interrupted: the steps before it are
\* undone.
Fail(p) ==
    /\ proc[p].pc = "install" /\ proc[p].at \in Step
    /\ faults < MaxFaults
    /\ faults' = faults + 1
    /\ IF proc[p].at = 1 THEN Exits(p)
       ELSE Becomes(p, [proc[p] EXCEPT !.pc = "undo", !.at = @ - 1])
    /\ UNCHANGED <<made, shared, conf, manifest, archive, stale, misled, overtaken, commands>>

-----------------------------------------------------------------------------
\* One undo, in process or from disk: a shared step is left alone while others
\* live and its record stays; any other removes what its verdict calls ours.
UndoStep(p) ==
    LET i == proc[p].inst
        s == proc[p].at
        held == s \in SharedStep /\ proc[p].others # {}
        gone == IF s \in proc[p].mem.ours /\ ~held THEN {s} ELSE {}
    IN  /\ shared' = IF s \in SharedStep THEN shared \ gone ELSE shared
        /\ made' = IF s \in SharedStep THEN made ELSE [made EXCEPT ![i] = @ \ gone]
        /\ Becomes(p, [proc[p] EXCEPT !.at = s - 1,
              !.mem.recorded = IF held THEN @ ELSE @ \ {s},
              !.mem.ours = IF held THEN @ ELSE @ \ {s}])

\* Mutant: the loop does not stop at the first step.
UndoneTooFar(p) == FALSE

\* The loop is over when no step is left.
Undone(p) == proc[p].at = 0

Undo(p) ==
    /\ proc[p].pc \in {"undo", "disk"}
    /\ ~Undone(p)
    /\ IF proc[p].at \in proc[p].mem.recorded
       THEN UndoStep(p)
       ELSE Becomes(p, [proc[p] EXCEPT !.at = @ - 1]) /\ UNCHANGED <<made, shared>>
    /\ UNCHANGED <<conf, manifest, archive, stale, misled, overtaken, commands, faults>>

\* What is left recorded is written back, as no finished installation.
WriteBack(p) ==
    /\ proc[p].pc \in {"undo", "disk"}
    /\ Undone(p)
    /\ Writes(p, proc[p].inst,
              IF proc[p].mem.recorded = {} THEN Empty(proc[p].mem.port)
              ELSE [proc[p].mem EXCEPT !.finished = FALSE])
    /\ Returns(p)
    /\ UNCHANGED <<made, shared, conf, archive, overtaken, commands, faults>>

\* rollback_manifest is called on i and told who else is installed.
RollsBack(p, i, others, from) ==
    Becomes(p, [Idle EXCEPT !.pc = "load", !.back = from, !.inst = i, !.others = others])

\* `rollback --instance i`: run_rollback discovers, rollback_manifest loads, asks
\* and locks.
BeginRollback(p, i) ==
    /\ proc[p].pc = "idle"
    /\ commands < MaxCommands
    /\ commands' = commands + 1
    /\ manifest[i].recorded # {}
    /\ RollsBack(p, i, LiveOthers(i), "idle")
    /\ stale' = stale \ {p}
    /\ UNCHANGED <<made, shared, conf, manifest, archive, misled, overtaken, faults>>

\* `rollback --all`, when there is a manifest and the administrator says yes.
BeginAll(p) ==
    /\ proc[p].pc = "idle"
    /\ commands < MaxCommands
    /\ commands' = commands + 1
    /\ \E i \in Instance : manifest[i].recorded # {}
    /\ Becomes(p, [Idle EXCEPT !.pc = "pass1"])
    /\ UNCHANGED <<made, shared, conf, manifest, archive, stale, misled, overtaken, faults>>

\* Pass 1 discovers, and rolls back an instance that is live.
Pass1(p) ==
    /\ proc[p].pc = "pass1"
    /\ \E i \in Instance : IsLive(i) /\ RollsBack(p, i, LiveOthers(i), "pass1")
    /\ stale' = stale \ {p}
    /\ UNCHANGED <<made, shared, conf, manifest, archive, misled, overtaken, commands, faults>>

\* Mutant: the first pass goes through the list once and looks no more.
Pass1DoneOnce(p) ==
    /\ proc[p].pc = "pass1"
    /\ Becomes(p, [Idle EXCEPT !.pc = "pass2"])
    /\ misled' = misled \ {p}
    /\ UNCHANGED <<made, shared, conf, manifest, archive, stale, overtaken, commands, faults>>

Pass1Done(p) ==
    /\ proc[p].pc = "pass1"
    /\ \A i \in Instance : ~IsLive(i)
    /\ Becomes(p, [Idle EXCEPT !.pc = "pass2"])
    /\ misled' = misled \ {p}
    /\ UNCHANGED <<made, shared, conf, manifest, archive, stale, overtaken, commands, faults>>

\* Pass 2 discovers, looks at the tombstones alone, and is told of nobody else.
Pass2(p) ==
    /\ proc[p].pc = "pass2"
    /\ \E i \in Instance : IsTombstone(i) /\ RollsBack(p, i, {}, "pass2")
    /\ stale' = stale \ {p}
    /\ UNCHANGED <<made, shared, conf, manifest, archive, misled, overtaken, commands, faults>>

AllDone(p) ==
    /\ proc[p].pc = "pass2"
    /\ \A i \in Instance : ~IsTombstone(i)
    /\ Exits(p)
    /\ UNCHANGED <<made, shared, conf, manifest, archive, stale, misled, overtaken, commands, faults>>

Load(p) ==
    /\ proc[p].pc = "load"
    /\ IF manifest[proc[p].inst].recorded = {}
       THEN Returns(p)
       ELSE Becomes(p, [proc[p] EXCEPT !.pc = "confirm", !.mem = manifest[proc[p].inst]])
    /\ UNCHANGED <<made, shared, conf, manifest, archive, stale, misled, overtaken, commands, faults>>

BeginUndo(p) ==
    /\ proc[p].pc = "confirm"
    /\ TakesLock(p)
    /\ Becomes(p, [proc[p] EXCEPT !.pc = "disk", !.at = N])
    /\ UNCHANGED <<made, shared, conf, manifest, archive, stale, misled, commands, faults>>

\* A death releases the lock; what was saved stays.
Die(p) ==
    /\ proc[p].pc \in {"install", "undo", "disk"}
    /\ faults < MaxFaults
    /\ faults' = faults + 1
    /\ Exits(p)
    /\ UNCHANGED <<made, shared, conf, manifest, archive, stale, misled, overtaken, commands>>

Next ==
    \E p \in Process :
        \/ \E i \in Instance, port \in Port, force \in ForceGiven : DecideStart(p, i, port, force)
        \/ \E i \in Instance : BeginRollback(p, i)
        \/ Discover(p) \/ TurnedAway(p) \/ BeginInstall(p)
        \/ InstallStep(p) \/ Finish(p) \/ Fail(p)
        \/ BeginAll(p) \/ Pass1(p) \/ Pass1Done(p) \/ Pass2(p) \/ AllDone(p)
        \/ Load(p) \/ BeginUndo(p) \/ Undo(p) \/ WriteBack(p) \/ Die(p)

Spec == Init /\ [][Next]_vars

-----------------------------------------------------------------------------
TypeOK ==
    /\ made \in [Instance -> SUBSET (Step \ SharedStep)]
    /\ shared \subseteq SharedStep
    /\ conf \in [Instance -> Port]
    /\ manifest \in [Instance -> State]
    /\ archive \in [Instance -> SUBSET Step]
    /\ proc \in [Process -> Proc]
    /\ stale \subseteq Process /\ misled \subseteq Process
    /\ overtaken \in BOOLEAN
    /\ commands \in 0 .. MaxCommands
    /\ faults \in 0 .. MaxFaults

Accounted(i) == manifest[i].ours \cup archive[i]

\* Whatever installations have left on the machine, some manifest, or one that
\* --force set aside, calls it ours: it can be removed (decide_start, A-V3-1).
NoWorkDisowned ==
    ~Locked =>
        /\ \A i \in Instance : made[i] \subseteq Accounted(i)
        /\ shared \subseteq UNION {Accounted(i) : i \in Instance}

\* That holds whatever the commands, their order and their deaths, as long as
\* no process took the lock after another had overtaken what it read.
OwnedUnlessOvertaken == ~overtaken => NoWorkDisowned

\* What s was removed by p while another instance had its own on the machine.
TakenFromTheLive(p, s) ==
    /\ ~overtaken /\ s \in shared \ shared' /\ proc[p].pc \in {"undo", "disk"}
    /\ \E j \in Instance \ {proc[p].inst} : manifest[j].ours \cap made[j] # {}

\* Under the same condition, no shared artifact is removed while another
\* instance is installed, by the rollback of an instance or by --all, as long as
\* no other process wrote a manifest since the second pass of --all began: it
\* relies on what the first has read last, "by then there is nobody left to
\* protect", and a live instance that came since loses what it shares (A-V6-10).
SharedSurvivesTheLive ==
    [][\A p \in Process \ misled, s \in SharedStep : ~TakenFromTheLive(p, s)]_vars

\* Two finished installations never have a port in common in their odoo.conf,
\* gevent ports included (port_conflict: "asked of the manifests before the
\* system is asked at all").
PortsDiffer ==
    \A i, j \in Instance :
        i # j /\ manifest[i].finished /\ manifest[j].finished => ~Clash(conf[i], conf[j])

\* That holds when a resumed installation repeats its port and no process took
\* the lock after it was overtaken.
PortsDifferUnlessOvertaken == ~overtaken => PortsDiffer

=============================================================================
