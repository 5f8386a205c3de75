----------------------------- MODULE NginxProofs -----------------------------
(***************************************************************************)
(* Theorems about Nginx, for every set of instances, every machine they may*)
(* find and every bound: the variables keep their types, what the customer *)
(* had written for nginx is never lost, a rollback takes nothing from those*)
(* that stay, and when the last has gone nginx is as it was found.         *)
(***************************************************************************)
EXTENDS Nginx, TLAPS, FiniteSetTheorems

Manifests == [steps : SUBSET Steps, snap : Snapshots, finished : BOOLEAN, args : {"none"}]

ProcessOK == ProcessType(Snapshots, {"none"})

USE DEF Base, InstallStep, WriteStep, EnableStep, SelinuxStep, FirewallStep, ReloadStep

\* The process's instance when there is none is one.
LEMMA SomeInstance == (CHOOSE i \in Instance : TRUE) \in Instance
  BY InstanceAssumption

-----------------------------------------------------------------------------
(* The operators of Commands.                                              *)

\* The greatest of some steps is one of them, and none is greater.
LEMMA MaxIn ==
    ASSUME NEW S \in SUBSET Steps, S # {}
    PROVE  Max(S) \in S /\ \A k \in S : ~(k > Max(S))
  <1>1. S \subseteq {1, 2, 3, 4, 5, 6, 7}
    BY DEF Steps
  <1>2. \E m \in S : \A n \in S : m >= n
    <2>1. CASE 7 \in S  BY <1>1, <2>1
    <2>2. CASE 7 \notin S /\ 6 \in S  BY <1>1, <2>2
    <2>3. CASE 7 \notin S /\ 6 \notin S /\ 5 \in S  BY <1>1, <2>3
    <2>4. CASE 7 \notin S /\ 6 \notin S /\ 5 \notin S /\ 4 \in S  BY <1>1, <2>4
    <2>5. CASE 7 \notin S /\ 6 \notin S /\ 5 \notin S /\ 4 \notin S /\ 3 \in S  BY <1>1, <2>5
    <2>6. CASE 7 \notin S /\ 6 \notin S /\ 5 \notin S /\ 4 \notin S /\ 3 \notin S /\ 2 \in S  BY <1>1, <2>6
    <2>7. CASE 7 \notin S /\ 6 \notin S /\ 5 \notin S /\ 4 \notin S /\ 3 \notin S /\ 2 \notin S /\ 1 \in S  BY <1>1, <2>7
    <2>8. QED  BY <1>1, <2>1, <2>2, <2>3, <2>4, <2>5, <2>6, <2>7
  <1>3. Max(S) \in S /\ \A n \in S : Max(S) >= n
    <2> DEFINE Greatest(m) == \A n \in S : m >= n
    <2>1. Max(S) = CHOOSE m \in S : Greatest(m)
      BY DEF Max
    <2>2. \E m \in S : Greatest(m)
      BY <1>2
    <2>. HIDE DEF Greatest
    <2>3. Max(S) \in S /\ Greatest(Max(S))
      BY <2>1, <2>2
    <2>4. QED  BY <2>3 DEF Greatest
  <1>4. QED
    <2>1. ASSUME NEW k \in S  PROVE ~(k > Max(S))
      <3>1. k \in {1, 2, 3, 4, 5, 6, 7} /\ Max(S) \in {1, 2, 3, 4, 5, 6, 7} /\ Max(S) >= k
        BY <1>1, <1>3
      <3>2. QED  BY <3>1
    <2>2. QED  BY <1>3, <2>1

\* The snapshot of no step is a snapshot, and so is what some records keep of one.
LEMMA DefaultType == Default \in Snapshots
  BY DEF Default, Snapshots, PreState, Site

LEMMA RecordsType ==
    ASSUME NEW s \in Snapshots, NEW K \in SUBSET Steps
    PROVE  Records(s, K) \in Snapshots
  <1>1. PICK P : \A f \in DOMAIN Default : P[f] <=> \E k \in K : f \in Fields(k)
    <2>1. \A f \in DOMAIN Default :
            [g \in DOMAIN Default |-> \E k \in K : g \in Fields(k)][f] <=> \E k \in K : f \in Fields(k)
      OBVIOUS
    <2>2. QED  BY <2>1
  <1>2. Records(s, K) = [f \in DOMAIN Default |-> IF P[f] THEN s[f] ELSE Default[f]]
    BY <1>1 DEF Records
  <1>3. QED
    BY <1>2, DefaultType DEF Snapshots, Default

LEMMA NoManifestType == NoManifest \in Manifests
  BY DefaultType DEF NoManifest, Kept, Manifests

\* A manifest that is written is one.
LEMMA ManifestType ==
    ASSUME ProcessOK, NEW s \in Snapshots, NEW K \in SUBSET Steps, NEW done \in BOOLEAN
    PROVE  Manifest(s, K, done) \in Manifests
  <1>1. man[who] \in Manifests
    BY DEF ProcessOK, ProcessType, Manifests
  <1>2. Records(s, K) \in Snapshots
    BY RecordsType
  <1>3. QED
    BY <1>1, <1>2, NoManifestType DEF Manifest, Manifests, Kept

LEMMA StartType ==
    ASSUME Start  PROVE ProcessOK
  <1>1. man \in [Instance -> Manifests]
    BY NoManifestType DEF Start
  <1>2. 0 \in 0 .. MaxFaults
    BY FaultsAssumption
  <1>3. who \in Instance
    BY SomeInstance DEF Start
  <1>4. /\ pc \in {"idle", "snapshot", "run", "undo"} /\ idx \in 1 .. ReloadStep + 1
        /\ pc \notin {"run", "undo"} /\ recorded \subseteq Steps /\ others \subseteq Instance \ {who}
    BY DEF Start
  <1>5. /\ snap \in Snapshots /\ remains \subseteq Instance
        /\ spoilt \in BOOLEAN /\ faults \in 0 .. MaxFaults
    BY <1>2, DefaultType DEF Start
  <1>6. QED
    BY <1>1, <1>3, <1>4, <1>5 DEF ProcessOK, ProcessType, Manifests

\* A process that takes its manifest over.
LEMMA TakeType ==
    ASSUME ProcessOK, NEW i \in Instance, Take(i, "none")
    PROVE  /\ who' \in Instance /\ snap' \in Snapshots /\ recorded' \subseteq Steps
           /\ others' \subseteq Instance \ {who'}
  <1>1. man[i] \in Manifests
    BY DEF ProcessOK, ProcessType, Manifests
  <1>2. QED
    BY <1>1 DEF Take, Manifests, LiveOthers

\* The next undo, or the end of the process.
LEMMA UndoBelowType ==
    ASSUME ProcessOK, NEW k, NEW K \in SUBSET Steps, UndoBelow(k, K),
           spoilt' \in BOOLEAN, faults' \in 0 .. MaxFaults
    PROVE  ProcessOK'
  <1> DEFINE todo == {j \in K : j < k}
  <1>1. CASE todo = {}
    <2>1. Manifest(snap, K, FALSE) \in Manifests
      BY ManifestType DEF ProcessOK, ProcessType
    <2>2. man' \in [Instance -> Manifests]
      <3>1. man \in [Instance -> Manifests]
        BY DEF ProcessOK, ProcessType, Manifests
      <3>2. man' = [man EXCEPT ![who] = Manifest(snap, K, FALSE)]
        BY <1>1 DEF UndoBelow
      <3>3. QED  BY <2>1, <3>1, <3>2
    <2>3. /\ pc' = "idle" /\ idx' = 1 /\ snap' = Default /\ recorded' = {} /\ others' = {}
          /\ who' = CHOOSE i \in Instance : TRUE
      BY <1>1 DEF UndoBelow, Exit
    <2>4. remains' \subseteq Instance
      BY <1>1 DEF UndoBelow, ProcessOK, ProcessType
    <2>5. who' \in Instance /\ snap' \in Snapshots /\ idx' \in 1 .. 8
      BY <2>3, DefaultType, SomeInstance
    <2>6. QED
      BY <2>2, <2>3, <2>4, <2>5 DEF ProcessOK, ProcessType, Manifests
  <1>2. CASE todo # {}
    <2>1. Max(todo) \in Steps
      BY <1>2, MaxIn
    <2>2. idx' = Max(todo)
      BY <1>2 DEF UndoBelow
    <2>. HIDE DEF todo
    <2>5. idx' \in Steps /\ idx' \in 1 .. ReloadStep + 1
      BY <2>1, <2>2 DEF Steps
    <2>3. /\ pc' = "undo" /\ recorded' \subseteq Steps
          /\ UNCHANGED <<who, snap, others, man, remains>>
      BY <1>2 DEF UndoBelow, todo
    <2>4. QED
      BY <2>3, <2>5 DEF ProcessOK, ProcessType
  <1>3. QED  BY <1>1, <1>2

\* The actions of Commands.
LEMMA BeginType ==
    ASSUME ProcessOK, NEW i \in Instance, Begin(i, "none") \/ BeginRollback(i, "none")
    PROVE  ProcessOK'
  <1>1. Take(i, "none")
    BY DEF Begin, BeginRollback
  <1>2. /\ who' \in Instance /\ snap' \in Snapshots /\ recorded' \subseteq Steps
        /\ others' \subseteq Instance \ {who'}
    BY <1>1, TakeType
  <1>3. CASE Begin(i, "none")
    BY <1>2, <1>3 DEF Begin, ProcessOK, ProcessType, Steps
  <1>4. CASE BeginRollback(i, "none")
    <2>1. man[i].steps \in SUBSET Steps
      BY DEF ProcessOK, ProcessType
    <2>2. Max(man[i].steps) \in Steps
      BY <1>4, <2>1, MaxIn DEF BeginRollback
    <2>3. QED
      BY <1>2, <1>4, <2>2 DEF BeginRollback, ProcessOK, ProcessType, Steps
  <1>5. QED  BY <1>3, <1>4

LEMMA StopsType ==
    ASSUME ProcessOK, Stops  PROVE ProcessOK'
  BY UndoBelowType DEF Stops, ProcessOK, ProcessType

LEMMA SkipType ==
    ASSUME ProcessOK, Skip  PROVE ProcessOK'
  BY DEF Skip, ProcessOK, ProcessType, Steps

LEMMA FinishedType ==
    ASSUME ProcessOK, Finished  PROVE ProcessOK'
  <1>1. man' \in [Instance -> Manifests]
    <2>1. man[who] \in Manifests
      BY DEF ProcessOK, ProcessType, Manifests
    <2>2. [man[who] EXCEPT !.finished = TRUE] \in Manifests
      BY <2>1 DEF Manifests
    <2>3. QED
      BY <2>2 DEF Finished, ProcessOK, ProcessType, Manifests
  <1>2. QED
    BY <1>1, DefaultType, SomeInstance DEF Finished, Exit, ProcessOK, ProcessType, Manifests, Steps

LEMMA SnapshottedType ==
    ASSUME ProcessOK, NEW s \in Snapshots, idx \in Steps, Snapshotted(s)
    PROVE  ProcessOK'
  BY DEF Snapshotted, ProcessOK, ProcessType

LEMMA RanType ==
    ASSUME ProcessOK, pc = "run", snap' \in Snapshots, Ran
    PROVE  ProcessOK'
  <1>1. recorded' \in SUBSET Steps
    BY DEF Ran, ProcessOK, ProcessType
  <1>2. Manifest(snap', recorded', FALSE) \in Manifests
    BY <1>1, ManifestType
  <1>3. man' \in [Instance -> Manifests]
    BY <1>2 DEF Ran, ProcessOK, ProcessType, Manifests
  <1>4. idx' \in 1 .. ReloadStep + 1
    BY DEF Ran, ProcessOK, ProcessType, Steps
  <1>5. QED
    BY <1>1, <1>3, <1>4 DEF Ran, ProcessOK, ProcessType, Manifests

LEMMA FailedType ==
    ASSUME ProcessOK, pc = "run", snap' \in Snapshots, Failed, faults' \in 0 .. MaxFaults
    PROVE  ProcessOK'
  BY DEF Failed, ProcessOK, ProcessType

LEMMA LeaveSharedType ==
    ASSUME ProcessOK, LeaveShared  PROVE ProcessOK'
  BY UndoBelowType DEF LeaveShared, ProcessOK, ProcessType

LEMMA FaultType ==
    ASSUME ProcessOK, Fault  PROVE faults' \in 0 .. MaxFaults
  BY FaultsAssumption DEF Fault, ProcessOK, ProcessType

LEMMA UndoneType ==
    ASSUME ProcessOK, Undone, faults' \in 0 .. MaxFaults
    PROVE  ProcessOK'
  BY UndoBelowType DEF Undone, ProcessOK, ProcessType

LEMMA DiesType ==
    ASSUME ProcessOK, Dies  PROVE ProcessOK'
  <1>1. faults' \in 0 .. MaxFaults
    BY FaultType DEF Dies
  <1>2. QED
    BY <1>1, DefaultType, SomeInstance DEF Dies, Exit, ProcessOK, ProcessType, Steps

-----------------------------------------------------------------------------
(* The types of the machine.                                               *)

Configs == [sites : [Instance -> Whose], default : BOOLEAN]

LEMMA TypeSplit == TypeOK <=> WorldType /\ ProcessOK
  BY DEF TypeOK, ProcessOK

LEMMA WorldUnchanged ==
    ASSUME WorldType, UNCHANGED world  PROVE WorldType'
  BY DEF WorldType, world, service, files, guards, fixed

\* What nginx serves is a configuration.
LEMMA ConfigType ==
    ASSUME NEW v \in [Instance -> Whose], NEW l \in [Instance -> {"absent", "vhost", "elsewhere"}], NEW s
    PROVE  Config(v, l, s) \in Configs
  BY DEF Config, ServedBy, Configs, Whose

LEMMA NotRunningType == NotRunning \in Configs
  BY DEF NotRunning, Configs, Whose

LEMMA MadeType == \A p \in PreState : Made(p) \in PreState
  BY DEF Made, PreState

LEMMA MadeIfType == \A p \in PreState, done \in BOOLEAN : MadeIf(done, p) \in PreState
  BY MadeType DEF MadeIf

\* A run that is to set a vhost aside finds it.
VhostThere ==
    pc = "run" /\ idx = WriteStep /\ ~Gated /\ snap.vhost = "Preexisting" => vhost[who] # "absent"

TypeInv == TypeOK /\ VhostThere

\* Far enough or not, what a run claims is a snapshot.
LEMMA ClaimsType ==
    ASSUME TypeInv, pc = "run", ~Gated, NEW far \in 0 .. 2
    PROVE  Claims(far) \in Snapshots
  <1>1. snap \in Snapshots /\ who \in Instance /\ vhost[who] \in Whose /\ idx \in {1, 2, 3, 4, 5, 6, 7}
    BY DEF TypeInv, TypeOK, WorldType, ProcessType, Steps
  <1>2. CASE idx = InstallStep
    <2>1. Claims(far) = InstallClaims(far)
      BY <1>2 DEF Claims
    <2>2. MadeIf(far >= 1, snap.installed) \in PreState /\ MadeIf(far = 2, snap.enabled) \in PreState
      BY <1>1, MadeType DEF MadeIf, Snapshots
    <2>3. QED  BY <1>1, <2>1, <2>2 DEF InstallClaims, Snapshots
  <1>3. CASE idx = WriteStep
    <2>1. Claims(far) = WriteClaims(far)
      BY <1>3 DEF Claims
    <2>2. MadeIf(far = 2, snap.vhost) \in PreState
      BY <1>1, MadeIfType DEF Snapshots
    <2>3. QED  BY <1>1, <1>3, <2>1, <2>2 DEF WriteClaims, Snapshots, Whose, TypeInv, VhostThere
  <1>4. CASE idx = EnableStep
    <2>1. Claims(far) = EnableClaims(far)
      BY <1>4 DEF Claims
    <2>2. /\ (snap.moved \/ (far >= 1 /\ MovedIfFile)) \in BOOLEAN
          /\ MadeIf(far = 2 /\ family = "debian", snap.link) \in PreState
      BY <1>1, MadeIfType DEF Snapshots
    <2>3. QED  BY <1>1, <2>1, <2>2 DEF EnableClaims, Snapshots
  <1>5. CASE idx = SelinuxStep
    <2>1. Claims(far) = SelinuxClaims(far)
      BY <1>5 DEF Claims
    <2>2. QED  BY <1>1, <2>1, MadeIfType DEF SelinuxClaims, Snapshots
  <1>6. CASE idx = ReloadStep
    <2>1. Claims(far) = ReloadClaims(far)
      BY <1>6 DEF Claims
    <2>2. QED  BY <1>1, <2>1 DEF ReloadClaims, Snapshots, PreState
  <1>7. CASE idx \in {Base, FirewallStep}
    BY <1>1, <1>7 DEF Claims
  <1>8. QED
    BY <1>1, <1>2, <1>3, <1>4, <1>5, <1>6, <1>7

\* The types of the machine, as far as the types of a step's variables go.
LEMMA InstallEffectType ==
    ASSUME WorldType, InstallEffect(1) \/ InstallEffect(2) \/ InstallEffect(0)
    PROVE  WorldType'
  <1>1. Config(vhost, link, "link") \in Configs
    BY ConfigType DEF WorldType
  <1>2. pkg' \in Whose /\ active' \in BOOLEAN /\ enabled' \in BOOLEAN /\ site' \in Site
    BY DEF InstallEffect, WorldType, Whose, Site
  <1>3. loaded' \in Configs
    BY <1>1 DEF InstallEffect, WorldType, Configs
  <1>4. QED
    BY <1>2, <1>3 DEF InstallEffect, WorldType, guards, fixed, Configs

LEMMA EffectType ==
    ASSUME TypeInv, pc = "run", ~Gated, NEW far \in 0 .. 2, Effect(far)
    PROVE  WorldType'
  <1>1. WorldType /\ snap \in Snapshots /\ who \in Instance /\ idx \in {1, 2, 3, 4, 5, 6, 7}
    BY DEF TypeInv, TypeOK, WorldType, ProcessType, Steps
  <1>2. CASE idx = Base
    BY <1>1, <1>2, WorldUnchanged DEF Effect
  <1>3. CASE idx = InstallStep
    BY <1>1, <1>3, InstallEffectType DEF Effect
  <1>4. CASE idx = WriteStep
    <2>1. WriteEffect(far)
      BY <1>4 DEF Effect
    <2>2. vhost' \in [Instance -> Whose]
      BY <1>1, <2>1 DEF WriteEffect, WorldType, Whose
    <2>3. backup' \in [Instance -> SUBSET {"ours", "theirs"}]
      BY <1>1, <1>4, <2>1 DEF WriteEffect, SetAside, WorldType, Whose, TypeInv, VhostThere
    <2>4. QED
      BY <1>1, <2>1, <2>2, <2>3 DEF WriteEffect, WorldType, service, guards, fixed
  <1>5. CASE idx = EnableStep
    <2>1. EnableEffect(far)
      BY <1>5 DEF Effect
    <2>2. /\ site' \in Site /\ siteBackup' \in BOOLEAN
          /\ link' \in [Instance -> {"absent", "vhost", "elsewhere"}]
      BY <1>1, <2>1 DEF EnableEffect, Displaced, MovedIfFile, WorldType, Site
    <2>3. QED
      BY <1>1, <2>1, <2>2 DEF EnableEffect, WorldType, service, guards, fixed
  <1>6. CASE idx = SelinuxStep
    <2>1. SelinuxEffect(far)
      BY <1>6 DEF Effect
    <2>2. switch' \in {"none", "off", "on"}
      BY <1>1, <2>1 DEF SelinuxEffect, WorldType
    <2>3. QED
      BY <1>1, <2>1, <2>2 DEF SelinuxEffect, WorldType, service, files, fixed
  <1>7. CASE idx = FirewallStep
    <2>1. FirewallEffect(far)
      BY <1>7 DEF Effect
    <2>2. far \in {0, 1, 2} /\ snap.delta \in SUBSET Port
      BY <1>1 DEF Snapshots
    <2>3. rules' \in SUBSET Port
      BY <1>1, <2>1, <2>2 DEF FirewallEffect, WorldType
    <2>4. QED
      BY <1>1, <2>1, <2>3 DEF FirewallEffect, WorldType, service, files, fixed
  <1>8. CASE idx = ReloadStep
    <2>1. ReloadEffect(far)
      BY <1>8 DEF Effect
    <2>2. OnDisk \in Configs
      BY <1>1, ConfigType DEF OnDisk, WorldType
    <2>3. active' \in BOOLEAN /\ loaded' \in Configs
      BY <1>1, <2>1, <2>2 DEF ReloadEffect, WorldType, Configs
    <2>4. QED
      BY <1>1, <2>1, <2>3 DEF ReloadEffect, WorldType, files, guards, fixed, Configs
  <1>9. QED
    BY <1>1, <1>2, <1>3, <1>4, <1>5, <1>6, <1>7, <1>8

-----------------------------------------------------------------------------
(* Every action keeps the types.                                           *)

LEMMA SnapshotsType ==
    ASSUME TypeOK,
           \/ SnapshotBase \/ SnapshotInstall \/ SnapshotWrite \/ SnapshotEnable
           \/ SnapshotSelinux \/ SnapshotFirewall \/ SnapshotReload
    PROVE  TypeOK'
  <1>1. snap \in Snapshots /\ idx \in Steps /\ site \in Site /\ rules \in SUBSET Port
    BY DEF TypeOK, WorldType, ProcessType, SnapshotBase, SnapshotInstall, SnapshotWrite, SnapshotEnable,
           SnapshotSelinux, SnapshotFirewall, SnapshotReload, At, Steps
  <1>2. \A b \in BOOLEAN : Verdict(b) \in PreState
    BY DEF Verdict, PreState
  <1>3. PICK s \in Snapshots : Snapshotted(s)
    <2>1. CASE SnapshotBase
      BY <1>1, <2>1 DEF SnapshotBase
    <2>2. CASE SnapshotInstall
      <3>1. [snap EXCEPT !.installed = Verdict(pkg # "absent"), !.enabled = Verdict(enabled)] \in Snapshots
        <4>1. enabled \in BOOLEAN
          BY DEF TypeOK, WorldType
        <4>2. Verdict(enabled) \in PreState /\ Verdict(pkg # "absent") \in PreState
          BY <1>2, <4>1
        <4>3. QED  BY <1>1, <4>2 DEF Snapshots
      <3>2. QED  BY <1>1, <2>2, <3>1 DEF SnapshotInstall
    <2>3. CASE SnapshotWrite
      BY <1>1, <1>2, <2>3 DEF SnapshotWrite, Snapshots
    <2>4. CASE SnapshotEnable
      BY <1>1, <1>2, <2>4 DEF SnapshotEnable, Snapshots
    <2>5. CASE SnapshotSelinux
      BY <1>1, <1>2, <2>5 DEF SnapshotSelinux, Snapshots
    <2>6. CASE SnapshotFirewall
      <3>1. Delta \in SUBSET Port
        BY DEF Delta, Wanted, Port
      <3>2. QED  BY <1>1, <2>6, <3>1 DEF SnapshotFirewall, Snapshots
    <2>7. CASE SnapshotReload
      <3>1. active \in BOOLEAN /\ Verdict(active) \in PreState
        BY <1>2 DEF TypeOK, WorldType
      <3>2. QED  BY <1>1, <2>7, <3>1 DEF SnapshotReload, Snapshots
    <2>8. QED  BY <2>1, <2>2, <2>3, <2>4, <2>5, <2>6, <2>7
  <1>4. ProcessOK'
    BY <1>1, <1>3, SnapshottedType, TypeSplit
  <1>5. WorldType'
    BY <1>3, WorldUnchanged, TypeSplit DEF Snapshotted
  <1>6. QED  BY <1>4, <1>5 DEF TypeOK, ProcessOK

LEMMA RunsType ==
    ASSUME TypeInv, RunStep  PROVE TypeOK'
  <1>1. TypeOK /\ pc = "run" /\ Ran /\ snap \in Snapshots
    BY DEF TypeInv, TypeOK, ProcessType, RunStep
  <1>2. CASE Gated
    <2>1. snap' \in Snapshots
      BY <1>1, <1>2 DEF RunStep
    <2>2. ProcessOK'
      BY <1>1, <2>1, RanType, TypeSplit
    <2>3. WorldType'
      BY <1>1, <1>2, WorldUnchanged, TypeSplit DEF RunStep
    <2>4. QED  BY <2>2, <2>3 DEF TypeOK, ProcessOK
  <1>3. CASE ~Gated
    <2>1. Effect(2) /\ snap' = Claims(2) /\ 2 \in 0 .. 2
      BY <1>3 DEF RunStep
    <2>2. snap' \in Snapshots
      BY <1>1, <1>3, <2>1, ClaimsType
    <2>3. ProcessOK'
      BY <1>1, <2>2, RanType, TypeSplit
    <2>4. WorldType'
      BY <1>1, <1>3, <2>1, EffectType
    <2>5. QED  BY <2>3, <2>4 DEF TypeOK, ProcessOK
  <1>4. QED  BY <1>2, <1>3

LEMMA FailuresType ==
    ASSUME TypeInv, RunFails \/ HalfInstalled  PROVE TypeOK'
  <1>1. TypeOK /\ pc = "run" /\ ~Gated /\ Failed /\ snap \in Snapshots /\ faults \in 0 .. MaxFaults
        /\ idx \in {1, 2, 3, 4, 5, 6, 7}
    BY DEF TypeInv, TypeOK, ProcessType, RunFails, HalfInstalled, Running, Steps
  <1>2. faults' \in 0 .. MaxFaults
    BY <1>1, FaultType, TypeSplit DEF RunFails, HalfInstalled
  <1>3. PICK far \in 0 .. 2 : Effect(far) /\ snap' \in {snap, Claims(far)}
    <2>1. CASE RunFails
      <3>1. FailsAt \subseteq 0 .. 2
        BY <1>1 DEF FailsAt
      <3>2. QED  BY <2>1, <3>1 DEF RunFails
    <2>2. CASE HalfInstalled
      <3>1. idx = InstallStep /\ 1 \in 0 .. 2 /\ Claims(1) = InstallClaims(1)
        BY <2>2 DEF HalfInstalled, Running, Claims
      <3>2. QED  BY <2>2, <3>1 DEF HalfInstalled, Effect
    <2>3. QED  BY <2>1, <2>2
  <1>4. snap' \in Snapshots
    BY <1>1, <1>3, ClaimsType
  <1>5. ProcessOK'
    BY <1>1, <1>2, <1>4, FailedType, TypeSplit
  <1>6. WorldType'
    BY <1>1, <1>3, EffectType
  <1>7. QED  BY <1>5, <1>6 DEF TypeOK, ProcessOK

\* Sets of up to four are finite.
LEMMA SmallSets == \A a, b, c, d : IsFiniteSet({a, b, c, d})
  <1> SUFFICES ASSUME NEW a, NEW b, NEW c, NEW d  PROVE IsFiniteSet({a, b, c, d})
    OBVIOUS
  <1>1. IsFiniteSet({a})
    BY FS_Singleton
  <1>2. IsFiniteSet({a} \cup {b})
    BY <1>1, FS_AddElement
  <1>3. IsFiniteSet(({a} \cup {b}) \cup {c})
    BY <1>2, FS_AddElement
  <1>4. IsFiniteSet((({a} \cup {b}) \cup {c}) \cup {d})
    BY <1>3, FS_AddElement
  <1>5. {a, b, c, d} = (({a} \cup {b}) \cup {c}) \cup {d}
    OBVIOUS
  <1>6. QED  BY <1>4, <1>5

\* What the failed parts of an undo cost stays within the bound.
LEMMA CostType ==
    ASSUME ProcessOK, NEW all, IsFiniteSet(all), NEW done \in Parts(all), Cost(done, all)
    PROVE  faults' \in 0 .. MaxFaults
  <1>1. IsFiniteSet(all \ done) /\ Cardinality(all \ done) \in Nat
    BY FS_Difference, FS_CardinalityType
  <1>2. faults + Cardinality(all \ done) <= MaxFaults
    BY DEF Parts
  <1>3. faults' = faults + Cardinality(all \ done) /\ faults \in Nat /\ MaxFaults \in Nat
    BY FaultsAssumption DEF Cost, ProcessOK, ProcessType
  <1>4. QED
    BY <1>1, <1>2, <1>3

LEMMA UndoFaultsType ==
    ASSUME TypeOK,
           \/ UndoBase \/ UndoInstall \/ UndoWrite \/ UndoEnable
           \/ UndoSelinux \/ UndoFirewall \/ UndoReload
    PROVE  Undone /\ faults' \in 0 .. MaxFaults
  <1>1. /\ ProcessOK /\ faults \in 0 .. MaxFaults /\ snap.delta \subseteq {80, 443}
        /\ (Fault => faults' \in 0 .. MaxFaults)
    BY FaultType, TypeSplit DEF ProcessOK, ProcessType, Snapshots, Port
  <1>2. CASE UndoBase \/ UndoWrite \/ UndoSelinux \/ UndoReload
    BY <1>1, <1>2 DEF UndoBase, UndoWrite, UndoSelinux, UndoReload
  <1>3. CASE UndoFirewall
    <2>1. PICK done \in Parts(snap.delta) : Cost(done, snap.delta)
      BY <1>3 DEF UndoFirewall
    <2>2. IsFiniteSet(snap.delta)
      <3>1. PICK n \in Nat : n = 443
        OBVIOUS
      <3>2. IsFiniteSet(1 .. n)
        BY FS_Interval
      <3>3. snap.delta \in SUBSET (1 .. n)
        BY <1>1, <3>1
      <3>4. QED  BY <3>2, <3>3, FS_Subset
    <2>3. QED  BY <1>1, <1>3, <2>1, <2>2, CostType DEF UndoFirewall
  <1>4. CASE UndoEnable
    <2>1. PICK done \in Parts({"link", "site"}) : Cost(done, {"link", "site"})
      BY <1>4 DEF UndoEnable
    <2>2. IsFiniteSet({"link", "site"})
      <3>1. {"link", "site"} = {"link", "site", "link", "site"}
        OBVIOUS
      <3>2. QED  BY <3>1, SmallSets
    <2>3. QED  BY <1>1, <1>4, <2>1, <2>2, CostType DEF UndoEnable
  <1>5. CASE UndoInstall
    <2>1. PICK done \in Parts({"stop", "disable", "purge", "reload"}) :
             Cost(done, {"stop", "disable", "purge", "reload"})
      BY <1>5 DEF UndoInstall
    <2>2. IsFiniteSet({"stop", "disable", "purge", "reload"})
      BY SmallSets
    <2>3. QED  BY <1>1, <1>5, <2>1, <2>2, CostType DEF UndoInstall
  <1>6. QED  BY <1>2, <1>3, <1>4, <1>5

LEMMA UndosType ==
    ASSUME TypeOK,
           \/ UndoBase \/ UndoInstall \/ UndoWrite \/ UndoEnable
           \/ UndoSelinux \/ UndoFirewall \/ UndoReload
    PROVE  TypeOK'
  <1>1. WorldType /\ snap \in Snapshots /\ who \in Instance
    BY DEF TypeOK, ProcessType
  <1>2. ProcessOK'
    BY UndoFaultsType, UndoneType, TypeSplit
  <1>3. WorldType'
    <2>1. CASE UndoBase
      BY <1>1, <2>1, WorldUnchanged DEF UndoBase
    <2>2. CASE UndoInstall
      <3>1. OnDisk \in Configs /\ NotRunning \in Configs
        BY <1>1, ConfigType, NotRunningType DEF OnDisk, WorldType
      <3>2. pkg' \in Whose /\ site' \in Site /\ active' \in BOOLEAN /\ enabled' \in BOOLEAN
        BY <1>1, <2>2 DEF UndoInstall, WorldType, Whose, Site
      <3>3. loaded' \in Configs
        BY <1>1, <2>2, <3>1 DEF UndoInstall, Reloads, WorldType, Configs
      <3>4. QED
        BY <1>1, <2>2, <3>2, <3>3 DEF UndoInstall, WorldType, guards, fixed, Configs
    <2>3. CASE UndoWrite
      <3>1. \/ UNCHANGED <<vhost, backup>>
            \/ /\ vhost' = [vhost EXCEPT ![who] = "absent"]
               /\ UNCHANGED backup
            \/ /\ snap.backup \in backup[who]
               /\ vhost' = [vhost EXCEPT ![who] = snap.backup]
               /\ backup' = [backup EXCEPT ![who] = @ \ {snap.backup}]
        BY <2>3 DEF UndoWrite
      <3>2. vhost' \in [Instance -> Whose] /\ backup' \in [Instance -> SUBSET {"ours", "theirs"}]
        BY <1>1, <3>1 DEF WorldType, Whose
      <3>3. QED  BY <1>1, <2>3, <3>2 DEF UndoWrite, WorldType, service, guards, fixed
    <2>4. CASE UndoEnable
      <3>1. /\ link' \in [Instance -> {"absent", "vhost", "elsewhere"}]
            /\ site' \in Site /\ siteBackup' \in BOOLEAN
        BY <1>1, <2>4 DEF UndoEnable, WorldType, Snapshots
      <3>2. QED  BY <1>1, <2>4, <3>1 DEF UndoEnable, WorldType, service, guards, fixed
    <2>5. CASE UndoSelinux
      <3>1. switch' \in {"none", "off", "on"}
        BY <1>1, <2>5 DEF UndoSelinux, WorldType
      <3>2. QED  BY <1>1, <2>5, <3>1 DEF UndoSelinux, WorldType, service, files, fixed
    <2>6. CASE UndoFirewall
      <3>1. rules' \in SUBSET Port
        BY <1>1, <2>6 DEF UndoFirewall, WorldType
      <3>2. QED  BY <1>1, <2>6, <3>1 DEF UndoFirewall, WorldType, service, files, fixed
    <2>7. CASE UndoReload
      <3>1. active' \in BOOLEAN /\ loaded' \in Configs /\ UNCHANGED <<pkg, enabled>>
        BY <1>1, <2>7, NotRunningType DEF UndoReload, WorldType, service, Configs
      <3>2. QED  BY <1>1, <2>7, <3>1 DEF UndoReload, WorldType, files, guards, fixed, Configs
    <2>8. QED  BY <2>1, <2>2, <2>3, <2>4, <2>5, <2>6, <2>7
  <1>4. QED  BY <1>2, <1>3 DEF TypeOK, ProcessOK

LEMMA CommandsType ==
    ASSUME TypeOK, NEW i \in Instance, Install(i) \/ Rollback(i)
    PROVE  TypeOK'
  <1>1. Begin(i, "none") \/ BeginRollback(i, "none")
    BY DEF Install, Rollback
  <1>2. ProcessOK'
    BY <1>1, BeginType, TypeSplit
  <1>3. WorldType'
    BY <1>1, WorldUnchanged, TypeSplit DEF Begin, BeginRollback
  <1>4. QED  BY <1>2, <1>3 DEF TypeOK, ProcessOK

LEMMA EnginesType ==
    ASSUME TypeOK, Stops \/ Skip \/ Finish \/ LeaveShared
    PROVE  TypeOK'
  <1>1. ProcessOK'
    BY StopsType, SkipType, FinishedType, LeaveSharedType, TypeSplit DEF Finish
  <1>2. WorldType'
    BY WorldUnchanged, TypeSplit DEF Stops, Skip, Finish, LeaveShared
  <1>3. QED  BY <1>1, <1>2 DEF TypeOK, ProcessOK

LEMMA DieType ==
    ASSUME TypeInv, Die  PROVE TypeOK'
  <1>1. ProcessOK'
    BY DiesType, TypeSplit DEF Die, TypeInv
  <1>2. WorldType'
    BY EffectType, WorldUnchanged, TypeSplit DEF Die, TypeInv
  <1>3. QED  BY <1>1, <1>2 DEF TypeOK, ProcessOK

\* Only a snapshot begins a run, and no run is two steps.
LEMMA OnlySnapshotsRun ==
    ASSUME Next, pc' = "run"
    PROVE  \/ SnapshotBase \/ SnapshotInstall \/ SnapshotWrite \/ SnapshotEnable
           \/ SnapshotSelinux \/ SnapshotFirewall \/ SnapshotReload
  BY DEF Next, Install, Rollback, Begin, BeginRollback, Stops, Skip, Finish, Finished, Exit, UndoBelow,
     RunStep, Ran, RunFails, HalfInstalled, Failed, LeaveShared, UndoBase, UndoInstall, UndoWrite,
     UndoEnable, UndoSelinux, UndoFirewall, UndoReload, Undone, Die, Dies

LEMMA NextVhostThere ==
    ASSUME TypeOK, Next  PROVE VhostThere'
  <1> SUFFICES ASSUME pc' = "run", idx' = WriteStep, ~Gated', snap'.vhost = "Preexisting"
               PROVE  (vhost[who])' # "absent"
    BY DEF VhostThere
  <1>1. SnapshotWrite /\ UNCHANGED <<who, vhost>>
    BY OnlySnapshotsRun DEF SnapshotBase, SnapshotInstall, SnapshotWrite, SnapshotEnable, SnapshotSelinux,
       SnapshotFirewall, SnapshotReload, At, Snapshotted, world, files
  <1>2. ~Gated
    BY <1>1 DEF Gated
  <1>3. snap' = [snap EXCEPT !.vhost = Verdict(vhost[who] # "absent")] /\ snap \in Snapshots
    BY <1>1, <1>2 DEF SnapshotWrite, Snapshotted, TypeOK, ProcessType
  <1>4. QED
    BY <1>1, <1>3 DEF Snapshots, Verdict

LEMMA InitType == Init => TypeInv
  <1> SUFFICES ASSUME Init  PROVE TypeInv
    OBVIOUS
  <1>1. ProcessOK
    BY StartType DEF Init
  <1>2. /\ family \in Families /\ pkg \in Whose /\ enabled \in BOOLEAN /\ active \in BOOLEAN
        /\ switch \in {"none", "off", "on"} /\ walled \in BOOLEAN /\ siteBackup \in BOOLEAN
        /\ backup \in [Instance -> SUBSET {"ours", "theirs"}]
    BY DEF Init, Whose
  <1>3. /\ vhost \in [Instance -> Whose] /\ link \in [Instance -> {"absent", "vhost", "elsewhere"}]
    BY DEF Init, Whose
  <1>4. site \in Site /\ rules \in SUBSET Port
    BY FoundAssumption DEF Init, Site
  <1>5. loaded \in Configs
    BY <1>3, ConfigType, NotRunningType DEF Init, OnDisk
  <1>6. pc = "idle"
    BY DEF Init, Start
  <1>7. QED
    BY <1>1, <1>2, <1>3, <1>4, <1>5, <1>6 DEF TypeInv, TypeOK, WorldType, ProcessOK, VhostThere, Configs

LEMMA NextType == TypeInv /\ [Next]_vars => TypeInv'
  <1> SUFFICES ASSUME TypeInv, [Next]_vars  PROVE TypeInv'
    OBVIOUS
  <1>1. CASE UNCHANGED vars
    BY <1>1 DEF vars, world, service, files, guards, fixed, TypeInv, TypeOK, WorldType, ProcessType,
                VhostThere, Gated
  <1>2. CASE Next
    <2>1. TypeOK'
      BY <1>2, CommandsType, EnginesType, SnapshotsType, RunsType, FailuresType, UndosType, DieType
         DEF Next, TypeInv
    <2>2. VhostThere'
      BY <1>2, NextVhostThere DEF TypeInv
    <2>3. QED  BY <2>1, <2>2 DEF TypeInv
  <1>3. QED  BY <1>1, <1>2

\* The variables keep their types, whatever instances come and go.
THEOREM NginxTypeOK == Spec => []TypeOK
  <1>1. TypeInv => TypeOK
    BY DEF TypeInv
  <1>2. QED  BY <1>1, InitType, NextType, PTL DEF Spec

-----------------------------------------------------------------------------
(* What the customer had written is not lost.                              *)

FoundType ==
    /\ found.vhost \in [Instance -> Whose]
    /\ found.site = "file" => found.pkg = "theirs"

\* A vhost of theirs is never gone; and when a copy of ours has come beside the
\* copy of theirs, theirs is not in its place any more.
VhostsKept ==
    \A i \in Instance : found.vhost[i] = "theirs" =>
        /\ vhost[i] # "absent"
        /\ vhost[i] = "theirs" \/ "theirs" \in backup[i]
        /\ "ours" \in backup[i] => vhost[i] # "theirs" /\ "theirs" \in backup[i]

\* Their package stays, and a default site that was a file is one or is away.
DefaultKept ==
    /\ found.pkg = "theirs" => pkg = "theirs"
    /\ found.site = "file" => site \in {"file", "absent"} /\ (site = "file" \/ siteBackup)

\* What a snapshot of i calls created by us was not there before, what it calls
\* the copy of theirs is the only one of the copies, and what it calls moved was
\* a file.
RecordOK(s, i, copies) ==
    /\ s.installed = "CreatedByUs" => found.pkg # "theirs"
    /\ found.vhost[i] = "theirs" =>
          s.vhost # "CreatedByUs" /\ (s.backup = "theirs" => "ours" \notin copies)
    /\ s.moved => s.site = "file"
    /\ found.site = "file" => s.site \in {"file", "absent"}

RecordsOK ==
    /\ pc # "idle" => RecordOK(snap, who, backup[who])
    /\ \A i \in Instance : RecordOK(man[i].snap, i, backup[i])

\* What is not recorded is not in the snapshots either.
Unrecorded ==
    /\ \A i \in Instance : /\ WriteStep \notin man[i].steps => man[i].snap.backup = "none"
                           /\ EnableStep \notin man[i].steps => ~man[i].snap.moved
    /\ pc \in {"snapshot", "run"} =>
          recorded = man[who].steps /\ (EnableStep \notin recorded => ~snap.moved)

\* What the snapshot before a run did not find was not there before either, and
\* what it found is still there.
RunOK ==
    pc = "run" =>
        /\ idx \notin recorded
        /\ ~Gated =>
              /\ idx = InstallStep /\ snap.installed # "Preexisting" => found.pkg # "theirs"
              /\ idx = WriteStep /\ snap.vhost # "Preexisting" => found.vhost[who] # "theirs"
              /\ idx = EnableStep => snap.site = site

KeptInv == TypeInv /\ FoundType /\ VhostsKept /\ DefaultKept /\ RecordsOK /\ Unrecorded /\ RunOK

-----------------------------------------------------------------------------
(* The records.                                                            *)

\* The fields of the steps' snapshots.
LEMMA FieldSteps ==
    ASSUME NEW k \in Steps
    PROVE  /\ "installed" \in Fields(k) <=> k = InstallStep
           /\ "enabled" \in Fields(k) <=> k = InstallStep
           /\ "vhost" \in Fields(k) <=> k = WriteStep
           /\ "backup" \in Fields(k) <=> k = WriteStep
           /\ "link" \in Fields(k) <=> k = EnableStep
           /\ "site" \in Fields(k) <=> k = EnableStep
           /\ "moved" \in Fields(k) <=> k = EnableStep
           /\ "switch" \in Fields(k) <=> k = SelinuxStep
           /\ "delta" \in Fields(k) <=> k = FirewallStep
           /\ "active" \in Fields(k) <=> k = ReloadStep
  <1>1. k \in {1, 2, 3, 4, 5, 6, 7}
    BY DEF Steps
  <1>2. CASE k = 1  BY <1>2 DEF Fields
  <1>3. CASE k = 2  BY <1>3 DEF Fields
  <1>4. CASE k = 3  BY <1>4 DEF Fields
  <1>5. CASE k = 4  BY <1>5 DEF Fields
  <1>6. CASE k = 5  BY <1>6 DEF Fields
  <1>7. CASE k = 6  BY <1>7 DEF Fields
  <1>8. CASE k = 7  BY <1>8 DEF Fields
  <1>9. QED  BY <1>1, <1>2, <1>3, <1>4, <1>5, <1>6, <1>7, <1>8

\* A manifest that is written records what it is told to.
LEMMA ManifestSteps ==
    ASSUME NEW s, NEW K, NEW done  PROVE Manifest(s, K, done).steps = K
  BY DEF Manifest, NoManifest

LEMMA ManifestOK ==
    ASSUME NEW s \in Snapshots, NEW K \in SUBSET Steps, NEW done, NEW i, NEW copies,
           RecordOK(s, i, copies)
    PROVE  /\ RecordOK(Manifest(s, K, done).snap, i, copies)
           /\ WriteStep \notin K => Manifest(s, K, done).snap.backup = "none"
           /\ EnableStep \notin K => ~Manifest(s, K, done).snap.moved
  <1>1. CASE K = {}
    BY <1>1 DEF Manifest, NoManifest, RecordOK, Default
  <1>2. CASE K # {}
    <2>1. Manifest(s, K, done).snap = Records(s, K)
      BY <1>2 DEF Manifest
    <2>2. PICK r : r = Records(s, K)
      OBVIOUS
    <2>3. /\ r.installed = IF InstallStep \in K THEN s.installed ELSE "Untracked"
          /\ r.vhost = IF WriteStep \in K THEN s.vhost ELSE "Untracked"
          /\ r.backup = IF WriteStep \in K THEN s.backup ELSE "none"
          /\ r.site = IF EnableStep \in K THEN s.site ELSE "absent"
          /\ r.moved = IF EnableStep \in K THEN s.moved ELSE FALSE
      <3>1. Records(s, K).installed = IF InstallStep \in K THEN s.installed ELSE "Untracked"
        BY FieldSteps DEF Records, Default
      <3>2. Records(s, K).vhost = IF WriteStep \in K THEN s.vhost ELSE "Untracked"
        BY FieldSteps DEF Records, Default
      <3>3. Records(s, K).backup = IF WriteStep \in K THEN s.backup ELSE "none"
        BY FieldSteps DEF Records, Default
      <3>4. Records(s, K).site = IF EnableStep \in K THEN s.site ELSE "absent"
        BY FieldSteps DEF Records, Default
      <3>5. Records(s, K).moved = IF EnableStep \in K THEN s.moved ELSE FALSE
        BY FieldSteps DEF Records, Default
      <3>6. QED  BY <2>2, <3>1, <3>2, <3>3, <3>4, <3>5
    <2>4. RecordOK(r, i, copies)
      BY <2>3 DEF RecordOK
    <2>5. QED  BY <2>1, <2>2, <2>3, <2>4
  <1>3. QED  BY <1>1, <1>2

\* Copies that go take nothing from a record.
LEMMA FewerCopies ==
    ASSUME NEW s, NEW i, NEW copies, NEW fewer \in SUBSET copies, RecordOK(s, i, copies)
    PROVE  RecordOK(s, i, fewer)
  BY DEF RecordOK

LEMMA KeptTypes ==
    ASSUME KeptInv
    PROVE  /\ TypeOK /\ ProcessOK /\ WorldType
           /\ man \in [Instance -> Manifests] /\ who \in Instance /\ snap \in Snapshots
           /\ recorded \in SUBSET Steps /\ idx \in 1 .. 8
           /\ pc \in {"idle", "snapshot", "run", "undo"}
           /\ vhost \in [Instance -> Whose] /\ backup \in [Instance -> SUBSET {"ours", "theirs"}]
           /\ site \in Site /\ siteBackup \in BOOLEAN
  BY DEF KeptInv, TypeInv, TypeOK, ProcessOK, WorldType, ProcessType, Manifests

\* The next undo, or the end of the process.
LEMMA UndoBelowKeeps ==
    ASSUME KeptInv, pc # "idle", NEW k, NEW K \in SUBSET Steps, UndoBelow(k, K), UNCHANGED found,
           \A i \in Instance : backup'[i] \in SUBSET backup[i]
    PROVE  RecordsOK' /\ Unrecorded' /\ RunOK'
  <1> DEFINE todo == {j \in K : j < k}
             m == Manifest(snap, K, FALSE)
  <1>1. /\ man \in [Instance -> Manifests] /\ who \in Instance /\ snap \in Snapshots
        /\ RecordOK(snap, who, backup[who])
        /\ \A i \in Instance : RecordOK(man[i].snap, i, backup[i])
    BY KeptTypes DEF KeptInv, RecordsOK
  <1>2. /\ RecordOK(snap, who, backup'[who])
        /\ \A i \in Instance : RecordOK(man[i].snap, i, backup'[i])
    BY <1>1, FewerCopies
  <1>3. CASE todo = {}
    <2>1. pc' = "idle" /\ man' = [man EXCEPT ![who] = m]
      BY <1>3 DEF UndoBelow, Exit
    <2>2. /\ m.steps = K /\ RecordOK(m.snap, who, backup'[who])
          /\ WriteStep \notin K => m.snap.backup = "none"
          /\ EnableStep \notin K => ~m.snap.moved
      BY <1>1, <1>2, ManifestOK, ManifestSteps
    <2>. HIDE DEF m
    <2>3. \A i \in Instance : RecordOK(man'[i].snap, i, backup'[i])
      BY <1>1, <1>2, <2>1, <2>2
    <2>4. Unrecorded'
      BY <1>1, <2>1, <2>2 DEF KeptInv, Unrecorded
    <2>5. QED  BY <2>1, <2>3, <2>4 DEF RecordsOK, RecordOK, RunOK
  <1>4. CASE todo # {}
    <2>1. pc' = "undo" /\ UNCHANGED <<who, snap, man>>
      BY <1>4 DEF UndoBelow
    <2>2. QED  BY <1>2, <2>1 DEF RecordsOK, RecordOK, RunOK, KeptInv, Unrecorded
  <1>5. QED  BY <1>3, <1>4

\* A run that has been recorded: the step's claims go to the manifest.
LEMMA RanKeeps ==
    ASSUME KeptInv, pc = "run", Ran, UNCHANGED found, snap' \in Snapshots,
           RecordOK(snap', who, backup'[who]),
           \A i \in Instance : RecordOK(man[i].snap, i, backup'[i]),
           idx # EnableStep => snap'.moved = snap.moved
    PROVE  RecordsOK' /\ Unrecorded' /\ RunOK'
  <1> DEFINE m == Manifest(snap', recorded', FALSE)
  <1>1. /\ man \in [Instance -> Manifests] /\ who \in Instance /\ recorded' \in SUBSET Steps
        /\ recorded' = recorded \cup {idx}
    BY KeptTypes DEF Ran, Steps, KeptInv, TypeInv, TypeOK, ProcessType
  <1>2. /\ m.steps = recorded' /\ RecordOK(m.snap, who, backup'[who])
        /\ WriteStep \notin recorded' => m.snap.backup = "none"
        /\ EnableStep \notin recorded' => ~m.snap.moved
    <2>1. \A s \in Snapshots : \A copies : RecordOK(s, who, copies) =>
             /\ RecordOK(Manifest(s, recorded', FALSE).snap, who, copies)
             /\ WriteStep \notin recorded' => Manifest(s, recorded', FALSE).snap.backup = "none"
             /\ EnableStep \notin recorded' => ~Manifest(s, recorded', FALSE).snap.moved
      BY <1>1, ManifestOK
    <2>2. m.steps = recorded'
      BY ManifestSteps
    <2>3. QED  BY <2>1, <2>2
  <1>3. man' = [man EXCEPT ![who] = m] /\ pc' = "snapshot" /\ who' = who
    BY DEF Ran
  <1>. HIDE DEF m
  <1>4. \A i \in Instance : RecordOK(man'[i].snap, i, backup'[i])
    BY <1>1, <1>2, <1>3
  <1>5. EnableStep \notin recorded' => ~snap'.moved
    BY <1>1 DEF KeptInv, Unrecorded
  <1>6. Unrecorded'
    BY <1>1, <1>2, <1>3, <1>5 DEF KeptInv, Unrecorded
  <1>7. QED  BY <1>3, <1>4, <1>6 DEF RecordsOK, RecordOK, RunOK

\* A run that fails: its step is undone first, by what its snapshot then says.
LEMMA FailedKeeps ==
    ASSUME KeptInv, Failed, UNCHANGED found, RecordOK(snap', who, backup'[who]),
           \A i \in Instance : RecordOK(man[i].snap, i, backup'[i])
    PROVE  RecordsOK' /\ Unrecorded' /\ RunOK'
  BY DEF Failed, RecordsOK, RecordOK, RunOK, KeptInv, Unrecorded

\* What is on disk after a run, however far it got, and what its snapshot says.
EffectOK(far) ==
    /\ VhostsKept' /\ DefaultKept' /\ FoundType'
    /\ UNCHANGED found
    /\ \A i \in Instance : RecordOK(man[i].snap, i, backup'[i])
    /\ RecordOK(Claims(far), who, backup'[who])
    /\ idx # EnableStep => Claims(far).moved = snap.moved

LEMMA InstallKeeps ==
    ASSUME KeptInv, pc = "run", ~Gated, NEW far \in 0 .. 2, idx = InstallStep, InstallEffect(far)
    PROVE  EffectOK(far)
  <1>1. /\ snap \in Snapshots /\ who \in Instance
        /\ RecordOK(snap, who, backup[who])
        /\ \A i \in Instance : RecordOK(man[i].snap, i, backup[i])
        /\ snap.installed # "Preexisting" => found.pkg # "theirs"
    BY KeptTypes DEF KeptInv, RecordsOK, RunOK
  <1>2. Claims(far) = InstallClaims(far)
    BY DEF Claims
  <1>3. /\ UNCHANGED <<vhost, backup, siteBackup, found>>
        /\ UNCHANGED <<pkg, site>> \/ (snap.installed = "Untracked" /\ site' \in {site, "link"})
    BY DEF InstallEffect, fixed
  <1>4. FoundType' /\ VhostsKept'
    BY <1>3 DEF KeptInv, FoundType, VhostsKept
  <1>5. DefaultKept'
    BY <1>1, <1>3 DEF KeptInv, DefaultKept, FoundType
  <1>6. RecordOK(InstallClaims(far), who, backup[who])
    BY <1>1 DEF RecordOK, InstallClaims, Snapshots, MadeIf, Made
  <1>7. InstallClaims(far).moved = snap.moved
    BY <1>1 DEF InstallClaims, Snapshots
  <1>8. QED  BY <1>1, <1>2, <1>3, <1>4, <1>5, <1>6, <1>7 DEF EffectOK

\* The vhost that is set aside is theirs or ours, and is there (VhostThere).
LEMMA WriteKeeps ==
    ASSUME KeptInv, pc = "run", ~Gated, NEW far \in 0 .. 2, idx = WriteStep, WriteEffect(far)
    PROVE  EffectOK(far)
  <1>1. /\ snap \in Snapshots /\ who \in Instance
        /\ vhost \in [Instance -> Whose] /\ backup \in [Instance -> SUBSET {"ours", "theirs"}]
        /\ RecordOK(snap, who, backup[who])
        /\ \A i \in Instance : RecordOK(man[i].snap, i, backup[i])
        /\ snap.vhost # "Preexisting" => found.vhost[who] # "theirs"
        /\ man[who].snap.backup = "none"
    BY KeptTypes DEF KeptInv, RecordsOK, RunOK, Unrecorded
  <1>2. Claims(far) = WriteClaims(far)
    BY DEF Claims
  <1>3. /\ UNCHANGED <<pkg, site, siteBackup, found>>
        /\ SetAside(far)
        /\ vhost' = IF far = 2 THEN [vhost EXCEPT ![who] = "ours"] ELSE vhost
    BY DEF WriteEffect, service, fixed
  <1>4. CASE far >= 1 /\ snap.vhost = "Preexisting"
    <2>1. backup' = [backup EXCEPT ![who] = @ \cup {vhost[who]}]
      BY <1>3, <1>4 DEF SetAside
    <2>2. \A i \in Instance \ {who} : vhost'[i] = vhost[i] /\ backup'[i] = backup[i]
      BY <1>1, <1>3, <2>1
    <2>3. /\ backup'[who] = backup[who] \cup {vhost[who]}
          /\ vhost'[who] \in {vhost[who], "ours"}
      BY <1>1, <1>3, <2>1
    <2>4. VhostsKept'
      BY <1>3, <2>2, <2>3 DEF KeptInv, VhostsKept
    <2>5. \A i \in Instance : RecordOK(man[i].snap, i, backup'[i])
      BY <1>1, <2>2, <2>3 DEF RecordOK
    <2>6. /\ WriteClaims(far).backup = vhost[who] /\ WriteClaims(far).vhost = "Preexisting"
          /\ WriteClaims(far).installed = snap.installed /\ WriteClaims(far).moved = snap.moved
          /\ WriteClaims(far).site = snap.site
      BY <1>1, <1>4 DEF WriteClaims, Snapshots, MadeIf, Made
    <2>7. found.vhost[who] = "theirs" /\ vhost[who] = "theirs" => "ours" \notin backup'[who]
      BY <1>1, <2>3 DEF KeptInv, VhostsKept
    <2>8. RecordOK(WriteClaims(far), who, backup'[who])
      BY <1>1, <2>6, <2>7 DEF RecordOK
    <2>9. FoundType' /\ DefaultKept'
      BY <1>3 DEF KeptInv, FoundType, DefaultKept
    <2>10. QED  BY <1>2, <1>3, <2>4, <2>5, <2>6, <2>8, <2>9 DEF EffectOK
  <1>5. CASE ~(far >= 1 /\ snap.vhost = "Preexisting")
    <2>1. backup' = backup
      BY <1>3, <1>5 DEF SetAside
    <2>2. \A i \in Instance : vhost'[i] = vhost[i] \/ found.vhost[i] # "theirs"
      BY <1>1, <1>3, <1>5
    <2>3. VhostsKept'
      BY <1>3, <2>1, <2>2 DEF KeptInv, VhostsKept
    <2>4. /\ WriteClaims(far).backup = snap.backup
          /\ WriteClaims(far).vhost = snap.vhost \/ found.vhost[who] # "theirs"
          /\ WriteClaims(far).installed = snap.installed /\ WriteClaims(far).moved = snap.moved
          /\ WriteClaims(far).site = snap.site
      BY <1>1, <1>5 DEF WriteClaims, Snapshots, MadeIf, Made
    <2>5. RecordOK(WriteClaims(far), who, backup'[who])
      BY <1>1, <2>1, <2>4 DEF RecordOK
    <2>6. FoundType' /\ DefaultKept'
      BY <1>3 DEF KeptInv, FoundType, DefaultKept
    <2>7. QED  BY <1>1, <1>2, <1>3, <2>1, <2>3, <2>4, <2>5, <2>6 DEF EffectOK
  <1>6. QED  BY <1>4, <1>5

LEMMA EnableKeeps ==
    ASSUME KeptInv, pc = "run", ~Gated, NEW far \in 0 .. 2, idx = EnableStep, EnableEffect(far)
    PROVE  EffectOK(far)
  <1>1. /\ snap \in Snapshots /\ who \in Instance
        /\ RecordOK(snap, who, backup[who])
        /\ \A i \in Instance : RecordOK(man[i].snap, i, backup[i])
        /\ snap.site = site
    BY KeptTypes DEF KeptInv, RecordsOK, RunOK
  <1>2. Claims(far) = EnableClaims(far)
    BY DEF Claims
  <1>3. UNCHANGED <<pkg, vhost, backup, found>>
    BY DEF EnableEffect, service, fixed
  <1>4. DefaultKept'
    <2>1. site' = site \/ (site' = "absent" /\ far >= 1 /\ snap.site \in {"link", "file"})
      BY DEF EnableEffect, Displaced
    <2>2. siteBackup' = (siteBackup \/ (far >= 1 /\ snap.site = "file"))
      BY DEF EnableEffect, MovedIfFile
    <2>3. QED  BY <1>1, <1>3, <2>1, <2>2 DEF KeptInv, DefaultKept
  <1>5. FoundType' /\ VhostsKept'
    BY <1>3 DEF KeptInv, FoundType, VhostsKept
  <1>6. /\ EnableClaims(far).installed = snap.installed /\ EnableClaims(far).vhost = snap.vhost
        /\ EnableClaims(far).backup = snap.backup /\ EnableClaims(far).site = snap.site
        /\ EnableClaims(far).moved => snap.moved \/ snap.site = "file"
    BY <1>1 DEF EnableClaims, MovedIfFile, Snapshots
  <1>7. RecordOK(EnableClaims(far), who, backup[who])
    BY <1>1, <1>6 DEF RecordOK
  <1>8. QED  BY <1>1, <1>2, <1>3, <1>4, <1>5, <1>7 DEF EffectOK

\* The other steps touch no file of the customer's.
LEMMA OthersKeep ==
    ASSUME KeptInv, pc = "run", ~Gated, NEW far \in 0 .. 2, Effect(far),
           idx \notin {InstallStep, WriteStep, EnableStep}
    PROVE  EffectOK(far)
  <1>1. /\ snap \in Snapshots /\ who \in Instance
        /\ RecordOK(snap, who, backup[who])
        /\ \A i \in Instance : RecordOK(man[i].snap, i, backup[i])
    BY KeptTypes DEF KeptInv, RecordsOK
  <1>2. UNCHANGED <<pkg, vhost, backup, site, siteBackup, found>>
    BY DEF Effect, SelinuxEffect, FirewallEffect, ReloadEffect, world, service, files, fixed
  <1>3. FoundType' /\ VhostsKept' /\ DefaultKept'
    BY <1>2 DEF KeptInv, FoundType, VhostsKept, DefaultKept
  <1>4. idx \in {Base, SelinuxStep, FirewallStep, ReloadStep}
    BY DEF Effect
  <1>5. /\ Claims(far).installed = snap.installed /\ Claims(far).vhost = snap.vhost
        /\ Claims(far).backup = snap.backup /\ Claims(far).site = snap.site
        /\ Claims(far).moved = snap.moved
    <2>1. Claims(far) \in {SelinuxClaims(far), ReloadClaims(far), snap}
      BY <1>4 DEF Claims
    <2>2. QED  BY <1>1, <2>1 DEF SelinuxClaims, ReloadClaims, Snapshots
  <1>6. RecordOK(Claims(far), who, backup[who])
    BY <1>1, <1>5 DEF RecordOK
  <1>7. QED  BY <1>1, <1>2, <1>3, <1>5, <1>6 DEF EffectOK

LEMMA EffectKeeps ==
    ASSUME KeptInv, pc = "run", ~Gated, NEW far \in 0 .. 2, Effect(far)
    PROVE  EffectOK(far)
  <1>1. CASE idx = InstallStep
    BY <1>1, InstallKeeps DEF Effect
  <1>2. CASE idx = WriteStep
    BY <1>2, WriteKeeps DEF Effect
  <1>3. CASE idx = EnableStep
    BY <1>3, EnableKeeps DEF Effect
  <1>4. QED  BY <1>1, <1>2, <1>3, OthersKeep

-----------------------------------------------------------------------------
\* All of the invariant but the types.
Kept3 == /\ FoundType /\ VhostsKept /\ DefaultKept
         /\ RecordsOK /\ Unrecorded /\ RunOK

\* A step that leaves the files alone.
LEMMA FilesUnchanged ==
    ASSUME KeptInv, UNCHANGED world
    PROVE  FoundType' /\ VhostsKept' /\ DefaultKept' /\ UNCHANGED <<found, backup>>
  BY DEF KeptInv, FoundType, VhostsKept, DefaultKept, world, service, files, fixed

LEMMA BeginsKeep ==
    ASSUME KeptInv, NEW i \in Instance, Install(i) \/ Rollback(i)
    PROVE  Kept3'
  <1>1. /\ UNCHANGED <<world, man>> /\ who' = i
        /\ snap' = man[i].snap /\ recorded' = man[i].steps /\ pc' # "run"
    BY DEF Install, Rollback, Begin, BeginRollback, Take
  <1>2. FoundType' /\ VhostsKept' /\ DefaultKept' /\ UNCHANGED <<found, backup>>
    BY <1>1, FilesUnchanged
  <1>3. RecordsOK'
    BY <1>1, <1>2 DEF KeptInv, RecordsOK, RecordOK
  <1>4. Unrecorded'
    BY <1>1 DEF KeptInv, Unrecorded
  <1>5. QED  BY <1>1, <1>2, <1>3, <1>4 DEF Kept3, RunOK

LEMMA EnginesKeep ==
    ASSUME KeptInv, Stops \/ Skip \/ Finish \/ LeaveShared
    PROVE  Kept3'
  <1>1. UNCHANGED world
    BY DEF Stops, Skip, Finish, LeaveShared
  <1>2. FoundType' /\ VhostsKept' /\ DefaultKept' /\ UNCHANGED <<found, backup>>
    BY <1>1, FilesUnchanged
  <1>3. /\ man \in [Instance -> Manifests] /\ who \in Instance /\ recorded \in SUBSET Steps
        /\ \A i \in Instance : backup[i] \in SUBSET {"ours", "theirs"}
    BY KeptTypes
  <1>4. CASE Stops \/ LeaveShared
    <2>1. UndoBelow(idx, recorded) /\ pc # "idle"
      BY <1>4 DEF Stops, LeaveShared
    <2>2. RecordsOK' /\ Unrecorded' /\ RunOK'
      BY <1>2, <1>3, <2>1, UndoBelowKeeps
    <2>3. QED  BY <1>2, <2>2 DEF Kept3
  <1>5. CASE Skip
    BY <1>2, <1>5 DEF Skip, Kept3, KeptInv, RecordsOK, RecordOK, Unrecorded, RunOK
  <1>6. CASE Finish
    <2>1. /\ pc' = "idle"
          /\ \A i \in Instance : man'[i].steps = man[i].steps /\ man'[i].snap = man[i].snap
      BY <1>3, <1>6 DEF Finish, Finished, Exit, Manifests
    <2>2. QED  BY <1>2, <2>1 DEF Kept3, KeptInv, RecordsOK, RecordOK, Unrecorded, RunOK
  <1>7. QED  BY <1>4, <1>5, <1>6

LEMMA SnapshotsKeep ==
    ASSUME KeptInv,
           \/ SnapshotBase \/ SnapshotInstall \/ SnapshotWrite \/ SnapshotEnable
           \/ SnapshotSelinux \/ SnapshotFirewall \/ SnapshotReload
    PROVE  Kept3'
  <1>1. /\ pc = "snapshot" /\ idx \notin recorded
        /\ Snapshotted(snap') /\ UNCHANGED <<who, idx, recorded, man>> /\ pc' = "run"
    BY DEF SnapshotBase, SnapshotInstall, SnapshotWrite, SnapshotEnable, SnapshotSelinux,
           SnapshotFirewall, SnapshotReload, At, Snapshotted
  <1>2. UNCHANGED world
    BY <1>1 DEF Snapshotted
  <1>3. FoundType' /\ VhostsKept' /\ DefaultKept' /\ UNCHANGED <<found, backup, vhost, pkg, site>>
    BY <1>2, FilesUnchanged DEF world, files, service
  <1>4. /\ snap \in Snapshots /\ who \in Instance
        /\ RecordOK(snap, who, backup[who])
        /\ \A i \in Instance : RecordOK(man[i].snap, i, backup[i])
        /\ recorded = man[who].steps /\ (EnableStep \notin recorded => ~snap.moved)
    BY <1>1, KeptTypes DEF KeptInv, RecordsOK, Unrecorded
  <1>5. Gated' <=> Gated
    BY <1>1 DEF Gated
  <1>6. /\ snap'.moved = snap.moved
        /\ RecordOK(snap', who, backup[who])
        /\ ~Gated =>
              /\ idx = InstallStep /\ snap'.installed # "Preexisting" => found.pkg # "theirs"
              /\ idx = WriteStep /\ snap'.vhost # "Preexisting" => found.vhost[who] # "theirs"
              /\ idx = EnableStep => snap'.site = site
    <2>1. CASE snap' = snap /\ (Gated \/ idx \notin {InstallStep, WriteStep, EnableStep})
      BY <1>4, <2>1
    <2>2. CASE SnapshotInstall /\ ~Gated
      <3>1. /\ idx = InstallStep /\ snap'.installed = Verdict(pkg # "absent")
            /\ snap'.vhost = snap.vhost /\ snap'.backup = snap.backup
            /\ snap'.site = snap.site /\ snap'.moved = snap.moved
        BY <1>4, <2>2 DEF SnapshotInstall, At, Snapshotted, Snapshots
      <3>2. snap'.installed # "CreatedByUs"
        BY <3>1 DEF Verdict
      <3>3. snap'.installed # "Preexisting" => found.pkg # "theirs"
        BY <3>1 DEF Verdict, KeptInv, DefaultKept
      <3>4. RecordOK(snap', who, backup[who])
        BY <1>4, <3>1, <3>2 DEF RecordOK
      <3>5. QED  BY <3>1, <3>3, <3>4
    <2>3. CASE SnapshotWrite /\ ~Gated
      <3>1. /\ idx = WriteStep /\ snap'.vhost = Verdict(vhost[who] # "absent")
            /\ snap'.installed = snap.installed /\ snap'.backup = snap.backup
            /\ snap'.site = snap.site /\ snap'.moved = snap.moved
        BY <1>4, <2>3 DEF SnapshotWrite, At, Snapshotted, Snapshots
      <3>2. snap'.vhost # "CreatedByUs"
        BY <3>1 DEF Verdict
      <3>3. snap'.vhost # "Preexisting" => found.vhost[who] # "theirs"
        BY <1>4, <3>1 DEF Verdict, KeptInv, VhostsKept
      <3>4. RecordOK(snap', who, backup[who])
        BY <1>4, <3>1, <3>2 DEF RecordOK
      <3>5. QED  BY <3>1, <3>3, <3>4
    <2>4. CASE SnapshotEnable /\ ~Gated
      <3>1. /\ idx = EnableStep /\ snap'.site = site
            /\ snap'.installed = snap.installed /\ snap'.backup = snap.backup
            /\ snap'.vhost = snap.vhost /\ snap'.moved = snap.moved
        BY <1>4, <2>4 DEF SnapshotEnable, At, Snapshotted, Snapshots
      <3>2. ~snap.moved
        BY <1>1, <1>4, <3>1
      <3>3. RecordOK(snap', who, backup[who])
        BY <1>4, <3>1, <3>2 DEF RecordOK, KeptInv, DefaultKept
      <3>4. QED  BY <3>1, <3>3
    <2>5. CASE ~(SnapshotInstall \/ SnapshotWrite \/ SnapshotEnable)
      <3>1. idx \notin {InstallStep, WriteStep, EnableStep}
        BY <2>5 DEF SnapshotBase, SnapshotSelinux, SnapshotFirewall, SnapshotReload, At
      <3>2. /\ snap'.installed = snap.installed /\ snap'.backup = snap.backup
            /\ snap'.vhost = snap.vhost /\ snap'.moved = snap.moved /\ snap'.site = snap.site
        BY <1>4, <2>5 DEF SnapshotBase, SnapshotSelinux, SnapshotFirewall, SnapshotReload,
                          Snapshotted, Snapshots
      <3>3. RecordOK(snap', who, backup[who])
        BY <1>4, <3>2 DEF RecordOK
      <3>4. QED  BY <3>1, <3>2, <3>3
    <2>6. (SnapshotInstall \/ SnapshotWrite \/ SnapshotEnable) /\ Gated => snap' = snap
      BY DEF SnapshotInstall, SnapshotWrite, SnapshotEnable, Snapshotted
    <2>7. QED  BY <2>1, <2>2, <2>3, <2>4, <2>5, <2>6
  <1>7. RecordsOK'
    BY <1>1, <1>3, <1>4, <1>6 DEF RecordsOK, RecordOK
  <1>8. Unrecorded'
    BY <1>1, <1>4, <1>6 DEF KeptInv, Unrecorded
  <1>9. RunOK'
    BY <1>1, <1>3, <1>5, <1>6 DEF RunOK
  <1>10. QED  BY <1>3, <1>7, <1>8, <1>9 DEF Kept3

LEMMA RunsKeep ==
    ASSUME KeptInv, RunStep  PROVE Kept3'
  <1>1. pc = "run" /\ snap' \in Snapshots
    BY RunsType DEF RunStep, KeptInv, TypeInv, TypeOK, ProcessType
  <1>2. /\ snap \in Snapshots /\ who \in Instance
        /\ RecordOK(snap, who, backup[who])
        /\ \A i \in Instance : RecordOK(man[i].snap, i, backup[i])
    BY <1>1, KeptTypes DEF KeptInv, RecordsOK
  <1>3. /\ FoundType' /\ VhostsKept' /\ DefaultKept' /\ UNCHANGED found
        /\ \A i \in Instance : RecordOK(man[i].snap, i, backup'[i])
        /\ RecordOK(snap', who, backup'[who])
        /\ idx # EnableStep => snap'.moved = snap.moved
    <2>1. CASE Gated
      <3>1. UNCHANGED <<world, snap>>
        BY <2>1 DEF RunStep
      <3>2. QED  BY <1>2, <3>1, FilesUnchanged
    <2>2. CASE ~Gated
      <3>1. Effect(2) /\ snap' = Claims(2) /\ 2 \in 0 .. 2
        BY <2>2 DEF RunStep
      <3>2. EffectOK(2)
        BY <1>1, <2>2, <3>1, EffectKeeps
      <3>3. QED  BY <3>1, <3>2 DEF EffectOK
    <2>3. QED  BY <2>1, <2>2
  <1>4. Ran
    BY DEF RunStep
  <1>5. RecordsOK' /\ Unrecorded' /\ RunOK'
    BY <1>1, <1>3, <1>4, RanKeeps
  <1>6. QED  BY <1>3, <1>5 DEF Kept3

LEMMA FailuresKeep ==
    ASSUME KeptInv, RunFails \/ HalfInstalled  PROVE Kept3'
  <1>1. pc = "run" /\ ~Gated /\ Failed
    BY DEF RunFails, HalfInstalled, Running
  <1>2. PICK far \in 0 .. 2 : /\ Effect(far)
                              /\ snap' = Claims(far) \/ (snap' = snap /\ UNCHANGED backup)
    <2>1. CASE RunFails
      BY <1>1, <2>1 DEF RunFails, FailsAt, Effect
    <2>2. CASE HalfInstalled
      <3>1. idx = InstallStep /\ InstallEffect(1) /\ snap' \in {snap, InstallClaims(1)} /\ 1 \in 0 .. 2
        BY <2>2 DEF HalfInstalled, Running
      <3>2. Effect(1) /\ Claims(1) = InstallClaims(1) /\ UNCHANGED backup
        BY <3>1 DEF Effect, Claims, InstallEffect
      <3>3. QED  BY <3>1, <3>2
    <2>3. QED  BY <2>1, <2>2
  <1>3. EffectOK(far)
    BY <1>1, <1>2, EffectKeeps
  <1>4. RecordOK(snap, who, backup[who])
    BY <1>1 DEF KeptInv, RecordsOK
  <1>5. RecordOK(snap', who, backup'[who])
    BY <1>2, <1>3, <1>4 DEF EffectOK
  <1>6. RecordsOK' /\ Unrecorded' /\ RunOK'
    BY <1>1, <1>3, <1>5, FailedKeeps DEF EffectOK
  <1>7. QED  BY <1>3, <1>6 DEF EffectOK, Kept3


-----------------------------------------------------------------------------
LEMMA UndoneKeeps ==
    ASSUME KeptInv, pc = "undo", Undone, UNCHANGED found,
           \A i \in Instance : backup'[i] \in SUBSET backup[i]
    PROVE  RecordsOK' /\ Unrecorded' /\ RunOK'
  <1>1. recorded \in SUBSET Steps /\ recorded \ {idx} \in SUBSET Steps
    BY KeptTypes
  <1>2. UndoBelow(idx, recorded) \/ UndoBelow(idx, recorded \ {idx})
    BY DEF Undone
  <1>3. pc # "idle"
    OBVIOUS
  <1>4. QED  BY <1>1, <1>2, <1>3, UndoBelowKeeps

LEMMA UndosKeep ==
    ASSUME KeptInv,
           \/ UndoBase \/ UndoInstall \/ UndoWrite \/ UndoEnable
           \/ UndoSelinux \/ UndoFirewall \/ UndoReload
    PROVE  Kept3'
  <1>1. pc = "undo" /\ Undone /\ UNCHANGED found
    BY DEF UndoBase, UndoInstall, UndoWrite, UndoEnable, UndoSelinux, UndoFirewall, UndoReload,
           Undoing, world, fixed
  <1>2. /\ snap \in Snapshots /\ who \in Instance
        /\ vhost \in [Instance -> Whose] /\ backup \in [Instance -> SUBSET {"ours", "theirs"}]
        /\ RecordOK(snap, who, backup[who])
    BY <1>1, KeptTypes DEF KeptInv, RecordsOK
  <1>3. FoundType'
    BY <1>1 DEF KeptInv, FoundType
  <1>4. VhostsKept' /\ (\A i \in Instance : backup'[i] \in SUBSET backup[i])
    <2>1. CASE UndoWrite
      <3>1. CASE /\ snap.vhost = "CreatedByUs"
                 /\ vhost' = [vhost EXCEPT ![who] = "absent"] /\ UNCHANGED backup
        <4>1. found.vhost[who] # "theirs"
          BY <1>2, <3>1 DEF RecordOK
        <4>2. QED  BY <1>1, <1>2, <3>1, <4>1 DEF KeptInv, VhostsKept
      <3>2. CASE /\ snap.backup \in backup[who]
                 /\ vhost' = [vhost EXCEPT ![who] = snap.backup]
                 /\ backup' = [backup EXCEPT ![who] = @ \ {snap.backup}]
        <4>1. \A i \in Instance \ {who} : vhost'[i] = vhost[i] /\ backup'[i] = backup[i]
          BY <1>2, <3>2
        <4>2. /\ backup'[who] = backup[who] \ {snap.backup}
              /\ vhost'[who] = snap.backup /\ snap.backup \in {"ours", "theirs"}
          BY <1>2, <3>2
        <4>3. VhostsKept'
          BY <1>1, <1>2, <3>2, <4>1, <4>2 DEF KeptInv, VhostsKept, RecordOK
        <4>4. QED  BY <4>1, <4>2, <4>3
      <3>3. CASE UNCHANGED <<vhost, backup>>
        BY <1>1, <3>3 DEF KeptInv, VhostsKept
      <3>4. QED  BY <2>1, <3>1, <3>2, <3>3 DEF UndoWrite
    <2>2. CASE ~UndoWrite
      <3>1. UNCHANGED <<vhost, backup>>
        BY <2>2 DEF UndoBase, UndoInstall, UndoEnable, UndoSelinux, UndoFirewall, UndoReload,
                    world, files
      <3>2. QED  BY <1>1, <3>1 DEF KeptInv, VhostsKept
    <2>3. QED  BY <2>1, <2>2
  <1>5. DefaultKept'
    <2>1. CASE UndoEnable
      <3>1. UNCHANGED <<pkg, found>>
        BY <2>1 DEF UndoEnable, service, fixed
      <3>2. \/ UNCHANGED <<site, siteBackup>>
            \/ /\ snap.site = "link" \/ (snap.moved /\ siteBackup)
               /\ site' = snap.site /\ siteBackup' = (siteBackup /\ ~snap.moved)
        BY <2>1 DEF UndoEnable
      <3>3. QED  BY <1>2, <3>1, <3>2 DEF KeptInv, DefaultKept, RecordOK
    <2>2. CASE UndoInstall
      <3>1. UNCHANGED <<siteBackup, found>>
        BY <2>2 DEF UndoInstall, fixed
      <3>2. UNCHANGED <<pkg, site>> \/ snap.installed = "CreatedByUs"
        BY <2>2 DEF UndoInstall
      <3>3. found.pkg = "theirs" => UNCHANGED <<pkg, site>>
        BY <1>2, <3>2 DEF RecordOK
      <3>4. QED  BY <3>1, <3>3 DEF KeptInv, DefaultKept, FoundType
    <2>3. CASE ~(UndoEnable \/ UndoInstall)
      <3>1. UNCHANGED <<pkg, site, siteBackup>>
        BY <2>3 DEF UndoBase, UndoWrite, UndoSelinux, UndoFirewall, UndoReload, world, files, service
      <3>2. QED  BY <1>1, <3>1 DEF KeptInv, DefaultKept
    <2>4. QED  BY <2>1, <2>2, <2>3
  <1>6. RecordsOK' /\ Unrecorded' /\ RunOK'
    BY <1>1, <1>4, UndoneKeeps
  <1>7. QED  BY <1>3, <1>4, <1>5, <1>6 DEF Kept3

LEMMA DieKeeps ==
    ASSUME KeptInv, Die  PROVE Kept3'
  <1>1. pc # "idle" /\ pc' = "idle" /\ UNCHANGED man
    BY DEF Die, Dies, Exit
  <1>2. /\ FoundType' /\ VhostsKept' /\ DefaultKept' /\ UNCHANGED found
        /\ \A i \in Instance : RecordOK(man[i].snap, i, backup'[i])
    <2>1. CASE UNCHANGED world
      BY <2>1, FilesUnchanged DEF KeptInv, RecordsOK
    <2>2. CASE pc = "run" /\ ~Gated /\ \E far \in 0 .. 2 : Effect(far)
      <3>1. PICK far \in 0 .. 2 : Effect(far)
        BY <2>2
      <3>2. EffectOK(far)
        BY <2>2, <3>1, EffectKeeps
      <3>3. QED  BY <3>2 DEF EffectOK
    <2>3. QED  BY <2>1, <2>2 DEF Die
  <1>3. QED  BY <1>1, <1>2 DEF Kept3, RecordsOK, RecordOK, KeptInv, Unrecorded, RunOK

LEMMA InitKept == Init => KeptInv
  <1> SUFFICES ASSUME Init  PROVE KeptInv
    OBVIOUS
  <1>1. TypeInv
    BY InitType
  <1>2. /\ found.pkg = pkg /\ found.vhost = vhost /\ found.site = site
        /\ pkg \in {"absent", "theirs"}
        /\ vhost \in [Instance -> {"absent", "theirs"}] /\ (site # "absent" => pkg = "theirs")
        /\ backup = [i \in Instance |-> {}]
    BY DEF Init
  <1>3. FoundType /\ DefaultKept
    BY <1>2 DEF FoundType, DefaultKept, Whose
  <1>4. VhostsKept
    BY <1>2 DEF VhostsKept
  <1>5. pc = "idle" /\ \A i \in Instance : man[i].snap = Default
    BY DEF Init, Start, NoManifest
  <1>6. \A i \in Instance : RecordOK(Default, i, backup[i])
    BY DEF RecordOK, Default
  <1>7. RecordsOK /\ Unrecorded /\ RunOK
    BY <1>5, <1>6 DEF RecordsOK, Unrecorded, RunOK, Default
  <1>8. QED  BY <1>1, <1>3, <1>4, <1>7 DEF KeptInv

LEMMA NextKept == KeptInv /\ [Next]_vars => KeptInv'
  <1> SUFFICES ASSUME KeptInv, [Next]_vars  PROVE KeptInv'
    OBVIOUS
  <1>1. TypeInv'
    BY NextType DEF KeptInv
  <1>2. CASE UNCHANGED vars
    BY <1>1, <1>2 DEF KeptInv, FoundType, VhostsKept, DefaultKept, RecordsOK, RecordOK, Unrecorded,
       RunOK, Gated, vars, world, service, files, fixed
  <1>3. CASE Next
    <2>1. Kept3'
      BY <1>3, BeginsKeep, EnginesKeep, SnapshotsKeep, RunsKeep, FailuresKeep, UndosKeep, DieKeeps
         DEF Next
    <2>2. QED  BY <1>1, <2>1 DEF KeptInv, Kept3
  <1>4. QED  BY <1>2, <1>3

\* Whatever instances come and go, with whatever deaths and failed undos, what
\* the customer had written is in its place or in a copy.
THEOREM NginxCustomerConfigKept == Spec => []CustomerConfigKept
  <1>1. KeptInv => CustomerConfigKept
    BY DEF KeptInv, VhostsKept, DefaultKept, CustomerConfigKept
  <1>2. QED  BY <1>1, InitKept, NextKept, PTL DEF Spec

-----------------------------------------------------------------------------
(* What a command finds, and what it leaves, when nothing fails on the way. *)

\* The process of an instance holds its snapshots and its records; without one
\* they are in the manifest.  The step a failure came in is undone like one
\* that is recorded.
Busy(i) == pc # "idle" /\ who = i

Held(i) == IF Busy(i) THEN snap ELSE man[i].snap

Done(i) ==
    IF ~Busy(i) THEN man[i].steps
    ELSE IF pc = "undo" THEN recorded \cup {idx} ELSE recorded

\* The steps whose records others may hold back.
Lasting == {InstallStep, SelinuxStep, FirewallStep}

\* A snapshot says something of the steps K only.
Blank(s, K) == \A k \in Steps \ K : \A f \in Fields(k) : s[f] = Default[f]

\* While a process is at work the others are those it found when it began.
Current == pc # "idle" => others = LiveOthers(who)

\* Without faults a manifest is that of a whole installation or of what others
\* held back.  What is recorded beyond the step a process is at was held back
\* before, and what is undone of an instance's own steps is undone from the last.
Orderly ==
    /\ \A i \in Instance : ~Busy(i) /\ ~man[i].finished => man[i].steps \subseteq Lasting
    /\ \A i \in Instance : /\ man[i].finished => man[i].steps = Steps
                           /\ Blank(man[i].snap, man[i].steps)
    /\ pc \in {"snapshot", "run"} =>
          /\ recorded = man[who].steps /\ ~man[who].finished
          /\ {k \in Steps : k < idx} \subseteq recorded
          /\ \A k \in recorded : k < idx \/ k \in Lasting
          /\ \A k \in recorded : \A f \in Fields(k) : man[who].snap[f] = snap[f]
          /\ Blank(snap, IF pc = "run" THEN recorded \cup {idx} ELSE recorded)
          /\ pc = "run" => idx \notin recorded
    /\ pc = "undo" =>
          /\ \A k \in recorded : k > idx => k \in Lasting
          /\ \A k \in recorded \cup {idx} : k \notin Lasting => {l \in Steps : l < k} \subseteq recorded
          /\ idx \notin recorded /\ idx \in Lasting /\ others # {} => spoilt

LEMMA ProcessTypes ==
    ASSUME TypeOK
    PROVE  /\ man \in [Instance -> Manifests] /\ who \in Instance /\ snap \in Snapshots
           /\ recorded \in SUBSET Steps /\ idx \in 1 .. 8 /\ others \subseteq Instance
           /\ pc \in {"idle", "snapshot", "run", "undo"}
           /\ pc \in {"run", "undo"} => idx \in Steps
  BY DEF TypeOK, ProcessType, Manifests

\* What an undo does not do is a fault.
LEMMA AllDone ==
    ASSUME TypeOK, faults = 0, faults' = 0, NEW all, IsFiniteSet(all), NEW done \in Parts(all), Cost(done, all)
    PROVE  all \subseteq done
  <1>1. IsFiniteSet(all \ done)
    BY FS_Difference
  <1>2. Cardinality(all \ done) \in Nat
    BY <1>1, FS_CardinalityType
  <1>3. Cardinality(all \ done) = 0
    BY <1>2 DEF Cost
  <1>4. all \ done = {}
    BY <1>1, <1>3, FS_EmptySet
  <1>5. QED  BY <1>4

LEMMA CostQuiet ==
    ASSUME TypeOK, faults' = 0, NEW all, IsFiniteSet(all), NEW done \in Parts(all), Cost(done, all)
    PROVE  faults = 0
  <1>1. Cardinality(all \ done) \in Nat
    BY FS_Difference, FS_CardinalityType
  <1>2. faults \in Nat
    BY FaultsAssumption DEF TypeOK, ProcessType
  <1>3. QED  BY <1>1, <1>2 DEF Cost

LEMMA TwoParts == IsFiniteSet({"link", "site"})
  <1>1. {"link", "site"} = {"link", "site", "link", "site"}
    OBVIOUS
  <1>2. QED  BY <1>1, SmallSets

LEMMA FewPorts ==
    ASSUME TypeOK  PROVE IsFiniteSet(snap.delta)
  <1>1. PICK n \in Nat : n = 443
    OBVIOUS
  <1>2. IsFiniteSet(1 .. n)
    BY FS_Interval
  <1>3. snap.delta \in SUBSET (1 .. n)
    BY <1>1 DEF TypeOK, ProcessType, Snapshots, Port
  <1>4. QED  BY <1>2, <1>3, FS_Subset

\* A fault is not undone.
LEMMA QuietBefore ==
    ASSUME TypeOK, Next, faults' = 0
    PROVE  faults = 0 /\ ~Fault
  <1>1. faults \in Nat
    BY FaultsAssumption DEF TypeOK, ProcessType
  <1>2. ~Fault
    BY <1>1 DEF Fault
  <1>3. CASE UndoInstall
    <2>1. PICK done \in Parts({"stop", "disable", "purge", "reload"}) :
             Cost(done, {"stop", "disable", "purge", "reload"})
      BY <1>3 DEF UndoInstall
    <2>2. QED  BY <1>2, <2>1, CostQuiet, SmallSets
  <1>4. CASE UndoEnable
    <2>1. PICK done \in Parts({"link", "site"}) : Cost(done, {"link", "site"})
      BY <1>4 DEF UndoEnable
    <2>2. QED  BY <1>2, <2>1, CostQuiet, TwoParts
  <1>5. CASE UndoFirewall
    <2>1. PICK done \in Parts(snap.delta) : Cost(done, snap.delta)
      BY <1>5 DEF UndoFirewall
    <2>2. QED  BY <1>2, <2>1, CostQuiet, FewPorts
  <1>6. CASE ~(UndoInstall \/ UndoEnable \/ UndoFirewall)
    BY <1>2, <1>6 DEF Next, Install, Rollback, Begin, BeginRollback, Stops, Skip, Finish, Finished,
       SnapshotBase, SnapshotInstall, SnapshotWrite, SnapshotEnable, SnapshotSelinux, SnapshotFirewall,
       SnapshotReload, Snapshotted, RunStep, Ran, RunFails, HalfInstalled, LeaveShared, UndoBase,
       UndoWrite, UndoSelinux, UndoReload, Die, Dies
  <1>7. QED  BY <1>2, <1>3, <1>4, <1>5, <1>6

LEMMA FieldsAre ==
    /\ Fields(1) = {} /\ Fields(2) = {"installed", "enabled"} /\ Fields(3) = {"vhost", "backup"}
    /\ Fields(4) = {"link", "site", "moved"} /\ Fields(5) = {"switch"} /\ Fields(6) = {"delta"}
    /\ Fields(7) = {"active"}
    /\ \A k \in Steps : Fields(k) \subseteq DOMAIN Default
  <1>1. /\ Fields(1) = {} /\ Fields(2) = {"installed", "enabled"} /\ Fields(3) = {"vhost", "backup"}
        /\ Fields(4) = {"link", "site", "moved"} /\ Fields(5) = {"switch"} /\ Fields(6) = {"delta"}
        /\ Fields(7) = {"active"}
    BY DEF Fields
  <1>2. Steps = {1, 2, 3, 4, 5, 6, 7}
    BY DEF Steps
  <1>3. DOMAIN Default = {"installed", "enabled", "vhost", "backup", "link", "site", "moved", "switch",
                          "delta", "active"}
    BY DEF Default
  <1>4. QED  BY <1>1, <1>2, <1>3

LEMMA FieldsApart ==
    \A k, l \in Steps : k # l => Fields(k) \cap Fields(l) = {}
  <1>1. Steps = {1, 2, 3, 4, 5, 6, 7}
    BY DEF Steps
  <1>2. QED  BY <1>1, FieldsAre

\* A manifest says what it is told of the steps it records, and nothing of others.
LEMMA RecordsHold ==
    ASSUME NEW s, NEW K \in SUBSET Steps
    PROVE  /\ \A k \in K : \A f \in Fields(k) : Records(s, K)[f] = s[f]
           /\ Blank(Records(s, K), K)
  <1>1. ASSUME NEW k \in K, NEW f \in Fields(k)  PROVE Records(s, K)[f] = s[f]
    <2>1. f \in DOMAIN Default
      BY FieldsAre
    <2>2. QED  BY <2>1 DEF Records
  <1>2. ASSUME NEW k \in Steps \ K, NEW f \in Fields(k)  PROVE Records(s, K)[f] = Default[f]
    <2>1. f \in DOMAIN Default
      BY FieldsAre
    <2>2. ~\E l \in K : f \in Fields(l)
      BY FieldsApart
    <2>3. QED  BY <2>1, <2>2 DEF Records
  <1>3. QED  BY <1>1, <1>2 DEF Blank

LEMMA ManifestHolds ==
    ASSUME NEW s, NEW K \in SUBSET Steps
    PROVE  /\ Manifest(s, K, FALSE).steps = K
           /\ \A k \in K : \A f \in Fields(k) : Manifest(s, K, FALSE).snap[f] = s[f]
           /\ Blank(Manifest(s, K, FALSE).snap, K)
           /\ Manifest(s, K, FALSE).finished = FALSE
  <1>1. CASE K = {}
    BY <1>1 DEF Manifest, NoManifest, Blank
  <1>2. CASE K # {}
    BY <1>2, RecordsHold DEF Manifest
  <1>3. QED  BY <1>1, <1>2

\* i has done the steps K afterwards and holds of them what it held.
Retains(i, K) ==
    /\ Done(i)' = K
    /\ \A k \in K : \A f \in Fields(k) : Held(i)'[f] = Held(i)[f]

AllRetain == \A i \in Instance : Retains(i, Done(i))

\* The step the process is at has been done as well.
Joins(w) ==
    /\ idx \notin Done(w) /\ Done(w)' = Done(w) \cup {idx}
    /\ Held(w) = snap /\ Held(w)' = snap'
    /\ \A i \in Instance \ {w} : Retains(i, Done(i))

\* Who is not at work holds what its manifest says.
LEMMA IdleRetains ==
    ASSUME NEW i \in Instance, ~Busy(i), ~Busy(i)', man'[i] = man[i]
    PROVE  Retains(i, Done(i))
  BY DEF Retains, Done, Held

\* An installation begins with what others held back, a rollback with the last step.
LEMMA BeginOrderly ==
    ASSUME TypeOK, Orderly, NEW i \in Instance, Install(i)
    PROVE  Orderly' /\ AllRetain /\ recorded' \subseteq Lasting
  <1>1. /\ pc = "idle" /\ pc' = "snapshot" /\ idx' = 1 /\ who' = i
        /\ snap' = man[i].snap /\ recorded' = man[i].steps
        /\ UNCHANGED man /\ ~man[i].finished
    BY DEF Install, Begin, Take
  <1>2. man[i].steps \subseteq Lasting /\ Blank(man[i].snap, man[i].steps)
    BY <1>1 DEF Orderly, Busy
  <1>3. \A j \in Instance : ~Busy(j)
    BY <1>1 DEF Busy
  <1>4. {k \in Steps : k < idx'} = {}
    BY <1>1 DEF Steps
  <1>5. Blank(snap', recorded')
    BY <1>1, <1>2 DEF Blank
  <1>6. Orderly'
    BY <1>1, <1>2, <1>3, <1>4, <1>5 DEF Orderly, Blank
  <1>7. Retains(i, Done(i))
    BY <1>1 DEF Retains, Done, Held, Busy
  <1>8. \A j \in Instance \ {i} : Retains(j, Done(j))
    BY <1>1, IdleRetains DEF Busy
  <1>9. QED  BY <1>1, <1>2, <1>6, <1>7, <1>8 DEF AllRetain

LEMMA BeginRollbackOrderly ==
    ASSUME TypeOK, Orderly, NEW i \in Instance, Rollback(i)
    PROVE  Orderly' /\ AllRetain /\ idx' \in recorded'
  <1>1. /\ pc = "idle" /\ pc' = "undo" /\ idx' = Max(man[i].steps) /\ who' = i
        /\ snap' = man[i].snap /\ recorded' = man[i].steps
        /\ UNCHANGED man /\ man[i].steps # {}
    BY DEF Rollback, BeginRollback, Take
  <1>2. man[i].steps \in SUBSET Steps
    BY ProcessTypes DEF Manifests
  <1>3. idx' \in man[i].steps /\ \A k \in man[i].steps : ~(k > idx')
    BY <1>1, <1>2, MaxIn
  <1>4. \A j \in Instance : ~Busy(j)
    BY <1>1 DEF Busy
  <1>5. \A k \in man[i].steps : k \notin Lasting => {l \in Steps : l < k} \subseteq man[i].steps
    <2>1. man[i].finished => man[i].steps = Steps
      BY DEF Orderly
    <2>2. ~man[i].finished => man[i].steps \subseteq Lasting
      BY <1>4 DEF Orderly
    <2>3. QED  BY <2>1, <2>2
  <1>6. Orderly'
    <2>1. \A j \in Instance : /\ man'[j].finished => man'[j].steps = Steps
                              /\ Blank(man'[j].snap, man'[j].steps)
      BY <1>1 DEF Orderly
    <2>2. \A j \in Instance : ~man'[j].finished => man'[j].steps \subseteq Lasting
      BY <1>1, <1>4 DEF Orderly
    <2>3. recorded' \cup {idx'} = man[i].steps /\ recorded' = man[i].steps
      BY <1>1, <1>3
    <2>4. \A k \in recorded' \cup {idx'} : k \notin Lasting => {l \in Steps : l < k} \subseteq recorded'
      BY <1>5, <2>3
    <2>5. QED
      BY <1>1, <1>3, <2>1, <2>2, <2>4 DEF Orderly, Blank
  <1>7. Retains(i, Done(i))
    BY <1>1, <1>3 DEF Retains, Done, Held, Busy
  <1>8. \A j \in Instance \ {i} : Retains(j, Done(j))
    BY <1>1, IdleRetains DEF Busy
  <1>9. QED  BY <1>1, <1>3, <1>6, <1>7, <1>8 DEF AllRetain

\* What is undone next, or left when the process ends.
LEMMA UndoBelowOrderly ==
    ASSUME TypeOK, Orderly, pc \in {"snapshot", "undo"}, NEW K \in SUBSET recorded, UndoBelow(idx, K),
           \A k \in K : k < idx \/ k \in Lasting,
           \A k \in K : k \notin Lasting => {l \in Steps : l < k} \subseteq K
    PROVE  Orderly'
  <1> DEFINE todo == {j \in K : j < idx}
             m == Manifest(snap, K, FALSE)
  <1>1. /\ who \in Instance /\ man \in [Instance -> Manifests] /\ idx \in 1 .. 8
        /\ K \in SUBSET Steps
    BY ProcessTypes
  <1>2. CASE todo = {}
    <2>1. pc' = "idle" /\ man' = [man EXCEPT ![who] = m]
      BY <1>2 DEF UndoBelow, Exit
    <2>2. m.finished = FALSE /\ m.steps = K /\ Blank(m.snap, m.steps)
      BY <1>1, ManifestHolds
    <2>3. K \subseteq Lasting
      BY <1>2
    <2>. HIDE DEF m, todo
    <2>4. man'[who] = m /\ \A i \in Instance \ {who} : man'[i] = man[i]
      BY <1>1, <2>1
    <2>5. \A i \in Instance \ {who} : ~Busy(i)
      BY DEF Busy
    <2>6. \A i \in Instance : ~man'[i].finished => man'[i].steps \subseteq Lasting
      BY <2>2, <2>3, <2>4, <2>5 DEF Orderly
    <2>7. \A i \in Instance : /\ man'[i].finished => man'[i].steps = Steps
                              /\ Blank(man'[i].snap, man'[i].steps)
      BY <2>2, <2>4 DEF Orderly
    <2>8. QED  BY <2>1, <2>6, <2>7 DEF Orderly, Blank
  <1>3. CASE todo # {}
    <2>1. /\ pc' = "undo" /\ idx' = Max(todo) /\ recorded' = K
          /\ UNCHANGED <<who, man, snap, others>>
      BY <1>3 DEF UndoBelow
    <2>2. todo \in SUBSET Steps
      BY <1>1
    <2>3. Max(todo) \in todo /\ \A k \in todo : ~(k > Max(todo))
      BY <1>3, <2>2, MaxIn
    <2>4. idx' \in K /\ \A k \in K : k > idx' => k \in Lasting
      BY <2>1, <2>3
    <2>. HIDE DEF todo
    <2>5. \A i \in Instance : Busy(i)' = Busy(i)
      BY <2>1 DEF Busy
    <2>6. \A i \in Instance : ~Busy(i)' /\ ~man'[i].finished => man'[i].steps \subseteq Lasting
      BY <2>1, <2>5 DEF Orderly
    <2>7. \A i \in Instance : /\ man'[i].finished => man'[i].steps = Steps
                              /\ Blank(man'[i].snap, man'[i].steps)
      BY <2>1 DEF Orderly
    <2>8. recorded' \cup {idx'} = K
      BY <2>1, <2>4
    <2>9. \A k \in recorded' \cup {idx'} : k \notin Lasting => {l \in Steps : l < k} \subseteq recorded'
      BY <2>1, <2>8
    <2>10. QED  BY <2>1, <2>4, <2>6, <2>7, <2>9 DEF Orderly, Blank
  <1>4. QED  BY <1>2, <1>3

LEMMA UndoBelowView ==
    ASSUME TypeOK, NEW w \in Instance, w = who, pc \in {"snapshot", "undo"},
           NEW K \in SUBSET recorded, UndoBelow(idx, K)
    PROVE  Retains(w, K) /\ \A i \in Instance \ {w} : Retains(i, Done(i))
  <1> DEFINE todo == {j \in K : j < idx}
             m == Manifest(snap, K, FALSE)
  <1>1. man \in [Instance -> Manifests] /\ K \in SUBSET Steps
    BY ProcessTypes
  <1>2. /\ Busy(w) /\ Held(w) = snap
        /\ \A i \in Instance \ {w} : ~Busy(i)
    BY DEF Busy, Held
  <1>3. CASE todo = {}
    <2>1. pc' = "idle" /\ man' = [man EXCEPT ![who] = m]
      BY <1>3 DEF UndoBelow, Exit
    <2>2. m.steps = K /\ \A k \in K : \A f \in Fields(k) : m.snap[f] = snap[f]
      BY <1>1, ManifestHolds
    <2>. HIDE DEF m, todo
    <2>3. man'[w] = m /\ \A i \in Instance \ {w} : man'[i] = man[i]
      BY <1>1, <2>1
    <2>4. \A i \in Instance : ~Busy(i)'
      BY <2>1 DEF Busy
    <2>5. Done(w)' = K /\ Held(w)' = m.snap
      BY <2>2, <2>3, <2>4 DEF Done, Held
    <2>6. QED
      BY <1>2, <2>2, <2>3, <2>4, <2>5, IdleRetains DEF Retains
  <1>4. CASE todo # {}
    <2>1. /\ pc' = "undo" /\ idx' = Max(todo) /\ recorded' = K
          /\ UNCHANGED <<who, snap, man>>
      BY <1>4 DEF UndoBelow
    <2>2. todo \in SUBSET Steps
      BY <1>1
    <2>3. Max(todo) \in todo
      BY <1>4, <2>2, MaxIn
    <2>4. idx' \in K
      BY <2>1, <2>3
    <2>. HIDE DEF todo
    <2>5. \A i \in Instance : Busy(i)' = Busy(i)
      BY <2>1 DEF Busy
    <2>6. Done(w)' = K /\ Held(w)' = snap
      BY <1>2, <2>1, <2>4, <2>5 DEF Done, Held
    <2>7. QED
      BY <1>2, <2>1, <2>5, <2>6, IdleRetains DEF Retains
  <1>5. QED  BY <1>3, <1>4

\* A stop undoes what is recorded below the step the process is at.
LEMMA StopsOrderly ==
    ASSUME TypeOK, Orderly, NEW w \in Instance, w = who, Stops
    PROVE  Orderly' /\ AllRetain
  <1>1. /\ pc = "snapshot" /\ UndoBelow(idx, recorded) /\ recorded \in SUBSET recorded
        /\ recorded \in SUBSET Steps /\ idx \in 1 .. 8
    BY ProcessTypes DEF Stops
  <1>2. \A k \in recorded : k < idx \/ k \in Lasting
    BY <1>1 DEF Orderly
  <1>3. {k \in Steps : k < idx} \subseteq recorded
    BY <1>1 DEF Orderly
  <1>4. ASSUME NEW k \in recorded, k \notin Lasting  PROVE {l \in Steps : l < k} \subseteq recorded
    <2>1. k < idx
      BY <1>2, <1>4
    <2>2. \A l \in Steps : l < k => l < idx
      BY <1>1, <2>1 DEF Steps
    <2>3. QED  BY <1>3, <2>2
  <1>5. Orderly'
    BY <1>1, <1>2, <1>4, UndoBelowOrderly
  <1>6. Retains(w, recorded) /\ \A i \in Instance \ {w} : Retains(i, Done(i))
    BY <1>1, UndoBelowView
  <1>7. Done(w) = recorded
    BY <1>1 DEF Done, Busy
  <1>8. QED  BY <1>5, <1>6, <1>7 DEF AllRetain

LEMMA SkipOrderly ==
    ASSUME TypeOK, Orderly, NEW w \in Instance, w = who, Skip
    PROVE  Orderly' /\ AllRetain
  <1>1. /\ pc = "snapshot" /\ idx \in recorded /\ idx' = idx + 1
        /\ UNCHANGED <<man, pc, who, snap, recorded>>
        /\ recorded \in SUBSET Steps /\ idx \in 1 .. 8
    BY ProcessTypes DEF Skip
  <1>2. \A i \in Instance : Busy(i)' = Busy(i) /\ Done(i)' = Done(i) /\ Held(i)' = Held(i)
    BY <1>1 DEF Busy, Done, Held
  <1>3. {k \in Steps : k < idx'} \subseteq recorded
    <2>1. \A k \in Steps : k < idx' => k < idx \/ k = idx
      BY <1>1 DEF Steps
    <2>2. QED  BY <1>1, <2>1 DEF Orderly
  <1>4. \A k \in recorded : k < idx' \/ k \in Lasting
    <2>1. \A k \in recorded : k < idx => k < idx'
      BY <1>1 DEF Steps
    <2>2. QED  BY <1>1, <2>1 DEF Orderly
  <1>5. Orderly'
    BY <1>1, <1>2, <1>3, <1>4 DEF Orderly, Blank
  <1>6. QED  BY <1>2, <1>5 DEF AllRetain, Retains

LEMMA FinishOrderly ==
    ASSUME TypeOK, Orderly, NEW w \in Instance, w = who, Finished
    PROVE  Orderly' /\ AllRetain
  <1>1. /\ pc = "snapshot" /\ idx = 8 /\ pc' = "idle"
        /\ man' = [man EXCEPT ![who].finished = TRUE]
    BY DEF Finished, Exit
  <1>2. who \in Instance /\ man \in [Instance -> Manifests] /\ recorded \in SUBSET Steps
    BY ProcessTypes
  <1>3. /\ man'[w] = [man[who] EXCEPT !.finished = TRUE]
        /\ \A i \in Instance \ {w} : man'[i] = man[i]
    BY <1>1, <1>2
  <1>4. man'[w].finished /\ man'[w].steps = man[who].steps /\ man'[w].snap = man[who].snap
    BY <1>2, <1>3 DEF Manifests
  <1>5. man[who].steps = recorded /\ recorded = Steps
    <2>1. {k \in Steps : k < 8} \subseteq recorded /\ man[who].steps = recorded
      BY <1>1 DEF Orderly
    <2>2. QED  BY <1>2, <2>1 DEF Steps
  <1>6. \A i \in Instance \ {w} : ~Busy(i)
    BY DEF Busy
  <1>7. \A i \in Instance : ~man'[i].finished => man'[i].steps \subseteq Lasting
    BY <1>3, <1>4, <1>6 DEF Orderly
  <1>8. \A i \in Instance : /\ man'[i].finished => man'[i].steps = Steps
                            /\ Blank(man'[i].snap, man'[i].steps)
    <2>1. man'[w].steps = Steps /\ Blank(man'[w].snap, man'[w].steps)
      BY <1>2, <1>4, <1>5 DEF Orderly
    <2>2. QED  BY <1>3, <2>1 DEF Orderly
  <1>9. Orderly'
    BY <1>1, <1>7, <1>8 DEF Orderly, Blank
  <1>10. /\ Done(w) = recorded /\ Held(w) = snap
         /\ Done(w)' = recorded /\ Held(w)' = man[who].snap
    BY <1>1, <1>4, <1>5 DEF Done, Held, Busy
  <1>11. Retains(w, Done(w))
    BY <1>1, <1>10 DEF Retains, Orderly
  <1>12. \A i \in Instance \ {w} : Retains(i, Done(i))
    BY <1>1, <1>3, IdleRetains DEF Busy
  <1>13. QED  BY <1>9, <1>11, <1>12 DEF AllRetain

\* A snapshot looks only at what its step is about.
LEMMA SnapshotOrderly ==
    ASSUME TypeOK, Orderly, NEW w \in Instance, w = who, pc = "snapshot", idx \in Steps, idx \notin recorded,
           Snapshotted(snap'), \A f \in DOMAIN Default \ Fields(idx) : snap'[f] = snap[f]
    PROVE  Orderly' /\ AllRetain
  <1>1. /\ pc' = "run" /\ UNCHANGED <<man, who, idx, recorded>> /\ recorded \in SUBSET Steps
    BY ProcessTypes DEF Snapshotted
  <1>2. \A k \in Steps \ {idx} : \A f \in Fields(k) : snap'[f] = snap[f]
    BY FieldsAre, FieldsApart
  <1>3. \A i \in Instance : Busy(i)' = Busy(i)
    BY <1>1 DEF Busy
  <1>4. Blank(snap', recorded \cup {idx})
    BY <1>2 DEF Orderly, Blank
  <1>5. \A k \in recorded : \A f \in Fields(k) : man[who].snap[f] = snap'[f]
    BY <1>1, <1>2 DEF Orderly
  <1>6. Orderly'
    BY <1>1, <1>3, <1>4, <1>5 DEF Orderly, Blank
  <1>7. /\ Done(w) = recorded /\ Held(w) = snap /\ Done(w)' = recorded /\ Held(w)' = snap'
    BY <1>1 DEF Done, Held, Busy
  <1>8. Retains(w, Done(w))
    BY <1>1, <1>2, <1>7 DEF Retains
  <1>9. \A i \in Instance \ {w} : Retains(i, Done(i))
    BY <1>1, IdleRetains DEF Busy
  <1>10. QED  BY <1>6, <1>8, <1>9 DEF AllRetain

\* The manifest of a run that succeeded.
LEMMA RanOrderly ==
    ASSUME TypeOK, Orderly, NEW w \in Instance, w = who, pc = "run", Ran,
           \A f \in DOMAIN Default \ Fields(idx) : snap'[f] = snap[f]
    PROVE  Orderly' /\ Joins(w)
  <1> DEFINE m == Manifest(snap', recorded', FALSE)
  <1>1. /\ pc' = "snapshot" /\ idx' = idx + 1 /\ recorded' = recorded \cup {idx}
        /\ man' = [man EXCEPT ![who] = m] /\ UNCHANGED who
    BY DEF Ran
  <1>2. /\ who \in Instance /\ man \in [Instance -> Manifests] /\ idx \in Steps
        /\ recorded \in SUBSET Steps /\ recorded' \in SUBSET Steps
    BY <1>1, ProcessTypes
  <1>3. /\ m.steps = recorded' /\ Blank(m.snap, m.steps) /\ m.finished = FALSE
        /\ \A k \in recorded' : \A f \in Fields(k) : m.snap[f] = snap'[f]
    BY <1>2, ManifestHolds
  <1>. HIDE DEF m
  <1>4. man'[w] = m /\ \A i \in Instance \ {w} : man'[i] = man[i]
    BY <1>1, <1>2
  <1>5. \A i \in Instance : Busy(i)' = Busy(i)
    BY <1>1 DEF Busy
  <1>6. Busy(w) /\ \A i \in Instance \ {w} : ~Busy(i)
    BY DEF Busy
  <1>7. \A i \in Instance : ~Busy(i)' /\ ~man'[i].finished => man'[i].steps \subseteq Lasting
    BY <1>4, <1>5, <1>6 DEF Orderly
  <1>8. \A i \in Instance : /\ man'[i].finished => man'[i].steps = Steps
                            /\ Blank(man'[i].snap, man'[i].steps)
    BY <1>3, <1>4 DEF Orderly
  <1>9. {k \in Steps : k < idx'} \subseteq recorded'
    <2>1. \A k \in Steps : k < idx' => k < idx \/ k = idx
      BY <1>1, <1>2 DEF Steps
    <2>2. QED  BY <1>1, <2>1 DEF Orderly
  <1>10. \A k \in recorded' : k < idx' \/ k \in Lasting
    <2>1. \A k \in Steps : k < idx \/ k = idx => k < idx'
      BY <1>1, <1>2 DEF Steps
    <2>2. QED  BY <1>1, <1>2, <2>1 DEF Orderly
  <1>11. Blank(snap', recorded')
    <2>1. \A k \in Steps \ {idx} : \A f \in Fields(k) : snap'[f] = snap[f]
      BY <1>2, FieldsAre, FieldsApart
    <2>2. QED  BY <1>1, <2>1 DEF Orderly, Blank
  <1>12. Orderly'
    BY <1>1, <1>3, <1>4, <1>7, <1>8, <1>9, <1>10, <1>11 DEF Orderly, Blank
  <1>13. idx \notin recorded
    BY DEF Orderly
  <1>14. /\ Done(w) = recorded /\ Held(w) = snap
         /\ Done(w)' = recorded \cup {idx} /\ Held(w)' = snap'
    BY <1>1 DEF Done, Held, Busy
  <1>15. \A i \in Instance \ {w} : Retains(i, Done(i))
    BY <1>1, <1>4, IdleRetains DEF Busy
  <1>16. QED  BY <1>12, <1>13, <1>14, <1>15 DEF Joins

LEMMA FailedOrderly ==
    ASSUME TypeOK, Orderly, NEW w \in Instance, w = who, pc = "run", Failed
    PROVE  Orderly' /\ Joins(w)
  <1>1. /\ pc' = "undo" /\ UNCHANGED <<man, who, idx, recorded, others>>
        /\ recorded \in SUBSET Steps /\ idx \in Steps
        /\ spoilt' = (spoilt \/ (others # {} /\ Scope(idx, who) # "OwnInstance"))
    BY ProcessTypes DEF Failed
  <1>2. \A i \in Instance : Busy(i)' = Busy(i)
    BY <1>1 DEF Busy
  <1>3. /\ {k \in Steps : k < idx} \subseteq recorded
        /\ \A k \in recorded : k < idx \/ k \in Lasting
        /\ idx \notin recorded
    BY DEF Orderly
  <1>4. \A k \in recorded : k > idx => k \in Lasting
    <2>1. \A k \in recorded : k > idx => ~(k < idx)
      BY <1>1 DEF Steps
    <2>2. QED  BY <1>3, <2>1
  <1>5. ASSUME NEW k \in recorded \cup {idx}, k \notin Lasting
        PROVE  {l \in Steps : l < k} \subseteq recorded
    <2>1. k < idx \/ k = idx
      BY <1>3, <1>5
    <2>2. \A l \in Steps : l < k => l < idx
      BY <1>1, <2>1 DEF Steps
    <2>3. QED  BY <1>3, <2>2
  <1>6. idx \in Lasting => Scope(idx, who) # "OwnInstance"
    BY DEF Lasting, Scope
  <1>7. Orderly'
    BY <1>1, <1>2, <1>4, <1>5, <1>6 DEF Orderly, Blank
  <1>8. /\ Done(w) = recorded /\ Held(w) = snap
        /\ Done(w)' = recorded \cup {idx} /\ Held(w)' = snap'
    BY <1>1 DEF Done, Held, Busy
  <1>9. \A i \in Instance \ {w} : Retains(i, Done(i))
    BY <1>1, IdleRetains DEF Busy
  <1>10. QED  BY <1>3, <1>7, <1>8, <1>9 DEF Joins

\* What others hold back keeps its record, if it has one.
LEMMA LeaveSharedOrderly ==
    ASSUME TypeOK, Orderly, NEW w \in Instance, w = who, LeaveShared
    PROVE  /\ Orderly' /\ Retains(w, recorded)
           /\ \A i \in Instance \ {w} : Retains(i, Done(i))
           /\ idx \in {SelinuxStep, FirewallStep} /\ Done(w) = recorded \cup {idx} /\ Held(w) = snap
  <1>1. /\ pc = "undo" /\ others # {} /\ Scope(idx, who) = "Shared" /\ UndoBelow(idx, recorded)
        /\ recorded \in SUBSET recorded /\ recorded \in SUBSET Steps /\ idx \in Steps
    BY ProcessTypes DEF LeaveShared, HeldBack
  <1>2. idx \in {SelinuxStep, FirewallStep}
    BY <1>1 DEF Scope
  <1>3. ASSUME NEW k \in recorded  PROVE k < idx \/ k \in Lasting
    <2>1. k < idx \/ k = idx \/ k > idx
      BY <1>1 DEF Steps
    <2>2. QED  BY <1>1, <1>2, <2>1 DEF Orderly, Lasting
  <1>4. Orderly'
    BY <1>1, <1>3, UndoBelowOrderly DEF Orderly
  <1>5. Retains(w, recorded) /\ \A i \in Instance \ {w} : Retains(i, Done(i))
    BY <1>1, UndoBelowView
  <1>6. QED  BY <1>1, <1>2, <1>4, <1>5 DEF Done, Held, Busy

\* The step that is undone leaves the records, unless it is kept for its other half.
LEMMA UndoneOrderly ==
    ASSUME TypeOK, Orderly, NEW w \in Instance, w = who, pc = "undo", Undone
    PROVE  /\ Orderly'
           /\ IF others # {} /\ idx = InstallStep THEN Retains(w, recorded)
              ELSE Retains(w, recorded \ {idx})
           /\ \A i \in Instance \ {w} : Retains(i, Done(i))
           /\ Done(w) = recorded \cup {idx} /\ Held(w) = snap
  <1> DEFINE K == IF others # {} /\ idx = InstallStep THEN recorded ELSE recorded \ {idx}
  <1>1. /\ recorded \in SUBSET Steps /\ idx \in Steps /\ K \in SUBSET recorded
    BY ProcessTypes
  <1>2. UndoBelow(idx, K)
    <2>1. Scope(idx, who) = "Mixed" <=> idx = InstallStep
      BY DEF Scope
    <2>2. QED  BY <2>1 DEF Undone
  <1>3. ASSUME NEW k \in K  PROVE k < idx \/ k \in Lasting
    <2>1. k < idx \/ k = idx \/ k > idx
      BY <1>1 DEF Steps
    <2>2. k = idx => k \in Lasting
      BY DEF Lasting
    <2>3. QED  BY <1>1, <2>1, <2>2 DEF Orderly
  <1>4. ASSUME NEW k \in K, k \notin Lasting  PROVE {l \in Steps : l < k} \subseteq K
    <2>1. k < idx
      BY <1>3, <1>4
    <2>2. \A l \in Steps : l < k => l # idx
      BY <1>1, <2>1 DEF Steps
    <2>3. {l \in Steps : l < k} \subseteq recorded
      BY <1>1, <1>4 DEF Orderly
    <2>4. QED  BY <2>2, <2>3
  <1>. HIDE DEF K
  <1>5. Orderly'
    BY <1>1, <1>2, <1>3, <1>4, UndoBelowOrderly
  <1>6. Retains(w, K) /\ \A i \in Instance \ {w} : Retains(i, Done(i))
    BY <1>1, <1>2, UndoBelowView
  <1>7. QED  BY <1>5, <1>6 DEF K, Done, Held, Busy

-----------------------------------------------------------------------------
(* What is on the machine, and who knows how to give it back.                *)

\* The machine before the first command.
Before == {"absent", "theirs"}

FoundOnce ==
    /\ found.pkg \in Before /\ found.enabled \in BOOLEAN /\ found.active \in BOOLEAN
    /\ found.vhost \in [Instance -> Before] /\ found.link \in [Instance -> {"absent", "vhost", "elsewhere"}]
    /\ \A i \in Instance : found.link[i] = "vhost" => found.vhost[i] = "theirs"
    /\ \A i \in Instance : family # "debian" => found.link[i] = "absent"
    /\ found.enabled \/ found.active => found.pkg = "theirs"
    /\ found.switch \in {"none", "off", "on"} /\ found.rules \in SUBSET Port /\ found.site \in Site

\* A vhost is as it was found, or its instance knows what it was: it made it, or
\* has the copy of it.
VhostLeft(i) ==
    IF WriteStep \notin Done(i) THEN vhost[i] = found.vhost[i]
    ELSE /\ Held(i).vhost = "Untracked" => vhost[i] = found.vhost[i]
         /\ Held(i).vhost = "CreatedByUs" => found.vhost[i] = "absent"
         /\ Held(i).vhost = "Preexisting" =>
               \/ Held(i).backup = "none" /\ vhost[i] = found.vhost[i]
               \/ Held(i).backup = found.vhost[i] /\ found.vhost[i] \in backup[i]

\* So is a link, which leads somewhere.
LinkLeft(i) ==
    found.link[i] # "elsewhere" =>
       /\ link[i] = "vhost" => vhost[i] # "absent"
       /\ IF EnableStep \in Done(i) /\ Held(i).link = "CreatedByUs" THEN found.link[i] = "absent"
          ELSE link[i] = found.link[i]

\* i has taken the default site away and can put it back.
Away(i) ==
    /\ EnableStep \in Done(i) /\ Held(i).site = found.site
    /\ found.site = "link" \/ (found.site = "file" /\ Held(i).moved /\ siteBackup)

SiteLeft ==
    found.pkg = "theirs" =>
       /\ site = found.site \/ (site = "absent" /\ \E i \in Instance : Away(i))
       /\ \A i \in Instance : EnableStep \in Done(i) /\ Held(i).site \in {"link", "file"} => Held(i).site = found.site

\* i has enabled the service, has started it.
Enables(i) == InstallStep \in Done(i) /\ Held(i).enabled = "CreatedByUs"

Starts(i) == ReloadStep \in Done(i) /\ Held(i).active = "CreatedByUs"

\* What is enabled or up that was not is some instance's doing, and no instance
\* takes for its doing what was found.
ServiceLeft ==
    /\ enabled => pkg # "absent"
    /\ found.enabled => enabled
    /\ enabled /\ ~found.enabled => \E i \in Instance : Enables(i)
    /\ \A i \in Instance : Enables(i) => ~found.enabled
    /\ found.active /\ found.enabled => active
    /\ active /\ ~found.active => \E i \in Instance : Enables(i) \/ Starts(i)
    /\ \A i \in Instance : Starts(i) => ~(found.active /\ found.enabled)

\* i has turned the boolean on, has opened the port p.
Turns(i) == SelinuxStep \in Done(i) /\ Held(i).switch = "CreatedByUs"

SwitchLeft ==
    /\ switch = "none" <=> found.switch = "none"
    /\ found.switch = "on" => switch = "on"
    /\ switch = "on" /\ found.switch # "on" => \E i \in Instance : Turns(i)
    /\ \A i \in Instance : Turns(i) => found.switch = "off"

Opens(i, p) == FirewallStep \in Done(i) /\ p \in Held(i).delta

RulesLeft ==
    /\ found.rules \subseteq rules
    /\ \A p \in rules \ found.rules : \E i \in Instance : Opens(i, p)
    /\ \A i \in Instance : \A p \in found.rules : ~Opens(i, p)

\* What can be put back of the machine; a port may have been opened by a step
\* that failed, where others keep it open.
GivenBack ==
    /\ \A i \in Instance : VhostLeft(i) /\ LinkLeft(i)
    /\ SiteLeft /\ ServiceLeft /\ SwitchLeft
    /\ ~spoilt => RulesLeft

\* A process that is on its way to reload nginx: an installation to its last
\* step, a rollback to the first.
Pending ==
    \/ pc \in {"snapshot", "run"} /\ ~Gated /\ InstallStep \in recorded /\ idx \in 3 .. 7
    \/ pc = "undo" /\ idx >= 2 /\ InstallStep \in Done(who)

\* But for that an nginx that is up serves what is on disk.
Served == LinksAreOurs => (active => loaded = OnDisk) \/ Pending

\* What a run goes by, and what a failed one has not claimed.
Ready ==
    /\ pc \in {"snapshot", "run"} /\ ~Gated /\ WriteStep \in recorded => vhost[who] # "absent"
    /\ pc = "run" /\ Gated /\ idx # FirewallStep => Blank(snap, recorded)
    /\ pc = "run" /\ ~Gated =>
          /\ idx = InstallStep => /\ snap.installed = Verdict(pkg # "absent")
                                  /\ snap.enabled = Verdict(enabled)
          /\ idx = WriteStep => snap.vhost = Verdict(vhost[who] # "absent") /\ snap.backup = "none"
          /\ idx = EnableStep => snap.link = Verdict(link[who] # "absent") /\ snap.site = site /\ ~snap.moved
          /\ idx = SelinuxStep => snap.switch = Verdict(switch = "on")
          /\ idx = ReloadStep => snap.active = Verdict(active)
    /\ pc = "run" /\ idx = FirewallStep => snap.delta = Delta
    /\ pc = "undo" /\ idx \notin recorded =>
          /\ idx = InstallStep => snap.installed # "CreatedByUs" /\ snap.enabled # "CreatedByUs"
          /\ idx = SelinuxStep => snap.switch # "CreatedByUs"

Intact == Orderly /\ GivenBack /\ Served /\ Ready

RestInv == KeptInv /\ FoundOnce /\ Current /\ (faults = 0 => Intact)

\* i has done the step k if it had, and holds of it what it held.
Alike(i, k) ==
    /\ k \in Done(i)' <=> k \in Done(i)
    /\ k \in Done(i) => \A f \in Fields(k) : Held(i)'[f] = Held(i)[f]

\* All steps of all instances, but for the step k of w.
Elsewhere(w, k) == \A i \in Instance, l \in Steps : i # w \/ l # k => Alike(i, l)

LEMMA StepsAre == Steps = {1, 2, 3, 4, 5, 6, 7}
  BY DEF Steps

LEMMA RetainsAlike ==
    ASSUME AllRetain  PROVE \A i \in Instance, k \in Steps : Alike(i, k)
  BY DEF AllRetain, Retains, Alike

LEMMA ForgetsElsewhere ==
    ASSUME NEW w \in Instance, NEW K, NEW k, Retains(w, K), K \subseteq Done(w), Done(w) \subseteq K \cup {k},
           \A i \in Instance \ {w} : Retains(i, Done(i))
    PROVE  Elsewhere(w, k)
  BY DEF Elsewhere, Retains, Alike

LEMMA JoinsElsewhere ==
    ASSUME NEW w \in Instance, Joins(w), idx \in Steps,
           \A f \in DOMAIN Default \ Fields(idx) : snap'[f] = snap[f]
    PROVE  Elsewhere(w, idx)
  <1>1. \A k \in Steps \ {idx} : \A f \in Fields(k) : snap'[f] = snap[f]
    BY FieldsAre, FieldsApart
  <1>2. \A k \in Steps \ {idx} : Alike(w, k)
    BY <1>1 DEF Joins, Alike
  <1>3. \A i \in Instance \ {w}, k \in Steps : Alike(i, k)
    BY DEF Joins, Retains, Alike
  <1>4. QED  BY <1>2, <1>3 DEF Elsewhere

\* What is said of a step stays said.
LEMMA EnablesAlike ==
    ASSUME NEW i, Alike(i, InstallStep)  PROVE Enables(i)' <=> Enables(i)
  BY FieldsAre DEF Alike, Enables

LEMMA AwayAlike ==
    ASSUME NEW i, Alike(i, EnableStep), UNCHANGED found, siteBackup => siteBackup', Away(i)  PROVE Away(i)'
  BY FieldsAre DEF Alike, Away

LEMMA StartsAlike ==
    ASSUME NEW i, Alike(i, ReloadStep)  PROVE Starts(i)' <=> Starts(i)
  BY FieldsAre DEF Alike, Starts

LEMMA TurnsAlike ==
    ASSUME NEW i, Alike(i, SelinuxStep)  PROVE Turns(i)' <=> Turns(i)
  BY FieldsAre DEF Alike, Turns

LEMMA OpensAlike ==
    ASSUME NEW i, NEW p, Alike(i, FirewallStep)  PROVE Opens(i, p)' <=> Opens(i, p)
  BY FieldsAre DEF Alike, Opens

LEMMA VhostStays ==
    ASSUME NEW i, Alike(i, WriteStep), UNCHANGED found, vhost'[i] = vhost[i], backup'[i] = backup[i], VhostLeft(i)
    PROVE  VhostLeft(i)'
  <1>1. WriteStep \in Done(i) => Held(i)'.vhost = Held(i).vhost /\ Held(i)'.backup = Held(i).backup
    BY FieldsAre DEF Alike
  <1>2. WriteStep \in Done(i)' <=> WriteStep \in Done(i)
    BY DEF Alike
  <1>3. QED  BY <1>1, <1>2 DEF VhostLeft

LEMMA LinkStays ==
    ASSUME NEW i, Alike(i, EnableStep), UNCHANGED found, link'[i] = link[i],
           vhost[i] # "absent" => vhost'[i] # "absent", LinkLeft(i)
    PROVE  LinkLeft(i)'
  <1>1. EnableStep \in Done(i) => Held(i)'.link = Held(i).link
    BY FieldsAre DEF Alike
  <1>2. EnableStep \in Done(i)' <=> EnableStep \in Done(i)
    BY DEF Alike
  <1>3. QED  BY <1>1, <1>2 DEF LinkLeft

LEMMA SiteStays ==
    ASSUME \A i \in Instance : Alike(i, EnableStep), UNCHANGED <<found, siteBackup>>,
           found.pkg = "theirs" => site' = site, SiteLeft
    PROVE  SiteLeft'
  <1>1. \A i \in Instance : EnableStep \in Done(i) => Held(i)'.site = Held(i).site
    BY FieldsAre DEF Alike
  <1>2. \A i \in Instance : EnableStep \in Done(i)' <=> EnableStep \in Done(i)
    BY DEF Alike
  <1>3. \A i \in Instance : Away(i) => Away(i)'
    BY AwayAlike
  <1>4. QED  BY <1>1, <1>2, <1>3 DEF SiteLeft

LEMMA ServiceSame ==
    ASSUME \A i \in Instance : Enables(i)' <=> Enables(i), \A i \in Instance : Starts(i)' <=> Starts(i),
           UNCHANGED <<found, pkg, enabled, active>>, ServiceLeft
    PROVE  ServiceLeft'
  BY DEF ServiceLeft

LEMMA ServiceStays ==
    ASSUME \A i \in Instance : Alike(i, InstallStep) /\ Alike(i, ReloadStep),
           UNCHANGED <<found, pkg, enabled, active>>, ServiceLeft
    PROVE  ServiceLeft'
  BY EnablesAlike, StartsAlike, ServiceSame

LEMMA SwitchStays ==
    ASSUME \A i \in Instance : Alike(i, SelinuxStep), UNCHANGED <<found, switch>>, SwitchLeft
    PROVE  SwitchLeft'
  <1>1. \A i \in Instance : Turns(i)' <=> Turns(i)
    BY TurnsAlike
  <1>2. QED  BY <1>1 DEF SwitchLeft

LEMMA RulesStay ==
    ASSUME \A i \in Instance : Alike(i, FirewallStep), UNCHANGED <<found, rules>>, RulesLeft
    PROVE  RulesLeft'
  <1>1. \A i \in Instance : \A p : Opens(i, p)' <=> Opens(i, p)
    BY OpensAlike
  <1>2. QED  BY <1>1 DEF RulesLeft

\* A step that leaves the machine and the instances as they are.
LEMMA GivenBackStays ==
    ASSUME GivenBack, AllRetain, UNCHANGED world, spoilt => spoilt'
    PROVE  GivenBack'
  <1>1. \A i \in Instance, k \in Steps : Alike(i, k)
    BY RetainsAlike
  <1>2. UNCHANGED <<found, vhost, backup, link, site, siteBackup, pkg, enabled, active, switch, rules>>
    BY DEF world, service, files, guards, fixed
  <1>3. \A i \in Instance : /\ Alike(i, InstallStep) /\ Alike(i, WriteStep) /\ Alike(i, EnableStep)
                            /\ Alike(i, SelinuxStep) /\ Alike(i, FirewallStep) /\ Alike(i, ReloadStep)
    BY <1>1, StepsAre
  <1>4. \A i \in Instance : VhostLeft(i)' /\ LinkLeft(i)'
    BY <1>2, <1>3, VhostStays, LinkStays DEF GivenBack
  <1>5. SiteLeft' /\ ServiceLeft' /\ SwitchLeft'
    BY <1>2, <1>3, SiteStays, ServiceStays, SwitchStays DEF GivenBack
  <1>6. ~spoilt' => RulesLeft'
    BY <1>2, <1>3, RulesStay DEF GivenBack
  <1>7. QED  BY <1>4, <1>5, <1>6 DEF GivenBack

\* The step that stands for what is not nginx's has no record of nginx.
LEMMA BaseStays ==
    ASSUME NEW w \in Instance, Elsewhere(w, Base), GivenBack, UNCHANGED world, spoilt => spoilt'
    PROVE  GivenBack'
  <1>1. /\ UNCHANGED <<found, vhost, backup, link, site, siteBackup, pkg, enabled, active, switch, rules>>
        /\ \A i \in Instance : /\ Alike(i, InstallStep) /\ Alike(i, WriteStep) /\ Alike(i, EnableStep)
                               /\ Alike(i, SelinuxStep) /\ Alike(i, FirewallStep) /\ Alike(i, ReloadStep)
    BY StepsAre DEF Elsewhere, world, service, files, guards, fixed
  <1>2. \A i \in Instance : VhostLeft(i)' /\ LinkLeft(i)'
    BY <1>1, VhostStays, LinkStays DEF GivenBack
  <1>3. SiteLeft' /\ ServiceLeft' /\ SwitchLeft' /\ (~spoilt' => RulesLeft')
    BY <1>1, SiteStays, ServiceStays, SwitchStays, RulesStay DEF GivenBack
  <1>4. QED  BY <1>2, <1>3 DEF GivenBack

-----------------------------------------------------------------------------
(* The runs: what a step makes it knows how to give back.                    *)

\* The run of the step k of w, and the world but for what k is about.
RunOf(w, k) ==
    /\ KeptInv /\ FoundOnce /\ Orderly /\ GivenBack /\ Ready
    /\ pc = "run" /\ ~Gated /\ who = w /\ idx = k
    /\ Joins(w) /\ Elsewhere(w, k) /\ (spoilt => spoilt')

LEMMA RunTypes ==
    ASSUME KeptInv
    PROVE  /\ snap \in Snapshots /\ who \in Instance
           /\ vhost \in [Instance -> Whose] /\ backup \in [Instance -> SUBSET {"ours", "theirs"}]
           /\ link \in [Instance -> {"absent", "vhost", "elsewhere"}]
           /\ site \in Site /\ siteBackup \in BOOLEAN /\ pkg \in Whose /\ enabled \in BOOLEAN
           /\ active \in BOOLEAN /\ switch \in {"none", "off", "on"} /\ rules \in SUBSET Port
           /\ idx \in 1 .. 8 /\ recorded \in SUBSET Steps
  BY DEF KeptInv, TypeInv, TypeOK, WorldType, ProcessType

LEMMA InstallRan ==
    ASSUME NEW w \in Instance, NEW far \in {0, 2}, RunOf(w, InstallStep), InstallEffect(far),
           snap' = InstallClaims(far)
    PROVE  GivenBack'
  <1>1. /\ UNCHANGED <<vhost, backup, link, siteBackup, switch, rules, found>>
        /\ \A i \in Instance : /\ Alike(i, WriteStep) /\ Alike(i, EnableStep) /\ Alike(i, SelinuxStep)
                               /\ Alike(i, FirewallStep) /\ Alike(i, ReloadStep)
        /\ \A i \in Instance \ {w} : Alike(i, InstallStep)
    BY StepsAre DEF RunOf, Elsewhere, InstallEffect, guards, fixed
  <1>2. /\ snap.installed = Verdict(pkg # "absent") /\ snap.enabled = Verdict(enabled)
        /\ snap.installed # "Preexisting" => found.pkg # "theirs"
        /\ snap \in Snapshots /\ pkg \in Whose /\ enabled \in BOOLEAN /\ active \in BOOLEAN
    BY RunTypes DEF RunOf, Ready, KeptInv, RunOK
  <1>3. \A i \in Instance : VhostLeft(i)' /\ LinkLeft(i)'
    BY <1>1, VhostStays, LinkStays DEF RunOf, GivenBack
  <1>4. SiteLeft'
    <2>1. found.pkg = "theirs" => site' = site
      BY <1>2 DEF InstallEffect
    <2>2. QED  BY <1>1, <2>1, SiteStays DEF RunOf, GivenBack
  <1>5. SwitchLeft' /\ (~spoilt' => RulesLeft')
    BY <1>1, SwitchStays, RulesStay DEF RunOf, GivenBack
  <1>6. ServiceLeft'
    <2>1. snap'.enabled = IF far = 2 /\ ~enabled THEN "CreatedByUs" ELSE snap.enabled
      BY <1>2 DEF InstallClaims, Snapshots, MadeIf, Made, Verdict
    <2>2. ~Enables(w) /\ (Enables(w)' <=> far = 2 /\ ~enabled)
      BY <1>2, <2>1 DEF RunOf, Joins, Enables, Verdict
    <2>3. \A i \in Instance \ {w} : Enables(i)' <=> Enables(i)
      BY <1>1, EnablesAlike
    <2>4. \A i \in Instance : Starts(i)' <=> Starts(i)
      BY <1>1, StartsAlike
    <2>5. CASE far = 0
      <3>1. UNCHANGED <<pkg, active, enabled>>
        BY <1>2, <2>5 DEF InstallEffect
      <3>2. \A i \in Instance : Enables(i)' <=> Enables(i)
        BY <2>2, <2>3, <2>5
      <3>3. ServiceLeft
        BY DEF RunOf, GivenBack
      <3>4. UNCHANGED <<found, pkg, enabled, active>>
        BY <1>1, <3>1
      <3>5. QED  BY <2>4, <3>2, <3>3, <3>4, ServiceSame
    <2>6. CASE far = 2
      <3>1. pkg' # "absent" /\ enabled' /\ (active => active')
        <4>1. pkg = "absent" => snap.installed = "Untracked"
          BY <1>2 DEF Verdict
        <4>2. far >= 1 /\ far = 2
          BY <2>6
        <4>3. pkg' # "absent"
          BY <4>1, <4>2 DEF InstallEffect
        <4>4. enabled'
          BY <4>2 DEF InstallEffect
        <4>5. active => active'
          BY DEF InstallEffect
        <4>6. QED  BY <4>3, <4>4, <4>5
      <3>2. active' /\ ~active => ~enabled
        <4>1. active' /\ ~active => pkg = "absent"
          BY <1>2 DEF InstallEffect, Verdict
        <4>2. QED  BY <4>1 DEF RunOf, GivenBack, ServiceLeft
      <3>3. ServiceLeft
        BY DEF RunOf, GivenBack
      <3>4. ~enabled => ~found.enabled /\ Enables(w)'
        BY <2>2, <2>6, <3>3 DEF ServiceLeft
      <3>5. \A i \in Instance : Enables(i) => Enables(i)'
        BY <2>2, <2>3
      <3>6. \A i \in Instance : Enables(i)' => ~found.enabled
        BY <2>2, <2>3, <3>3, <3>4 DEF ServiceLeft
      <3>7. ~found.enabled => \E i \in Instance : Enables(i)'
        BY <3>3, <3>4, <3>5 DEF ServiceLeft
      <3>8. active' /\ ~found.active => \E i \in Instance : Enables(i)' \/ Starts(i)'
        BY <2>4, <3>2, <3>3, <3>4, <3>5 DEF ServiceLeft
      <3>9. QED
        BY <1>1, <2>4, <3>1, <3>3, <3>6, <3>7, <3>8 DEF ServiceLeft
    <2>7. QED  BY <2>5, <2>6
  <1>7. QED  BY <1>3, <1>4, <1>5, <1>6 DEF GivenBack

LEMMA WriteRan ==
    ASSUME NEW w \in Instance, NEW far \in 0 .. 2, RunOf(w, WriteStep), WriteEffect(far),
           snap' = WriteClaims(far)
    PROVE  GivenBack' /\ (far = 2 => vhost'[w] = "ours")
  <1>1. /\ UNCHANGED <<link, site, siteBackup, switch, rules, found, pkg, enabled, active>>
        /\ \A i \in Instance : /\ Alike(i, InstallStep) /\ Alike(i, EnableStep) /\ Alike(i, SelinuxStep)
                               /\ Alike(i, FirewallStep) /\ Alike(i, ReloadStep)
        /\ \A i \in Instance \ {w} : Alike(i, WriteStep)
    BY StepsAre DEF RunOf, Elsewhere, WriteEffect, service, guards, fixed
  <1>2. /\ snap.vhost = Verdict(vhost[w] # "absent") /\ snap.backup = "none" /\ snap \in Snapshots
        /\ vhost \in [Instance -> Whose] /\ backup \in [Instance -> SUBSET {"ours", "theirs"}]
    BY RunTypes DEF RunOf, Ready
  <1>3. /\ vhost' = IF far = 2 THEN [vhost EXCEPT ![w] = "ours"] ELSE vhost
        /\ backup' = IF far >= 1 /\ snap.vhost = "Preexisting"
                     THEN [backup EXCEPT ![w] = backup[w] \cup {vhost[w]}] ELSE backup
    BY DEF WriteEffect, SetAside, RunOf
  <1>4. \A i \in Instance \ {w} : vhost'[i] = vhost[i] /\ backup'[i] = backup[i]
    BY <1>2, <1>3
  <1>5. /\ vhost'[w] = IF far = 2 THEN "ours" ELSE vhost[w]
        /\ backup'[w] = IF far >= 1 /\ snap.vhost = "Preexisting" THEN backup[w] \cup {vhost[w]} ELSE backup[w]
    BY <1>2, <1>3
  <1>6. VhostLeft(w)'
    <2>1. vhost[w] = found.vhost[w] /\ found.vhost[w] \in Before
      BY DEF RunOf, Joins, GivenBack, VhostLeft, FoundOnce
    <2>2. Held(w)' = snap' /\ WriteStep \in Done(w)'
      BY DEF RunOf, Joins
    <2>3. CASE snap.vhost = "Untracked"
      <3>1. vhost[w] = "absent" /\ snap'.vhost = IF far = 2 THEN "CreatedByUs" ELSE "Untracked"
        BY <1>2, <2>3 DEF WriteClaims, Snapshots, MadeIf, Made, Verdict
      <3>2. QED  BY <1>1, <1>5, <2>1, <2>2, <3>1 DEF VhostLeft
    <2>4. CASE snap.vhost = "Preexisting"
      <3>1. /\ snap'.vhost = "Preexisting"
            /\ snap'.backup = IF far >= 1 THEN vhost[w] ELSE "none"
        BY <1>2, <2>4 DEF WriteClaims, Snapshots, MadeIf, Made, RunOf
      <3>2. far = 0 => vhost'[w] = vhost[w]
        BY <1>5
      <3>3. far # 0 => vhost[w] \in backup'[w] /\ snap'.backup = vhost[w]
        BY <1>5, <2>4, <3>1
      <3>4. QED  BY <1>1, <2>1, <2>2, <3>1, <3>2, <3>3 DEF VhostLeft
    <2>5. QED  BY <1>2, <2>3, <2>4 DEF Verdict
  <1>7. \A i \in Instance \ {w} : VhostLeft(i)'
    BY <1>1, <1>4, VhostStays DEF RunOf, GivenBack
  <1>8. \A i \in Instance : LinkLeft(i)'
    <2>1. \A i \in Instance : vhost[i] # "absent" => vhost'[i] # "absent"
      BY <1>4, <1>5
    <2>2. QED  BY <1>1, <2>1, LinkStays DEF RunOf, GivenBack
  <1>9. SiteLeft' /\ ServiceLeft' /\ SwitchLeft' /\ (~spoilt' => RulesLeft')
    BY <1>1, SiteStays, ServiceStays, SwitchStays, RulesStay DEF RunOf, GivenBack
  <1>10. QED  BY <1>5, <1>6, <1>7, <1>8, <1>9 DEF GivenBack

LEMMA EnableRan ==
    ASSUME NEW w \in Instance, NEW far \in 0 .. 2, RunOf(w, EnableStep), EnableEffect(far),
           snap' = EnableClaims(far)
    PROVE  GivenBack'
  <1>1. /\ UNCHANGED <<vhost, backup, switch, rules, found, pkg, enabled, active>>
        /\ \A i \in Instance : /\ Alike(i, InstallStep) /\ Alike(i, WriteStep) /\ Alike(i, SelinuxStep)
                               /\ Alike(i, FirewallStep) /\ Alike(i, ReloadStep)
        /\ \A i \in Instance \ {w} : Alike(i, EnableStep)
    BY StepsAre DEF RunOf, Elsewhere, EnableEffect, service, guards, fixed
  <1>2. /\ snap.link = Verdict(link[w] # "absent") /\ snap.site = site /\ ~snap.moved /\ snap \in Snapshots
        /\ link \in [Instance -> {"absent", "vhost", "elsewhere"}] /\ site \in Site /\ siteBackup \in BOOLEAN
        /\ vhost[w] # "absent"
    <2>1. WriteStep \in recorded
      BY StepsAre DEF RunOf, Orderly
    <2>2. QED  BY <2>1, RunTypes DEF RunOf, Ready
  <1>3. Held(w)' = snap' /\ EnableStep \in Done(w)' /\ EnableStep \notin Done(w)
    BY DEF RunOf, Joins
  <1>4. /\ snap'.link = IF far = 2 /\ family = "debian" /\ link[w] = "absent" THEN "CreatedByUs" ELSE snap.link
        /\ snap'.site = site /\ (snap'.moved <=> far >= 1 /\ site = "file")
    BY <1>2 DEF EnableClaims, Snapshots, MadeIf, Made, MovedIfFile, Verdict
  <1>5. /\ \A i \in Instance \ {w} : link'[i] = link[i]
        /\ link'[w] = IF far = 2 /\ family = "debian" THEN "vhost" ELSE link[w]
    BY <1>2 DEF EnableEffect, RunOf
  <1>6. LinkLeft(w)'
    <2>1. found.link[w] # "elsewhere" => link[w] = found.link[w]
      BY <1>3 DEF RunOf, GivenBack, LinkLeft
    <2>2. snap.link # "CreatedByUs"
      BY <1>2 DEF Verdict
    <2>3. link[w] \in {"absent", "vhost", "elsewhere"}
      BY <1>2
    <2>4. QED
      BY <1>1, <1>2, <1>3, <1>4, <1>5, <2>1, <2>2, <2>3 DEF LinkLeft
  <1>7. \A i \in Instance : VhostLeft(i)'
    BY <1>1, VhostStays DEF RunOf, GivenBack
  <1>8. \A i \in Instance \ {w} : LinkLeft(i)'
    BY <1>1, <1>5, LinkStays DEF RunOf, GivenBack
  <1>9. SiteLeft'
    <2>1. /\ site' = site \/ (far >= 1 /\ site \in {"link", "file"} /\ site' = "absent")
          /\ site' = site => far = 0 \/ site # "file"
          /\ siteBackup' = (siteBackup \/ (far >= 1 /\ site = "file"))
      BY <1>2 DEF EnableEffect, Displaced, MovedIfFile
    <2>2. \A i \in Instance \ {w} : Away(i) => Away(i)'
      BY <1>1, <2>1, AwayAlike
    <2>3. ~Away(w)
      BY <1>3 DEF Away
    <2>4. SUFFICES ASSUME found.pkg = "theirs"  PROVE SiteLeft'
      BY <1>1 DEF SiteLeft
    <2>5. /\ site = found.site \/ (site = "absent" /\ \E i \in Instance : Away(i))
          /\ \A i \in Instance : EnableStep \in Done(i) /\ Held(i).site \in {"link", "file"} => Held(i).site = found.site
      BY <2>4 DEF RunOf, GivenBack, SiteLeft
    <2>6. \A i \in Instance \ {w} :
             EnableStep \in Done(i)' /\ Held(i)'.site \in {"link", "file"} => Held(i)'.site = found.site
      BY <1>1, <2>5, FieldsAre DEF Alike
    <2>7. site \in {"link", "file"} => site = found.site
      BY <2>5
    <2>8. site' = found.site \/ (site' = "absent" /\ \E i \in Instance : Away(i)')
      <3>1. CASE far >= 1 /\ site \in {"link", "file"} /\ site' = "absent"
        <4>1. Away(w)'
          BY <1>1, <1>3, <1>4, <2>1, <2>7, <3>1 DEF Away
        <4>2. QED  BY <2>1, <3>1, <4>1
      <3>2. CASE site' = site
        BY <2>1, <2>2, <2>3, <2>5, <3>2
      <3>3. QED  BY <2>1, <3>1, <3>2
    <2>9. QED
      BY <1>1, <1>3, <1>4, <2>6, <2>7, <2>8 DEF SiteLeft
  <1>10. ServiceLeft' /\ SwitchLeft' /\ (~spoilt' => RulesLeft')
    BY <1>1, ServiceStays, SwitchStays, RulesStay DEF RunOf, GivenBack
  <1>11. QED  BY <1>6, <1>7, <1>8, <1>9, <1>10 DEF GivenBack

LEMMA SelinuxRan ==
    ASSUME NEW w \in Instance, NEW far \in {0, 2}, RunOf(w, SelinuxStep), SelinuxEffect(far),
           snap' = SelinuxClaims(far)
    PROVE  GivenBack'
  <1>1. /\ UNCHANGED <<vhost, backup, link, site, siteBackup, rules, found, pkg, enabled, active>>
        /\ \A i \in Instance : /\ Alike(i, InstallStep) /\ Alike(i, WriteStep) /\ Alike(i, EnableStep)
                               /\ Alike(i, FirewallStep) /\ Alike(i, ReloadStep)
        /\ \A i \in Instance \ {w} : Alike(i, SelinuxStep)
    BY StepsAre DEF RunOf, Elsewhere, SelinuxEffect, service, files, fixed
  <1>2. snap.switch = Verdict(switch = "on") /\ snap \in Snapshots /\ switch \in {"none", "off", "on"}
    BY RunTypes DEF RunOf, Ready
  <1>3. snap'.switch = IF far = 2 /\ switch = "off" THEN "CreatedByUs" ELSE snap.switch
    BY <1>2 DEF SelinuxClaims, Snapshots, MadeIf, Made, Verdict
  <1>4. ~Turns(w) /\ (Turns(w)' <=> far = 2 /\ switch = "off")
    BY <1>2, <1>3 DEF RunOf, Joins, Turns, Verdict
  <1>5. \A i \in Instance \ {w} : Turns(i)' <=> Turns(i)
    BY <1>1, TurnsAlike
  <1>6. SwitchLeft'
    <2>1. switch' = IF far = 2 /\ switch = "off" THEN "on" ELSE switch
      BY DEF SelinuxEffect
    <2>2. SwitchLeft /\ found.switch \in {"none", "off", "on"}
      BY DEF RunOf, GivenBack, FoundOnce
    <2>3. switch = "off" => found.switch = "off"
      BY <2>2 DEF SwitchLeft
    <2>4. QED  BY <1>1, <1>2, <1>4, <1>5, <2>1, <2>2, <2>3 DEF SwitchLeft
  <1>7. \A i \in Instance : VhostLeft(i)' /\ LinkLeft(i)'
    BY <1>1, VhostStays, LinkStays DEF RunOf, GivenBack
  <1>8. SiteLeft' /\ ServiceLeft' /\ (~spoilt' => RulesLeft')
    BY <1>1, SiteStays, ServiceStays, RulesStay DEF RunOf, GivenBack
  <1>9. QED  BY <1>6, <1>7, <1>8 DEF GivenBack

\* A rule of a run that fails is in the snapshot, whether or not it was added.
LEMMA FirewallRan ==
    ASSUME NEW w \in Instance, NEW far \in 0 .. 2, RunOf(w, FirewallStep), FirewallEffect(far), snap' = snap
    PROVE  GivenBack'
  <1>1. /\ UNCHANGED <<vhost, backup, link, site, siteBackup, switch, found, pkg, enabled, active>>
        /\ \A i \in Instance : /\ Alike(i, InstallStep) /\ Alike(i, WriteStep) /\ Alike(i, EnableStep)
                               /\ Alike(i, SelinuxStep) /\ Alike(i, ReloadStep)
        /\ \A i \in Instance \ {w} : Alike(i, FirewallStep)
    BY StepsAre DEF RunOf, Elsewhere, FirewallEffect, service, files, fixed
  <1>2. rules \subseteq rules' /\ rules' \subseteq rules \cup snap.delta
    <2>1. far \in {0, 1, 2}
      OBVIOUS
    <2>2. \/ rules' = rules \/ rules' = rules \cup (snap.delta \cap {80}) \/ rules' = rules \cup snap.delta
      BY <2>1 DEF FirewallEffect
    <2>3. QED  BY <2>2
  <1>3. snap.delta \cap rules = {}
    BY DEF RunOf, Ready, Delta
  <1>4. \A p : ~Opens(w, p) /\ (Opens(w, p)' <=> p \in snap.delta)
    BY DEF RunOf, Joins, Opens
  <1>5. \A i \in Instance \ {w} : \A p : Opens(i, p)' <=> Opens(i, p)
    BY <1>1, OpensAlike
  <1>6. ASSUME ~spoilt'  PROVE RulesLeft'
    <2>1. RulesLeft
      BY <1>6 DEF RunOf, GivenBack
    <2>2. found.rules \subseteq rules'
      BY <1>2, <2>1 DEF RulesLeft
    <2>3. ASSUME NEW p \in rules' \ found.rules  PROVE \E i \in Instance : Opens(i, p)'
      <3>1. CASE p \in snap.delta
        BY <1>4, <3>1
      <3>2. CASE p \in rules
        <4>1. PICK i \in Instance : Opens(i, p)
          BY <2>1, <2>3, <3>2 DEF RulesLeft
        <4>2. QED  BY <1>4, <1>5, <4>1
      <3>3. QED  BY <1>2, <3>1, <3>2
    <2>4. \A i \in Instance : \A p \in found.rules : ~Opens(i, p)'
      BY <1>3, <1>4, <1>5, <2>1 DEF RulesLeft
    <2>5. QED  BY <1>1, <2>2, <2>3, <2>4 DEF RulesLeft
  <1>7. \A i \in Instance : VhostLeft(i)' /\ LinkLeft(i)'
    BY <1>1, VhostStays, LinkStays DEF RunOf, GivenBack
  <1>8. SiteLeft' /\ ServiceLeft' /\ SwitchLeft'
    BY <1>1, SiteStays, ServiceStays, SwitchStays DEF RunOf, GivenBack
  <1>9. QED  BY <1>6, <1>7, <1>8 DEF GivenBack

LEMMA ReloadRan ==
    ASSUME NEW w \in Instance, NEW far \in {0, 2}, RunOf(w, ReloadStep), ReloadEffect(far),
           snap' = ReloadClaims(far)
    PROVE  GivenBack'
  <1>1. /\ UNCHANGED <<vhost, backup, link, site, siteBackup, switch, rules, found, pkg, enabled>>
        /\ \A i \in Instance : /\ Alike(i, InstallStep) /\ Alike(i, WriteStep) /\ Alike(i, EnableStep)
                               /\ Alike(i, SelinuxStep) /\ Alike(i, FirewallStep)
        /\ \A i \in Instance \ {w} : Alike(i, ReloadStep)
    BY StepsAre DEF RunOf, Elsewhere, ReloadEffect, files, guards, fixed
  <1>2. snap.active = Verdict(active) /\ snap \in Snapshots /\ active \in BOOLEAN
    BY RunTypes DEF RunOf, Ready
  <1>3. snap'.active = IF far = 2 /\ ~active THEN "CreatedByUs" ELSE snap.active
    BY <1>2 DEF ReloadClaims, Snapshots
  <1>4. ~Starts(w) /\ (Starts(w)' <=> far = 2 /\ ~active)
    BY <1>2, <1>3 DEF RunOf, Joins, Starts, Verdict
  <1>5. /\ \A i \in Instance \ {w} : Starts(i)' <=> Starts(i)
        /\ \A i \in Instance : Enables(i)' <=> Enables(i)
    BY <1>1, StartsAlike, EnablesAlike
  <1>6. ServiceLeft'
    <2>1. IF far = 2 THEN active' ELSE active' = active
      BY DEF ReloadEffect
    <2>2. ServiceLeft
      BY DEF RunOf, GivenBack
    <2>3. \A i \in Instance : Starts(i) => Starts(i)'
      BY <1>4, <1>5
    <2>4. active' /\ ~found.active => \E i \in Instance : Enables(i)' \/ Starts(i)'
      BY <1>4, <1>5, <2>1, <2>2, <2>3 DEF ServiceLeft
    <2>5. \A i \in Instance : Starts(i)' => ~(found.active /\ found.enabled)
      BY <1>4, <1>5, <2>2 DEF ServiceLeft
    <2>6. found.active /\ found.enabled => active'
      BY <2>1, <2>2 DEF ServiceLeft
    <2>7. QED  BY <1>1, <1>5, <2>2, <2>4, <2>5, <2>6 DEF ServiceLeft
  <1>7. \A i \in Instance : VhostLeft(i)' /\ LinkLeft(i)'
    BY <1>1, VhostStays, LinkStays DEF RunOf, GivenBack
  <1>8. SiteLeft' /\ SwitchLeft' /\ (~spoilt' => RulesLeft')
    BY <1>1, SiteStays, SwitchStays, RulesStay DEF RunOf, GivenBack
  <1>9. QED  BY <1>6, <1>7, <1>8 DEF GivenBack

-----------------------------------------------------------------------------
(* The undos: what a step knows how to give back it gives back.              *)

\* The undo of the step k of w: its record is gone, or stays as it was; an
\* installation of the package that others keep was held back without a record.
UndoOf(w, k) ==
    /\ KeptInv /\ FoundOnce /\ Orderly /\ GivenBack /\ Ready
    /\ pc = "undo" /\ who = w /\ idx = k /\ faults = 0 /\ faults' = 0
    /\ Held(w) = snap /\ Done(w) = recorded \cup {k}
    /\ Elsewhere(w, k) /\ (spoilt => spoilt')
    /\ IF others # {} /\ k = InstallStep THEN Retains(w, recorded) ELSE k \notin Done(w)'

LEMMA UndoIs ==
    ASSUME KeptInv, FoundOnce, Orderly, GivenBack, Ready, faults = 0, faults' = 0,
           NEW w \in Instance, w = who, pc = "undo", Undone
    PROVE  UndoOf(w, idx)
  <1>1. TypeOK /\ recorded \in SUBSET Steps
    BY ProcessTypes DEF KeptInv, TypeInv
  <1>2. /\ IF others # {} /\ idx = InstallStep THEN Retains(w, recorded) ELSE Retains(w, recorded \ {idx})
        /\ \A i \in Instance \ {w} : Retains(i, Done(i))
        /\ Done(w) = recorded \cup {idx} /\ Held(w) = snap
    BY <1>1, UndoneOrderly
  <1>3. Elsewhere(w, idx)
    <2>1. CASE others # {} /\ idx = InstallStep
      BY <1>2, <2>1, ForgetsElsewhere
    <2>2. CASE ~(others # {} /\ idx = InstallStep)
      BY <1>2, <2>2, ForgetsElsewhere
    <2>3. QED  BY <2>1, <2>2
  <1>4. spoilt' = spoilt
    BY DEF Undone
  <1>5. ~(others # {} /\ idx = InstallStep) => idx \notin Done(w)'
    BY <1>2 DEF Retains
  <1>6. QED  BY <1>2, <1>3, <1>4, <1>5 DEF UndoOf

\* An nginx that was enabled and up is nobody's to stop.
LEMMA ReloadGiven ==
    ASSUME NEW w \in Instance, UndoOf(w, ReloadStep), UndoReload
    PROVE  GivenBack'
  <1>1. /\ UNCHANGED <<found, vhost, backup, link, site, siteBackup, pkg, enabled, switch, rules>>
        /\ \A i \in Instance : /\ Alike(i, InstallStep) /\ Alike(i, WriteStep) /\ Alike(i, EnableStep)
                               /\ Alike(i, SelinuxStep) /\ Alike(i, FirewallStep)
        /\ \A i \in Instance \ {w} : Alike(i, ReloadStep)
    BY StepsAre DEF UndoOf, Elsewhere, UndoReload, service, files, guards, fixed
  <1>2. \A i \in Instance : VhostLeft(i)' /\ LinkLeft(i)'
    BY <1>1, VhostStays, LinkStays DEF UndoOf, GivenBack
  <1>3. SiteLeft' /\ SwitchLeft' /\ (~spoilt' => RulesLeft')
    BY <1>1, SiteStays, SwitchStays, RulesStay DEF UndoOf, GivenBack
  <1>4. ServiceLeft'
    <2>1. ServiceLeft
      BY DEF UndoOf, GivenBack
    <2>2. ~Starts(w)' /\ (Starts(w) <=> snap.active = "CreatedByUs")
      BY DEF UndoOf, Starts
    <2>3. /\ \A i \in Instance \ {w} : Starts(i)' <=> Starts(i)
          /\ \A i \in Instance : Enables(i)' <=> Enables(i)
      BY <1>1, StartsAlike, EnablesAlike
    <2>4. CASE snap.active = "CreatedByUs"
      <3>1. ~active'
        BY <2>4 DEF UndoOf, UndoReload, Fault
      <3>2. \A i \in Instance : Starts(i)' => Starts(i)
        BY <2>2, <2>3
      <3>3. ~(found.active /\ found.enabled)
        BY <2>1, <2>2, <2>4 DEF ServiceLeft
      <3>4. enabled /\ ~found.enabled => \E i \in Instance : Enables(i)'
        BY <2>1, <2>3 DEF ServiceLeft
      <3>5. QED  BY <1>1, <2>1, <2>3, <3>1, <3>2, <3>3, <3>4 DEF ServiceLeft
    <2>5. CASE snap.active # "CreatedByUs"
      <3>1. UNCHANGED active
        BY <2>5 DEF UndoReload, service
      <3>2. \A i \in Instance : Starts(i)' <=> Starts(i)
        BY <2>2, <2>3, <2>5
      <3>3. UNCHANGED <<found, pkg, enabled, active>>
        BY <1>1, <3>1
      <3>4. QED  BY <2>1, <2>3, <3>2, <3>3, ServiceSame
    <2>6. QED  BY <2>4, <2>5
  <1>5. QED  BY <1>2, <1>3, <1>4 DEF GivenBack

\* No rule that was found is in a delta, and each other is in that of some instance.
LEMMA FirewallGiven ==
    ASSUME NEW w \in Instance, UndoOf(w, FirewallStep), UndoFirewall
    PROVE  GivenBack'
  <1>1. /\ UNCHANGED <<found, vhost, backup, link, site, siteBackup, pkg, enabled, active, switch>>
        /\ \A i \in Instance : /\ Alike(i, InstallStep) /\ Alike(i, WriteStep) /\ Alike(i, EnableStep)
                               /\ Alike(i, SelinuxStep) /\ Alike(i, ReloadStep)
        /\ \A i \in Instance \ {w} : Alike(i, FirewallStep)
    BY StepsAre DEF UndoOf, Elsewhere, UndoFirewall, service, files, fixed
  <1>2. \A i \in Instance : VhostLeft(i)' /\ LinkLeft(i)'
    BY <1>1, VhostStays, LinkStays DEF UndoOf, GivenBack
  <1>3. SiteLeft' /\ ServiceLeft' /\ SwitchLeft'
    BY <1>1, SiteStays, ServiceStays, SwitchStays DEF UndoOf, GivenBack
  <1>4. rules' = rules \ snap.delta
    <2>1. TypeOK /\ faults = 0 /\ faults' = 0
      BY DEF UndoOf, KeptInv, TypeInv
    <2>2. PICK done \in Parts(snap.delta) : rules' = rules \ done /\ Cost(done, snap.delta)
      BY DEF UndoFirewall
    <2>3. snap.delta \subseteq done
      BY <2>1, <2>2, FewPorts, AllDone
    <2>4. done = snap.delta
      BY <2>3 DEF Parts
    <2>5. QED  BY <2>2, <2>4
  <1>5. /\ \A p : ~Opens(w, p)' /\ (Opens(w, p) <=> p \in snap.delta)
        /\ \A i \in Instance \ {w} : \A p : Opens(i, p)' <=> Opens(i, p)
    BY <1>1, OpensAlike DEF UndoOf, Opens
  <1>6. ASSUME ~spoilt'  PROVE RulesLeft'
    <2>1. RulesLeft
      BY <1>6 DEF UndoOf, GivenBack
    <2>2. found.rules \subseteq rules'
      BY <1>4, <1>5, <2>1 DEF RulesLeft
    <2>3. ASSUME NEW p \in rules' \ found.rules  PROVE \E i \in Instance : Opens(i, p)'
      <3>1. PICK i \in Instance : Opens(i, p)
        BY <1>4, <2>1, <2>3 DEF RulesLeft
      <3>2. i # w
        BY <1>4, <1>5, <2>3, <3>1
      <3>3. QED  BY <1>5, <3>1, <3>2
    <2>4. \A i \in Instance : \A p \in found.rules : ~Opens(i, p)'
      BY <1>5, <2>1 DEF RulesLeft
    <2>5. QED  BY <1>1, <2>2, <2>3, <2>4 DEF RulesLeft
  <1>7. QED  BY <1>2, <1>3, <1>6 DEF GivenBack

LEMMA SelinuxGiven ==
    ASSUME NEW w \in Instance, UndoOf(w, SelinuxStep), UndoSelinux
    PROVE  GivenBack'
  <1>1. /\ UNCHANGED <<found, vhost, backup, link, site, siteBackup, pkg, enabled, active, rules>>
        /\ \A i \in Instance : /\ Alike(i, InstallStep) /\ Alike(i, WriteStep) /\ Alike(i, EnableStep)
                               /\ Alike(i, FirewallStep) /\ Alike(i, ReloadStep)
        /\ \A i \in Instance \ {w} : Alike(i, SelinuxStep)
    BY StepsAre DEF UndoOf, Elsewhere, UndoSelinux, service, files, fixed
  <1>2. \A i \in Instance : VhostLeft(i)' /\ LinkLeft(i)'
    BY <1>1, VhostStays, LinkStays DEF UndoOf, GivenBack
  <1>3. SiteLeft' /\ ServiceLeft' /\ (~spoilt' => RulesLeft')
    BY <1>1, SiteStays, ServiceStays, RulesStay DEF UndoOf, GivenBack
  <1>4. SwitchLeft'
    <2>1. SwitchLeft
      BY DEF UndoOf, GivenBack
    <2>2. ~Turns(w)' /\ (Turns(w) <=> snap.switch = "CreatedByUs")
      BY DEF UndoOf, Turns
    <2>3. \A i \in Instance \ {w} : Turns(i)' <=> Turns(i)
      BY <1>1, TurnsAlike
    <2>4. switch' = IF snap.switch = "CreatedByUs" THEN "off" ELSE switch
      BY DEF UndoOf, UndoSelinux, Fault
    <2>5. CASE snap.switch = "CreatedByUs"
      <3>1. found.switch = "off"
        BY <2>1, <2>2, <2>5 DEF SwitchLeft
      <3>2. \A i \in Instance : Turns(i)' => Turns(i)
        BY <2>2, <2>3
      <3>3. QED  BY <1>1, <2>1, <2>4, <2>5, <3>1, <3>2 DEF SwitchLeft
    <2>6. CASE snap.switch # "CreatedByUs"
      <3>1. \A i \in Instance : Turns(i)' <=> Turns(i)
        BY <2>2, <2>3, <2>6
      <3>2. QED  BY <1>1, <2>1, <2>4, <2>6, <3>1 DEF SwitchLeft
    <2>7. QED  BY <2>5, <2>6
  <1>5. QED  BY <1>2, <1>3, <1>4 DEF GivenBack

\* A default site that is away is put back by the instance that took it.
LEMMA EnableGiven ==
    ASSUME NEW w \in Instance, UndoOf(w, EnableStep), UndoEnable
    PROVE  GivenBack'
  <1>1. /\ UNCHANGED <<found, vhost, backup, pkg, enabled, active, switch, rules>>
        /\ \A i \in Instance : /\ Alike(i, InstallStep) /\ Alike(i, WriteStep) /\ Alike(i, SelinuxStep)
                               /\ Alike(i, FirewallStep) /\ Alike(i, ReloadStep)
        /\ \A i \in Instance \ {w} : Alike(i, EnableStep)
    BY StepsAre DEF UndoOf, Elsewhere, UndoEnable, service, guards, fixed
  <1>2. /\ link' = IF snap.link = "CreatedByUs" THEN [link EXCEPT ![w] = "absent"] ELSE link
        /\ IF snap.site = "link" \/ (snap.moved /\ siteBackup)
           THEN site' = snap.site ELSE UNCHANGED <<site, siteBackup>>
    <2>1. TypeOK /\ faults = 0 /\ faults' = 0 /\ w = who
      BY DEF UndoOf, KeptInv, TypeInv
    <2>2. PICK done \in Parts({"link", "site"}) :
             /\ link' = IF "link" \in done /\ snap.link = "CreatedByUs"
                        THEN [link EXCEPT ![who] = "absent"] ELSE link
             /\ IF "site" \in done /\ (snap.site = "link" \/ (snap.moved /\ siteBackup))
                THEN site' = snap.site /\ siteBackup' = (siteBackup /\ ~snap.moved)
                ELSE UNCHANGED <<site, siteBackup>>
             /\ Cost(done, {"link", "site"})
      BY DEF UndoEnable
    <2>3. {"link", "site"} \subseteq done
      BY <2>1, <2>2, TwoParts, AllDone
    <2>4. "link" \in done /\ "site" \in done
      BY <2>3
    <2>5. QED  BY <2>1, <2>2, <2>4
  <1>3. /\ link \in [Instance -> {"absent", "vhost", "elsewhere"}] /\ site \in Site /\ snap \in Snapshots
    BY RunTypes DEF UndoOf
  <1>4. /\ Held(w) = snap /\ EnableStep \in Done(w) /\ EnableStep \notin Done(w)'
    BY DEF UndoOf
  <1>5. LinkLeft(w)'
    <2>1. LinkLeft(w)
      BY DEF UndoOf, GivenBack
    <2>2. link'[w] = IF snap.link = "CreatedByUs" THEN "absent" ELSE link[w]
      BY <1>2, <1>3
    <2>3. QED  BY <1>1, <1>4, <2>1, <2>2 DEF LinkLeft
  <1>6. \A i \in Instance \ {w} : LinkLeft(i)'
    <2>1. \A i \in Instance \ {w} : link'[i] = link[i]
      BY <1>2, <1>3
    <2>2. QED  BY <1>1, <2>1, LinkStays DEF UndoOf, GivenBack
  <1>7. \A i \in Instance : VhostLeft(i)'
    BY <1>1, VhostStays DEF UndoOf, GivenBack
  <1>8. SiteLeft'
    <2>1. SUFFICES ASSUME found.pkg = "theirs"  PROVE SiteLeft'
      BY <1>1 DEF SiteLeft
    <2>2. /\ site = found.site \/ (site = "absent" /\ \E i \in Instance : Away(i))
          /\ \A i \in Instance : EnableStep \in Done(i) /\ Held(i).site \in {"link", "file"} => Held(i).site = found.site
      BY <2>1 DEF UndoOf, GivenBack, SiteLeft
    <2>3. \A i \in Instance :
             EnableStep \in Done(i)' /\ Held(i)'.site \in {"link", "file"} => Held(i)'.site = found.site
      BY <1>1, <1>4, <2>2, FieldsAre DEF Alike
    <2>4. snap.moved => snap.site = "file"
      BY DEF UndoOf, KeptInv, RecordsOK, RecordOK
    <2>5. site' = found.site \/ (site' = "absent" /\ \E i \in Instance : Away(i)')
      <3>1. CASE snap.site = "link" \/ (snap.moved /\ siteBackup)
        BY <1>2, <1>4, <2>2, <2>4, <3>1
      <3>2. CASE ~(snap.site = "link" \/ (snap.moved /\ siteBackup))
        <4>1. UNCHANGED <<site, siteBackup>>
          BY <1>2, <3>2
        <4>2. ~Away(w)
          BY <1>4, <3>2 DEF Away
        <4>3. \A i \in Instance \ {w} : Away(i) => Away(i)'
          BY <1>1, <4>1, AwayAlike
        <4>4. QED  BY <2>2, <4>1, <4>2, <4>3
      <3>3. QED  BY <3>1, <3>2
    <2>6. QED  BY <1>1, <2>3, <2>5 DEF SiteLeft
  <1>9. ServiceLeft' /\ SwitchLeft' /\ (~spoilt' => RulesLeft')
    BY <1>1, ServiceStays, SwitchStays, RulesStay DEF UndoOf, GivenBack
  <1>10. QED  BY <1>5, <1>6, <1>7, <1>8, <1>9 DEF GivenBack

\* The file goes when its link has gone, or comes back as it was.
LEMMA WriteGiven ==
    ASSUME NEW w \in Instance, UndoOf(w, WriteStep), UndoWrite
    PROVE  GivenBack'
  <1>1. /\ UNCHANGED <<found, link, site, siteBackup, pkg, enabled, active, switch, rules>>
        /\ \A i \in Instance : /\ Alike(i, InstallStep) /\ Alike(i, EnableStep) /\ Alike(i, SelinuxStep)
                               /\ Alike(i, FirewallStep) /\ Alike(i, ReloadStep)
        /\ \A i \in Instance \ {w} : Alike(i, WriteStep)
    BY StepsAre DEF UndoOf, Elsewhere, UndoWrite, service, guards, fixed
  <1>2. /\ vhost \in [Instance -> Whose] /\ backup \in [Instance -> SUBSET {"ours", "theirs"}]
        /\ snap \in Snapshots
    BY RunTypes DEF UndoOf
  <1>3. /\ Held(w) = snap /\ WriteStep \in Done(w) /\ WriteStep \notin Done(w)'
    BY DEF UndoOf
  <1>4. ~Fault /\ w = who
    BY DEF UndoOf, Fault
  <1>5. /\ snap.vhost = "CreatedByUs" => vhost' = [vhost EXCEPT ![w] = "absent"] /\ UNCHANGED backup
        /\ snap.vhost = "Preexisting" /\ snap.backup \in backup[w] =>
              /\ vhost' = [vhost EXCEPT ![w] = snap.backup]
              /\ backup' = [backup EXCEPT ![w] = backup[w] \ {snap.backup}]
        /\ snap.vhost # "CreatedByUs" /\ ~(snap.vhost = "Preexisting" /\ snap.backup \in backup[w]) =>
              UNCHANGED <<vhost, backup>>
    <2>1. CASE snap.vhost = "CreatedByUs"
      BY <1>4, <2>1 DEF UndoWrite
    <2>2. CASE snap.vhost = "Preexisting" /\ snap.backup \in backup[w]
      BY <1>4, <2>2 DEF UndoWrite
    <2>3. CASE snap.vhost # "CreatedByUs" /\ ~(snap.vhost = "Preexisting" /\ snap.backup \in backup[w])
      BY <1>4, <2>3 DEF UndoWrite
    <2>4. QED  BY <2>1, <2>2, <2>3
  <1>6. \A i \in Instance \ {w} : vhost'[i] = vhost[i] /\ backup'[i] = backup[i]
    BY <1>2, <1>5
  <1>7. vhost'[w] = found.vhost[w]
    <2>1. VhostLeft(w) /\ snap.vhost \in PreState /\ "none" \notin backup[w]
      BY <1>2 DEF UndoOf, GivenBack, Snapshots
    <2>2. CASE snap.vhost = "CreatedByUs"
      BY <1>2, <1>3, <1>5, <2>1, <2>2 DEF VhostLeft
    <2>3. CASE snap.vhost = "Preexisting" /\ snap.backup \in backup[w]
      BY <1>2, <1>3, <1>5, <2>1, <2>3 DEF VhostLeft
    <2>4. CASE snap.vhost = "Preexisting" /\ snap.backup \notin backup[w]
      BY <1>2, <1>3, <1>5, <2>1, <2>4 DEF VhostLeft
    <2>5. CASE snap.vhost = "Untracked"
      BY <1>2, <1>3, <1>5, <2>1, <2>5 DEF VhostLeft
    <2>6. QED  BY <2>1, <2>2, <2>3, <2>4, <2>5 DEF PreState
  <1>8. VhostLeft(w)'
    BY <1>1, <1>3, <1>7 DEF VhostLeft
  <1>9. LinkLeft(w)'
    <2>1. EnableStep \notin Done(w)
      <3>1. EnableStep \notin Lasting /\ EnableStep > idx /\ EnableStep # idx
        BY DEF UndoOf, Lasting
      <3>2. QED  BY <3>1 DEF UndoOf, Orderly
    <2>2. LinkLeft(w)
      BY DEF UndoOf, GivenBack
    <2>3. found.link[w] # "elsewhere" => link[w] = found.link[w]
      BY <2>1, <2>2 DEF LinkLeft
    <2>4. found.link[w] = "vhost" => found.vhost[w] # "absent"
      BY DEF UndoOf, FoundOnce
    <2>5. EnableStep \notin Done(w)'
      BY <1>1, <2>1 DEF UndoOf, Elsewhere, Alike
    <2>6. QED  BY <1>1, <1>7, <2>3, <2>4, <2>5 DEF LinkLeft
  <1>10. \A i \in Instance \ {w} : VhostLeft(i)' /\ LinkLeft(i)'
    BY <1>1, <1>6, VhostStays, LinkStays DEF UndoOf, GivenBack
  <1>11. SiteLeft' /\ ServiceLeft' /\ SwitchLeft' /\ (~spoilt' => RulesLeft')
    BY <1>1, SiteStays, ServiceStays, SwitchStays, RulesStay DEF UndoOf, GivenBack
  <1>12. QED  BY <1>8, <1>9, <1>10, <1>11 DEF GivenBack

\* What the undo of an installation does when nothing of it fails.
LEMMA InstallUndone ==
    ASSUME NEW w \in Instance, UndoOf(w, InstallStep), UndoInstall
    PROVE  \E stopped, purged \in BOOLEAN :
              /\ stopped <=> others = {} /\ snap.enabled = "CreatedByUs"
              /\ purged => others = {} /\ snap.installed = "CreatedByUs"
              /\ active' = (active /\ ~stopped /\ ~purged)
              /\ enabled' = (enabled /\ ~purged /\ ~stopped)
              /\ pkg' = IF purged THEN "absent" ELSE pkg
              /\ site' = IF purged THEN "absent" ELSE site
              /\ loaded' = IF ~active' THEN NotRunning ELSE IF Valid THEN OnDisk ELSE loaded
  <1> DEFINE all == {"stop", "disable", "purge", "reload"}
  <1>1. PICK done \in Parts(all), aggressive \in BOOLEAN :
          LET alone == others = {}
              stopped == alone /\ snap.enabled = "CreatedByUs" /\ "stop" \in done
              purged == alone /\ snap.installed = "CreatedByUs" /\ aggressive /\ "purge" \in done
              up == active /\ ~stopped /\ ~purged
          IN  /\ active' = up
              /\ enabled' = (enabled /\ ~purged
                               /\ ~(alone /\ snap.enabled = "CreatedByUs" /\ "disable" \in done))
              /\ pkg' = IF purged THEN "absent" ELSE pkg
              /\ site' = IF purged THEN "absent" ELSE site
              /\ loaded' = CASE ~up -> NotRunning
                             [] Reloads(up) /\ "reload" \in done -> OnDisk
                             [] OTHER -> loaded
              /\ Cost(done, all)
    BY DEF UndoInstall
  <1>2. all \subseteq done
    BY <1>1, AllDone, SmallSets DEF UndoOf, KeptInv, TypeInv
  <1>3. "stop" \in done /\ "disable" \in done /\ "purge" \in done /\ "reload" \in done
    BY <1>2
  <1>. HIDE DEF all
  <1> DEFINE stopped == others = {} /\ snap.enabled = "CreatedByUs"
             purged == others = {} /\ snap.installed = "CreatedByUs" /\ aggressive
  <1>4. stopped \in BOOLEAN /\ purged \in BOOLEAN
    OBVIOUS
  <1>5. active' = (active /\ ~stopped /\ ~purged)
    BY <1>1, <1>3
  <1>6. enabled' = (enabled /\ ~purged /\ ~stopped)
    BY <1>1, <1>3
  <1>7. /\ pkg' = IF purged THEN "absent" ELSE pkg
        /\ site' = IF purged THEN "absent" ELSE site
    BY <1>1, <1>3
  <1>8. loaded' = IF ~active' THEN NotRunning ELSE IF Valid THEN OnDisk ELSE loaded
    <2>1. PICK up \in BOOLEAN : up = active' /\ loaded' = CASE ~up -> NotRunning
                                                          [] Reloads(up) /\ "reload" \in done -> OnDisk
                                                          [] OTHER -> loaded
      BY <1>1, <1>5
    <2>2. loaded' = CASE ~up -> NotRunning [] Reloads(up) -> OnDisk [] OTHER -> loaded
      BY <1>3, <2>1
    <2>3. CASE ~up
      BY <2>1, <2>2, <2>3 DEF Reloads
    <2>4. CASE up /\ Valid
      BY <2>1, <2>2, <2>4 DEF Reloads
    <2>5. CASE up /\ ~Valid
      BY <2>1, <2>2, <2>5 DEF Reloads
    <2>6. QED  BY <2>3, <2>4, <2>5
  <1>9. QED  BY <1>4, <1>5, <1>6, <1>7, <1>8

\* What was enabled before is not disabled; a package that was there before is
\* not purged.
LEMMA InstallGiven ==
    ASSUME NEW w \in Instance, UndoOf(w, InstallStep), UndoInstall
    PROVE  GivenBack'
  <1>1. /\ UNCHANGED <<found, vhost, backup, link, siteBackup, switch, rules>>
        /\ \A i \in Instance : /\ Alike(i, WriteStep) /\ Alike(i, EnableStep) /\ Alike(i, SelinuxStep)
                               /\ Alike(i, FirewallStep) /\ Alike(i, ReloadStep)
        /\ \A i \in Instance \ {w} : Alike(i, InstallStep)
    BY StepsAre DEF UndoOf, Elsewhere, UndoInstall, guards, fixed
  <1>2. PICK stopped, purged \in BOOLEAN :
              /\ stopped <=> others = {} /\ snap.enabled = "CreatedByUs"
              /\ purged => others = {} /\ snap.installed = "CreatedByUs"
              /\ active' = (active /\ ~stopped /\ ~purged)
              /\ enabled' = (enabled /\ ~purged /\ ~stopped)
              /\ pkg' = IF purged THEN "absent" ELSE pkg
              /\ site' = IF purged THEN "absent" ELSE site
    BY InstallUndone
  <1>3. purged => found.pkg # "theirs"
    BY <1>2 DEF UndoOf, KeptInv, RecordsOK, RecordOK
  <1>4. \A i \in Instance : VhostLeft(i)' /\ LinkLeft(i)'
    BY <1>1, VhostStays, LinkStays DEF UndoOf, GivenBack
  <1>5. SiteLeft'
    <2>1. found.pkg = "theirs" => site' = site
      BY <1>2, <1>3
    <2>2. QED  BY <1>1, <2>1, SiteStays DEF UndoOf, GivenBack
  <1>6. SwitchLeft' /\ (~spoilt' => RulesLeft')
    BY <1>1, SwitchStays, RulesStay DEF UndoOf, GivenBack
  <1>7. ServiceLeft'
    <2>1. ServiceLeft /\ active \in BOOLEAN /\ enabled \in BOOLEAN
      BY RunTypes DEF UndoOf, GivenBack
    <2>2. /\ \A i \in Instance \ {w} : Enables(i)' <=> Enables(i)
          /\ \A i \in Instance : Starts(i)' <=> Starts(i)
      BY <1>1, StartsAlike, EnablesAlike
    <2>3. Enables(w) <=> snap.enabled = "CreatedByUs"
      BY DEF UndoOf, Enables
    <2>4. CASE stopped \/ purged
      <3>1. ~active' /\ ~enabled'
        BY <1>2, <2>4
      <3>2. ~Enables(w)'
        BY <1>2, <2>4 DEF UndoOf, Enables
      <3>3. \A i \in Instance : Enables(i)' => Enables(i)
        BY <2>2, <3>2
      <3>4. ~found.enabled
        <4>1. CASE purged
          BY <1>3, <4>1 DEF UndoOf, FoundOnce
        <4>2. CASE stopped
          BY <1>2, <2>1, <2>3, <4>2 DEF ServiceLeft
        <4>3. QED  BY <2>4, <4>1, <4>2
      <3>5. QED  BY <1>1, <2>1, <2>2, <3>1, <3>3, <3>4 DEF ServiceLeft
    <2>5. CASE ~stopped /\ ~purged
      <3>1. UNCHANGED <<found, pkg, enabled, active>>
        BY <1>1, <1>2, <2>1, <2>5
      <3>2. Enables(w)' <=> Enables(w)
        <4>1. CASE others = {}
          BY <1>2, <2>3, <2>5, <4>1 DEF UndoOf, Enables
        <4>2. CASE others # {} /\ InstallStep \in recorded
          <5>1. Alike(w, InstallStep)
            BY <4>2 DEF UndoOf, Retains, Alike
          <5>2. QED  BY <5>1, EnablesAlike
        <4>3. CASE others # {} /\ InstallStep \notin recorded
          <5>1. InstallStep \notin Done(w)'
            BY <4>3 DEF UndoOf, Retains
          <5>2. snap.enabled # "CreatedByUs"
            BY <4>3 DEF UndoOf, Ready
          <5>3. QED  BY <2>3, <5>1, <5>2 DEF Enables
        <4>4. QED  BY <4>1, <4>2, <4>3
      <3>3. \A i \in Instance : Enables(i)' <=> Enables(i)
        BY <2>2, <3>2
      <3>4. QED  BY <2>1, <2>2, <3>1, <3>3, ServiceSame
    <2>6. QED  BY <2>4, <2>5
  <1>8. QED  BY <1>4, <1>5, <1>6, <1>7 DEF GivenBack

\* A shared step that is not called keeps its record, or it has claimed nothing
\* others keep that could be undone later.
LEMMA LeaveSharedGiven ==
    ASSUME KeptInv, Orderly, GivenBack, Ready, NEW w \in Instance, w = who, LeaveShared
    PROVE  GivenBack'
  <1>1. /\ Retains(w, recorded) /\ \A i \in Instance \ {w} : Retains(i, Done(i))
        /\ idx \in {SelinuxStep, FirewallStep} /\ Done(w) = recorded \cup {idx} /\ Held(w) = snap
    BY LeaveSharedOrderly DEF KeptInv, TypeInv
  <1>2. others # {} /\ pc = "undo" /\ spoilt' = spoilt /\ UNCHANGED world
    BY DEF LeaveShared, HeldBack
  <1>3. UNCHANGED <<found, vhost, backup, link, site, siteBackup, pkg, enabled, active, switch, rules>>
    BY <1>2 DEF world, service, files, guards, fixed
  <1>4. CASE idx \in recorded
    <2>1. Done(w) = recorded
      BY <1>1, <1>4
    <2>2. AllRetain
      BY <1>1, <2>1 DEF AllRetain
    <2>3. QED  BY <1>2, <2>2, GivenBackStays
  <1>5. CASE idx \notin recorded
    <2>1. Elsewhere(w, idx)
      BY <1>1, ForgetsElsewhere
    <2>2. \A i \in Instance : /\ Alike(i, InstallStep) /\ Alike(i, WriteStep) /\ Alike(i, EnableStep)
                              /\ Alike(i, ReloadStep)
      BY <1>1, <2>1, StepsAre DEF Elsewhere
    <2>3. \A i \in Instance : VhostLeft(i)' /\ LinkLeft(i)'
      BY <1>3, <2>2, VhostStays, LinkStays DEF GivenBack
    <2>4. SiteLeft' /\ ServiceLeft'
      BY <1>3, <2>2, SiteStays, ServiceStays DEF GivenBack
    <2>5. spoilt
      BY <1>1, <1>2, <1>5 DEF Orderly, Lasting
    <2>6. SwitchLeft'
      <3>1. CASE idx = SelinuxStep
        <4>1. ~Turns(w) /\ ~Turns(w)'
          BY <1>1, <1>2, <1>5, <3>1 DEF Turns, Retains, Ready
        <4>2. \A i \in Instance \ {w} : Turns(i)' <=> Turns(i)
          BY <2>1, StepsAre, TurnsAlike DEF Elsewhere
        <4>3. \A i \in Instance : Turns(i)' <=> Turns(i)
          BY <4>1, <4>2
        <4>4. QED  BY <1>3, <4>3 DEF GivenBack, SwitchLeft
      <3>2. CASE idx = FirewallStep
        BY <1>3, <2>1, <3>2, StepsAre, SwitchStays DEF Elsewhere, GivenBack
      <3>3. QED  BY <1>1, <3>1, <3>2
    <2>7. QED  BY <1>2, <2>3, <2>4, <2>5, <2>6 DEF GivenBack
  <1>6. QED  BY <1>4, <1>5

-----------------------------------------------------------------------------
(* A command that nothing goes wrong in.                                     *)

\* Without with_nginx a run claims nothing.
LEMMA GatedRan ==
    ASSUME KeptInv, Orderly, GivenBack, Ready, NEW w \in Instance, w = who, pc = "run", Gated, Joins(w),
           UNCHANGED <<world, snap>>, spoilt => spoilt'
    PROVE  GivenBack'
  <1>1. idx \in Steps /\ snap \in Snapshots
    BY DEF KeptInv, TypeInv, TypeOK, ProcessType
  <1>2. UNCHANGED <<found, vhost, backup, link, site, siteBackup, pkg, enabled, active, switch, rules>>
    BY DEF world, service, files, guards, fixed
  <1>3. Elsewhere(w, idx)
    BY <1>1, JoinsElsewhere
  <1>4. Held(w) = snap /\ Held(w)' = snap /\ idx \notin Done(w) /\ Done(w)' = Done(w) \cup {idx}
    BY DEF Joins
  <1>5. idx # FirewallStep => \A f \in Fields(idx) : snap[f] = Default[f]
    BY <1>1, <1>4 DEF Ready, Blank, Orderly
  <1>6. /\ idx = InstallStep => snap.enabled = "Untracked"
        /\ idx = WriteStep => snap.vhost = "Untracked"
        /\ idx = EnableStep => snap.link = "Untracked" /\ snap.site = "absent"
        /\ idx = SelinuxStep => snap.switch = "Untracked"
        /\ idx = ReloadStep => snap.active = "Untracked"
    BY <1>5, FieldsAre DEF Default
  <1>7. idx = FirewallStep => snap.delta = {}
    BY InstanceAssumption DEF Ready, Delta, Wanted, Gated
  <1>8. \A i \in Instance : (Enables(i)' <=> Enables(i)) /\ (Starts(i)' <=> Starts(i)) /\ (Turns(i)' <=> Turns(i))
    <2>1. \A i \in Instance \ {w} : /\ Enables(i)' <=> Enables(i)
                                    /\ Starts(i)' <=> Starts(i)
                                    /\ Turns(i)' <=> Turns(i)
      BY <1>3, StepsAre, EnablesAlike, StartsAlike, TurnsAlike DEF Elsewhere
    <2>2. Enables(w)' <=> Enables(w)
      BY <1>4, <1>6 DEF Enables
    <2>3. Starts(w)' <=> Starts(w)
      BY <1>4, <1>6 DEF Starts
    <2>4. Turns(w)' <=> Turns(w)
      BY <1>4, <1>6 DEF Turns
    <2>5. QED  BY <2>1, <2>2, <2>3, <2>4
  <1>9. \A i \in Instance : \A p : Opens(i, p)' <=> Opens(i, p)
    <2>1. \A i \in Instance \ {w} : \A p : Opens(i, p)' <=> Opens(i, p)
      BY <1>3, StepsAre, OpensAlike DEF Elsewhere
    <2>2. \A p : Opens(w, p)' <=> Opens(w, p)
      BY <1>4, <1>7 DEF Opens
    <2>3. QED  BY <2>1, <2>2
  <1>10. ServiceLeft'
    BY <1>2, <1>8, ServiceSame DEF GivenBack
  <1>11. SwitchLeft' /\ (~spoilt' => RulesLeft')
    BY <1>2, <1>8, <1>9 DEF GivenBack, SwitchLeft, RulesLeft
  <1>12. \A i \in Instance \ {w} : VhostLeft(i)' /\ LinkLeft(i)'
    BY <1>2, <1>3, StepsAre, VhostStays, LinkStays DEF Elsewhere, GivenBack
  <1>13. VhostLeft(w)'
    <2>1. CASE idx = WriteStep
      BY <1>2, <1>4, <1>6, <2>1 DEF GivenBack, VhostLeft
    <2>2. CASE idx # WriteStep
      BY <1>2, <1>3, <2>2, StepsAre, VhostStays DEF Elsewhere, GivenBack
    <2>3. QED  BY <2>1, <2>2
  <1>14. LinkLeft(w)'
    <2>1. CASE idx = EnableStep
      BY <1>2, <1>4, <1>6, <2>1 DEF GivenBack, LinkLeft
    <2>2. CASE idx # EnableStep
      BY <1>2, <1>3, <2>2, StepsAre, LinkStays DEF Elsewhere, GivenBack
    <2>3. QED  BY <2>1, <2>2
  <1>15. SiteLeft'
    <2>1. \A i \in Instance : Away(i) => Away(i)'
      <3>1. \A i \in Instance \ {w} : Away(i) => Away(i)'
        BY <1>2, <1>3, StepsAre, AwayAlike DEF Elsewhere
      <3>2. Away(w) => Away(w)'
        BY <1>2, <1>4 DEF Away
      <3>3. QED  BY <3>1, <3>2
    <2>2. ASSUME NEW i \in Instance, EnableStep \in Done(i)', Held(i)'.site \in {"link", "file"}
          PROVE  EnableStep \in Done(i) /\ Held(i).site = Held(i)'.site
      <3>1. CASE i = w
        BY <1>4, <1>6, <2>2, <3>1
      <3>2. CASE i # w
        BY <1>3, <2>2, <3>2, StepsAre, FieldsAre DEF Elsewhere, Alike
      <3>3. QED  BY <3>1, <3>2
    <2>3. QED  BY <1>2, <2>1, <2>2 DEF GivenBack, SiteLeft
  <1>16. QED  BY <1>10, <1>11, <1>12, <1>13, <1>14, <1>15 DEF GivenBack

LEMMA OnDiskStays ==
    ASSUME UNCHANGED <<vhost, link, site, family>>  PROVE OnDisk' = OnDisk
  BY DEF OnDisk, Config, ServedBy

LEMMA ServedStays ==
    ASSUME Served, UNCHANGED <<vhost, link, site, family, found, active, loaded>>, Pending => Pending'
    PROVE  Served'
  BY OnDiskStays DEF Served, LinksAreOurs

LEMMA WorldStays ==
    ASSUME UNCHANGED world
    PROVE  UNCHANGED <<vhost, link, site, family, found, active, loaded, pkg, enabled, switch, rules, walled>>
  BY DEF world, service, files, guards, fixed

\* What is undone next has a record; an undo that began above the installation
\* of the package comes to it.
LEMMA BelowReady ==
    ASSUME TypeOK, pc \in {"snapshot", "undo"}, NEW K \in SUBSET recorded, UndoBelow(idx, K)
    PROVE  Ready' /\ (idx > InstallStep /\ InstallStep \in K => Pending')
  <1> DEFINE todo == {j \in K : j < idx}
  <1>1. CASE todo = {}
    <2>1. pc' = "idle"
      BY <1>1 DEF UndoBelow, Exit
    <2>2. ~(idx > InstallStep /\ InstallStep \in K)
      BY <1>1, ProcessTypes
    <2>3. QED  BY <2>1, <2>2 DEF Ready
  <1>2. CASE todo # {}
    <2>1. pc' = "undo" /\ idx' = Max(todo) /\ recorded' = K /\ UNCHANGED who
      BY <1>2 DEF UndoBelow
    <2>2. todo \in SUBSET Steps
      BY ProcessTypes
    <2>3. Max(todo) \in todo /\ \A k \in todo : ~(k > Max(todo))
      BY <1>2, <2>2, MaxIn
    <2>4. idx' \in recorded' /\ idx' \in Steps
      BY <2>1, <2>2, <2>3
    <2>5. Ready'
      BY <2>1, <2>4 DEF Ready
    <2>6. ASSUME idx > InstallStep, InstallStep \in K  PROVE Pending'
      <3>1. InstallStep \in todo
        BY <2>6, ProcessTypes
      <3>2. ~(InstallStep > idx')
        BY <2>1, <2>3, <3>1
      <3>3. idx' >= 2
        BY <2>4, <3>2 DEF Steps
      <3>4. InstallStep \in Done(who)'
        BY <2>1, <2>6 DEF Done, Busy
      <3>5. QED  BY <2>1, <3>3, <3>4 DEF Pending
    <2>7. QED  BY <2>5, <2>6
  <1>3. QED  BY <1>1, <1>2

LEMMA CommandsIntact ==
    ASSUME TypeOK, Intact, (\E i \in Instance : Install(i) \/ Rollback(i)) \/ Stops \/ Skip \/ Finish
    PROVE  Intact'
  <1>1. who \in Instance /\ recorded \in SUBSET Steps
    BY ProcessTypes
  <1>2. UNCHANGED world /\ (spoilt => spoilt')
    <2>1. ASSUME NEW i \in Instance, Install(i)  PROVE UNCHANGED world /\ (spoilt => spoilt')
      BY <2>1 DEF Install, Begin
    <2>2. ASSUME NEW i \in Instance, Rollback(i)  PROVE UNCHANGED world /\ (spoilt => spoilt')
      BY <2>2 DEF Rollback, BeginRollback
    <2>3. CASE Stops \/ Skip \/ Finish
      BY <2>3 DEF Stops, Skip, Finish, Finished
    <2>4. QED  BY <2>1, <2>2, <2>3
  <1>3. UNCHANGED <<vhost, link, site, family, found, active, loaded>>
    BY <1>2, WorldStays
  <1>4. CASE \E i \in Instance : Install(i)
    <2>1. PICK i \in Instance : Install(i)
      BY <1>4
    <2>2. Orderly' /\ AllRetain /\ recorded' \subseteq Lasting
      BY <2>1, BeginOrderly DEF Intact
    <2>3. pc = "idle" /\ pc' = "snapshot"
      BY <2>1 DEF Install, Begin
    <2>4. Ready'
      BY <2>2, <2>3 DEF Ready, Lasting
    <2>5. Served'
      BY <1>3, <2>3, ServedStays DEF Intact, Pending
    <2>6. QED  BY <1>2, <2>2, <2>4, <2>5, GivenBackStays DEF Intact
  <1>5. CASE \E i \in Instance : Rollback(i)
    <2>1. PICK i \in Instance : Rollback(i)
      BY <1>5
    <2>2. Orderly' /\ AllRetain /\ idx' \in recorded'
      BY <2>1, BeginRollbackOrderly DEF Intact
    <2>3. pc = "idle" /\ pc' = "undo"
      BY <2>1 DEF Rollback, BeginRollback
    <2>4. Ready'
      BY <2>2, <2>3 DEF Ready
    <2>5. Served'
      BY <1>3, <2>3, ServedStays DEF Intact, Pending
    <2>6. QED  BY <1>2, <2>2, <2>4, <2>5, GivenBackStays DEF Intact
  <1>6. CASE Stops
    <2>1. Orderly' /\ AllRetain
      BY <1>1, <1>6, StopsOrderly DEF Intact
    <2>2. pc = "snapshot" /\ UndoBelow(idx, recorded)
      BY <1>6 DEF Stops
    <2>3. Ready' /\ (idx > InstallStep /\ InstallStep \in recorded => Pending')
      BY <2>2, BelowReady
    <2>4. Pending => Pending'
      BY <2>2, <2>3 DEF Pending
    <2>5. Served'
      BY <1>3, <2>4, ServedStays DEF Intact
    <2>6. QED  BY <1>2, <2>1, <2>3, <2>5, GivenBackStays DEF Intact
  <1>7. CASE Skip
    <2>1. Orderly' /\ AllRetain
      BY <1>1, <1>7, SkipOrderly DEF Intact
    <2>2. /\ pc = "snapshot" /\ pc' = "snapshot" /\ idx \in recorded /\ idx' = idx + 1
          /\ UNCHANGED <<who, recorded>>
      BY <1>7 DEF Skip
    <2>3. Ready'
      BY <1>3, <2>2 DEF Intact, Ready, Gated
    <2>4. idx # ReloadStep
      BY <2>2 DEF Intact, Orderly, Lasting
    <2>5. Pending => Pending'
      <3>1. idx \in 3 .. 7 => idx' \in 3 .. 7
        BY <1>1, <2>2, <2>4
      <3>2. QED  BY <2>2, <3>1 DEF Pending, Gated
    <2>6. Served'
      BY <1>3, <2>5, ServedStays DEF Intact
    <2>7. QED  BY <1>2, <2>1, <2>3, <2>6, GivenBackStays DEF Intact
  <1>8. CASE Finish
    <2>1. Orderly' /\ AllRetain
      BY <1>1, <1>8, FinishOrderly DEF Intact, Finish
    <2>2. pc = "snapshot" /\ idx = 8 /\ pc' = "idle"
      BY <1>8 DEF Finish, Finished, Exit
    <2>3. Ready'
      BY <2>2 DEF Ready
    <2>4. Served'
      BY <1>3, <2>2, ServedStays DEF Intact, Pending
    <2>5. QED  BY <1>2, <2>1, <2>3, <2>4, GivenBackStays DEF Intact
  <1>9. QED  BY <1>4, <1>5, <1>6, <1>7, <1>8

\* A snapshot looks at the machine as it is, and at what its own step is about.
LEMMA SnapshotsLook ==
    ASSUME TypeOK, Orderly,
           \/ SnapshotBase \/ SnapshotInstall \/ SnapshotWrite \/ SnapshotEnable
           \/ SnapshotSelinux \/ SnapshotFirewall \/ SnapshotReload
    PROVE  /\ pc = "snapshot" /\ idx \in Steps /\ idx \notin recorded /\ Snapshotted(snap')
           /\ \A f \in DOMAIN Default \ Fields(idx) : snap'[f] = snap[f]
           /\ Gated /\ idx # FirewallStep => snap' = snap
           /\ ~Gated =>
                 /\ idx = InstallStep => /\ snap'.installed = Verdict(pkg # "absent")
                                         /\ snap'.enabled = Verdict(enabled)
                 /\ idx = WriteStep => snap'.vhost = Verdict(vhost[who] # "absent") /\ snap'.backup = "none"
                 /\ idx = EnableStep => /\ snap'.link = Verdict(link[who] # "absent")
                                        /\ snap'.site = site /\ ~snap'.moved
                 /\ idx = SelinuxStep => snap'.switch = Verdict(switch = "on")
                 /\ idx = ReloadStep => snap'.active = Verdict(active)
           /\ idx = FirewallStep => snap'.delta = Delta
  <1>1. snap \in Snapshots
    BY ProcessTypes
  <1>2. CASE SnapshotBase
    <2>1. pc = "snapshot" /\ idx = 1 /\ idx \notin recorded /\ snap' = snap /\ Snapshotted(snap)
      BY <1>2 DEF SnapshotBase, At, Snapshotted
    <2>2. QED  BY <2>1, StepsAre
  <1>3. CASE SnapshotInstall
    <2>1. pc = "snapshot" /\ idx = 2 /\ idx \notin recorded
      BY <1>3 DEF SnapshotInstall, At
    <2>2. /\ snap' = IF Gated THEN snap ELSE
                [snap EXCEPT !.installed = Verdict(pkg # "absent"), !.enabled = Verdict(enabled)]
          /\ Snapshotted(snap')
      BY <1>3 DEF SnapshotInstall, Snapshotted
    <2>3. \A f \in DOMAIN Default \ {"installed", "enabled"} : snap'[f] = snap[f]
      BY <1>1, <2>2 DEF Snapshots, Default
    <2>4. ~Gated => snap'.installed = Verdict(pkg # "absent") /\ snap'.enabled = Verdict(enabled)
      BY <1>1, <2>2 DEF Snapshots
    <2>5. QED  BY <2>1, <2>2, <2>3, <2>4, StepsAre, FieldsAre
  <1>4. CASE SnapshotWrite
    <2>1. pc = "snapshot" /\ idx = 3 /\ idx \notin recorded
      BY <1>4 DEF SnapshotWrite, At
    <2>2. /\ snap' = IF Gated THEN snap ELSE [snap EXCEPT !.vhost = Verdict(vhost[who] # "absent")]
          /\ Snapshotted(snap')
      BY <1>4 DEF SnapshotWrite, Snapshotted
    <2>3. \A f \in DOMAIN Default \ {"vhost", "backup"} : snap'[f] = snap[f]
      BY <1>1, <2>2 DEF Snapshots, Default
    <2>4. ~Gated => snap'.vhost = Verdict(vhost[who] # "absent") /\ snap'.backup = snap.backup
      BY <1>1, <2>2 DEF Snapshots
    <2>5. snap.backup = "none"
      BY <2>1, StepsAre, FieldsAre DEF Orderly, Blank, Default
    <2>6. QED  BY <2>1, <2>2, <2>3, <2>4, <2>5, StepsAre, FieldsAre
  <1>5. CASE SnapshotEnable
    <2>1. pc = "snapshot" /\ idx = 4 /\ idx \notin recorded
      BY <1>5 DEF SnapshotEnable, At
    <2>2. /\ snap' = IF Gated THEN snap ELSE [snap EXCEPT !.link = Verdict(link[who] # "absent"), !.site = site]
          /\ Snapshotted(snap')
      BY <1>5 DEF SnapshotEnable, Snapshotted
    <2>3. \A f \in DOMAIN Default \ {"link", "site", "moved"} : snap'[f] = snap[f]
      BY <1>1, <2>2 DEF Snapshots, Default
    <2>4. ~Gated => snap'.link = Verdict(link[who] # "absent") /\ snap'.site = site /\ snap'.moved = snap.moved
      BY <1>1, <2>2 DEF Snapshots
    <2>5. ~snap.moved
      BY <2>1, StepsAre, FieldsAre DEF Orderly, Blank, Default
    <2>6. QED  BY <2>1, <2>2, <2>3, <2>4, <2>5, StepsAre, FieldsAre
  <1>6. CASE SnapshotSelinux
    <2>1. pc = "snapshot" /\ idx = 5 /\ idx \notin recorded
      BY <1>6 DEF SnapshotSelinux, At
    <2>2. /\ snap' = IF Gated THEN snap ELSE [snap EXCEPT !.switch = Verdict(switch = "on")]
          /\ Snapshotted(snap')
      BY <1>6 DEF SnapshotSelinux, Snapshotted
    <2>3. \A f \in DOMAIN Default \ {"switch"} : snap'[f] = snap[f]
      BY <1>1, <2>2 DEF Snapshots, Default
    <2>4. ~Gated => snap'.switch = Verdict(switch = "on")
      BY <1>1, <2>2 DEF Snapshots
    <2>5. QED  BY <2>1, <2>2, <2>3, <2>4, StepsAre, FieldsAre
  <1>7. CASE SnapshotFirewall
    <2>1. pc = "snapshot" /\ idx = 6 /\ idx \notin recorded
      BY <1>7 DEF SnapshotFirewall, At
    <2>2. snap' = [snap EXCEPT !.delta = Delta] /\ Snapshotted(snap')
      BY <1>7 DEF SnapshotFirewall, Snapshotted
    <2>3. \A f \in DOMAIN Default \ {"delta"} : snap'[f] = snap[f]
      BY <1>1, <2>2 DEF Snapshots, Default
    <2>4. snap'.delta = Delta
      BY <1>1, <2>2 DEF Snapshots
    <2>5. QED  BY <2>1, <2>2, <2>3, <2>4, StepsAre, FieldsAre
  <1>8. CASE SnapshotReload
    <2>1. pc = "snapshot" /\ idx = 7 /\ idx \notin recorded
      BY <1>8 DEF SnapshotReload, At
    <2>2. /\ snap' = IF Gated THEN snap ELSE [snap EXCEPT !.active = Verdict(active)]
          /\ Snapshotted(snap')
      BY <1>8 DEF SnapshotReload, Snapshotted
    <2>3. \A f \in DOMAIN Default \ {"active"} : snap'[f] = snap[f]
      BY <1>1, <2>2 DEF Snapshots, Default
    <2>4. ~Gated => snap'.active = Verdict(active)
      BY <1>1, <2>2 DEF Snapshots
    <2>5. QED  BY <2>1, <2>2, <2>3, <2>4, StepsAre, FieldsAre
  <1>9. QED  BY <1>2, <1>3, <1>4, <1>5, <1>6, <1>7, <1>8

LEMMA SnapshotsIntact ==
    ASSUME TypeOK, Intact,
           \/ SnapshotBase \/ SnapshotInstall \/ SnapshotWrite \/ SnapshotEnable
           \/ SnapshotSelinux \/ SnapshotFirewall \/ SnapshotReload
    PROVE  Intact'
  <1>1. who \in Instance /\ recorded \in SUBSET Steps
    BY ProcessTypes
  <1>2. /\ pc = "snapshot" /\ idx \in Steps /\ idx \notin recorded /\ Snapshotted(snap')
        /\ \A f \in DOMAIN Default \ Fields(idx) : snap'[f] = snap[f]
        /\ Gated /\ idx # FirewallStep => snap' = snap
        /\ ~Gated =>
              /\ idx = InstallStep => /\ snap'.installed = Verdict(pkg # "absent")
                                      /\ snap'.enabled = Verdict(enabled)
              /\ idx = WriteStep => snap'.vhost = Verdict(vhost[who] # "absent") /\ snap'.backup = "none"
              /\ idx = EnableStep => /\ snap'.link = Verdict(link[who] # "absent")
                                     /\ snap'.site = site /\ ~snap'.moved
              /\ idx = SelinuxStep => snap'.switch = Verdict(switch = "on")
              /\ idx = ReloadStep => snap'.active = Verdict(active)
        /\ idx = FirewallStep => snap'.delta = Delta
    BY SnapshotsLook DEF Intact
  <1>3. /\ pc' = "run" /\ UNCHANGED world /\ UNCHANGED <<idx, recorded, who, spoilt>>
    BY <1>2 DEF Snapshotted
  <1>4. Orderly' /\ AllRetain
    BY <1>1, <1>2, SnapshotOrderly DEF Intact
  <1>5. UNCHANGED <<vhost, link, site, family, found, active, loaded, pkg, enabled, switch, rules, walled>>
    BY <1>3, WorldStays
  <1>6. Served'
    <2>1. Pending => Pending'
      BY <1>2, <1>3 DEF Pending, Gated
    <2>2. QED  BY <1>5, <2>1, ServedStays DEF Intact
  <1>7. Ready'
    <2>1. (Gated' <=> Gated) /\ Delta' = Delta
      BY <1>3, <1>5 DEF Gated, Delta, Wanted
    <2>2. ~Gated /\ WriteStep \in recorded => vhost[who] # "absent"
      BY <1>2 DEF Intact, Ready
    <2>3. Gated /\ idx # FirewallStep => Blank(snap', recorded)
      BY <1>2 DEF Intact, Orderly
    <2>4. QED  BY <1>2, <1>3, <1>5, <2>1, <2>2, <2>3 DEF Ready, Blank
  <1>8. QED  BY <1>3, <1>4, <1>6, <1>7, GivenBackStays DEF Intact

LEMMA ClaimsAre ==
    ASSUME KeptInv, NEW far \in 0 .. 2
    PROVE  /\ idx = Base => Claims(far) = snap
           /\ idx = InstallStep => Claims(far) = InstallClaims(far)
           /\ idx = WriteStep => Claims(far) = WriteClaims(far)
           /\ idx = EnableStep => Claims(far) = EnableClaims(far)
           /\ idx = SelinuxStep => Claims(far) = SelinuxClaims(far)
           /\ idx = FirewallStep => Claims(far) = snap
           /\ idx = ReloadStep => Claims(far) = ReloadClaims(far)
  BY DEF Claims

\* A run claims only what its own step is about.
LEMMA ClaimsOwn ==
    ASSUME KeptInv, NEW far \in 0 .. 2, idx \in Steps
    PROVE  \A f \in DOMAIN Default \ Fields(idx) : Claims(far)[f] = snap[f]
  <1>1. snap \in Snapshots
    BY RunTypes
  <1>2. CASE idx = 1
    BY <1>2, ClaimsAre
  <1>3. CASE idx = 2
    <2>1. \A f \in DOMAIN Default \ {"installed", "enabled"} : InstallClaims(far)[f] = snap[f]
      BY <1>1 DEF InstallClaims, Snapshots, Default
    <2>2. QED  BY <1>3, <2>1, ClaimsAre, FieldsAre
  <1>4. CASE idx = 3
    <2>1. \A f \in DOMAIN Default \ {"vhost", "backup"} : WriteClaims(far)[f] = snap[f]
      BY <1>1 DEF WriteClaims, Snapshots, Default
    <2>2. QED  BY <1>4, <2>1, ClaimsAre, FieldsAre
  <1>5. CASE idx = 4
    <2>1. \A f \in DOMAIN Default \ {"link", "site", "moved"} : EnableClaims(far)[f] = snap[f]
      BY <1>1 DEF EnableClaims, Snapshots, Default
    <2>2. QED  BY <1>5, <2>1, ClaimsAre, FieldsAre
  <1>6. CASE idx = 5
    <2>1. \A f \in DOMAIN Default \ {"switch"} : SelinuxClaims(far)[f] = snap[f]
      BY <1>1 DEF SelinuxClaims, Snapshots, Default
    <2>2. QED  BY <1>6, <2>1, ClaimsAre, FieldsAre
  <1>7. CASE idx = 6
    BY <1>7, ClaimsAre
  <1>8. CASE idx = 7
    <2>1. \A f \in DOMAIN Default \ {"active"} : ReloadClaims(far)[f] = snap[f]
      BY <1>1 DEF ReloadClaims, Snapshots, Default
    <2>2. QED  BY <1>8, <2>1, ClaimsAre, FieldsAre
  <1>9. QED  BY <1>2, <1>3, <1>4, <1>5, <1>6, <1>7, <1>8, StepsAre

LEMMA FailsAtAre ==
    /\ idx \in {Base, InstallStep, SelinuxStep, ReloadStep} => FailsAt = {0}
    /\ idx = EnableStep => FailsAt = {0, 1}
    /\ idx \in {WriteStep, FirewallStep} => FailsAt = {0, 1, 2}
  BY DEF FailsAt

\* Whatever a run gets done the machine can be given back.
LEMMA RunGives ==
    ASSUME KeptInv, FoundOnce, Intact, NEW w \in Instance, w = who, pc = "run", ~Gated, Joins(w),
           NEW far \in FailsAt \cup {2}, Effect(far), snap' = Claims(far), spoilt => spoilt'
    PROVE  GivenBack' /\ (far = 2 /\ idx = WriteStep => vhost'[w] = "ours")
  <1>1. idx \in Steps
    BY DEF KeptInv, TypeInv, TypeOK, ProcessType
  <1>2. /\ far \in 0 .. 2
        /\ idx \in {Base, InstallStep, SelinuxStep, ReloadStep} => far \in {0, 2}
    BY <1>1, FailsAtAre, StepsAre
  <1>3. Elsewhere(w, idx)
    BY <1>1, <1>2, ClaimsOwn, JoinsElsewhere
  <1>4. RunOf(w, idx)
    BY <1>3 DEF RunOf, Intact
  <1>5. CASE idx = Base
    BY <1>3, <1>5, BaseStays DEF Effect, Intact
  <1>6. CASE idx = InstallStep
    BY <1>2, <1>4, <1>6, InstallRan, ClaimsAre DEF Effect
  <1>7. CASE idx = WriteStep
    BY <1>2, <1>4, <1>7, WriteRan, ClaimsAre DEF Effect
  <1>8. CASE idx = EnableStep
    BY <1>2, <1>4, <1>8, EnableRan, ClaimsAre DEF Effect
  <1>9. CASE idx = SelinuxStep
    BY <1>2, <1>4, <1>9, SelinuxRan, ClaimsAre DEF Effect
  <1>10. CASE idx = FirewallStep
    BY <1>2, <1>4, <1>10, FirewallRan, ClaimsAre DEF Effect
  <1>11. CASE idx = ReloadStep
    BY <1>2, <1>4, <1>11, ReloadRan, ClaimsAre DEF Effect
  <1>12. QED
    BY <1>1, <1>5, <1>6, <1>7, <1>8, <1>9, <1>10, <1>11, StepsAre

LEMMA EffectVhost ==
    ASSUME NEW far, Effect(far), idx # WriteStep  PROVE UNCHANGED vhost
  BY DEF Effect, InstallEffect, EnableEffect, SelinuxEffect, FirewallEffect, ReloadEffect, world, files

LEMMA EffectFixed ==
    ASSUME NEW far, Effect(far)  PROVE UNCHANGED fixed
  BY DEF Effect, InstallEffect, WriteEffect, EnableEffect, SelinuxEffect, FirewallEffect, ReloadEffect, world

LEMMA RunIntact ==
    ASSUME KeptInv, FoundOnce, Intact, RunStep
    PROVE  Intact'
  <1>1. PICK w \in Instance : w = who
    BY RunTypes
  <1>2. TypeOK /\ idx \in Steps /\ recorded \in SUBSET Steps
    BY RunTypes DEF KeptInv, TypeInv, TypeOK, ProcessType, RunStep
  <1>3. /\ pc = "run" /\ Ran /\ pc' = "snapshot" /\ idx' = idx + 1 /\ recorded' = recorded \cup {idx}
        /\ who' = who /\ spoilt' = spoilt
    BY DEF RunStep, Ran
  <1>4. \A f \in DOMAIN Default \ Fields(idx) : snap'[f] = snap[f]
    <2>1. CASE Gated
      BY <2>1 DEF RunStep
    <2>2. CASE ~Gated
      BY <1>2, <2>2, ClaimsOwn DEF RunStep
    <2>3. QED  BY <2>1, <2>2
  <1>5. Orderly' /\ Joins(w)
    BY <1>1, <1>2, <1>3, <1>4, RanOrderly DEF Intact
  <1>6. CASE Gated
    <2>1. UNCHANGED world /\ UNCHANGED snap
      BY <1>6 DEF RunStep
    <2>2. GivenBack'
      BY <1>1, <1>3, <1>5, <1>6, <2>1, GatedRan DEF Intact
    <2>3. Ready'
      BY <1>3, <1>6 DEF Ready, Gated
    <2>4. ~Pending
      BY <1>3, <1>6 DEF Pending
    <2>5. Served'
      BY <2>1, <2>4, WorldStays, ServedStays DEF Intact
    <2>6. QED  BY <1>5, <2>2, <2>3, <2>5 DEF Intact
  <1>7. CASE ~Gated
    <2>1. Effect(2) /\ snap' = Claims(2)
      BY <1>7 DEF RunStep
    <2>2. GivenBack' /\ (idx = WriteStep => vhost'[w] = "ours")
      BY <1>1, <1>3, <1>5, <1>7, <2>1, RunGives
    <2>3. Ready'
      <3>1. ASSUME WriteStep \in recorded'  PROVE vhost'[who] # "absent"
        <4>1. CASE idx = WriteStep
          BY <1>1, <2>2, <4>1
        <4>2. CASE idx # WriteStep
          <5>1. WriteStep \in recorded
            BY <1>3, <3>1, <4>2
          <5>2. vhost[who] # "absent"
            BY <1>3, <1>7, <5>1 DEF Intact, Ready
          <5>3. QED  BY <2>1, <4>2, <5>2, EffectVhost
        <4>3. QED  BY <4>1, <4>2
      <3>2. QED  BY <1>3, <3>1 DEF Ready
    <2>4. Served'
      <3>1. CASE idx = Base
        <4>1. UNCHANGED world
          BY <2>1, <3>1 DEF Effect
        <4>2. ~Pending
          BY <1>3, <3>1 DEF Pending
        <4>3. QED  BY <4>1, <4>2, WorldStays, ServedStays DEF Intact
      <3>2. CASE idx \in 2 .. 6
        <4>1. InstallStep \in recorded'
          <5>1. CASE idx = 2
            BY <1>3, <5>1
          <5>2. CASE idx \in 3 .. 6
            BY <1>3, <5>2, StepsAre DEF Intact, Orderly
          <5>3. QED  BY <3>2, <5>1, <5>2
        <4>2. idx' \in 3 .. 7
          BY <1>3, <3>2
        <4>3. QED  BY <1>3, <1>7, <4>1, <4>2 DEF Served, Pending, Gated
      <3>3. CASE idx = ReloadStep
        <4>1. loaded' = OnDisk /\ UNCHANGED <<vhost, link, site, family>>
          BY <2>1, <3>3 DEF Effect, ReloadEffect, files, fixed
        <4>2. QED  BY <4>1, OnDiskStays DEF Served
      <3>4. QED  BY <1>2, <3>1, <3>2, <3>3, StepsAre
    <2>5. QED  BY <1>5, <2>2, <2>3, <2>4 DEF Intact
  <1>8. QED  BY <1>6, <1>7

\* A run that fails half-way has claimed nothing that it does not undo itself.
LEMMA FailsIntact ==
    ASSUME KeptInv, FoundOnce, Intact, RunFails
    PROVE  Intact'
  <1>1. PICK w \in Instance : w = who
    BY RunTypes
  <1>2. PICK far \in FailsAt : Effect(far) /\ snap' = Claims(far)
    BY DEF RunFails
  <1>3. TypeOK /\ idx \in Steps /\ recorded \in SUBSET Steps
    BY RunTypes DEF KeptInv, TypeInv, TypeOK, ProcessType, RunFails
  <1>4. /\ pc = "run" /\ ~Gated /\ Failed /\ pc' = "undo" /\ UNCHANGED <<who, idx, recorded>>
    BY DEF RunFails, Failed
  <1>5. spoilt => spoilt'
    BY <1>4 DEF Failed
  <1>6. Orderly' /\ Joins(w)
    BY <1>1, <1>3, <1>4, FailedOrderly DEF Intact
  <1>7. GivenBack'
    BY <1>1, <1>2, <1>4, <1>5, <1>6, RunGives
  <1>8. idx \in {Base, InstallStep, SelinuxStep, ReloadStep} => far = 0
    BY <1>2, FailsAtAre
  <1>9. Ready'
    <2>1. snap \in Snapshots
      BY RunTypes
    <2>2. CASE idx = InstallStep
      <3>1. snap' = InstallClaims(0)
        BY <1>2, <1>8, <2>2, ClaimsAre
      <3>2. snap'.installed = snap.installed /\ snap'.enabled = snap.enabled
        BY <2>1, <3>1 DEF InstallClaims, MadeIf, Snapshots
      <3>3. snap.installed # "CreatedByUs" /\ snap.enabled # "CreatedByUs"
        BY <1>4, <2>2 DEF Intact, Ready, Verdict
      <3>4. QED  BY <1>4, <2>2, <3>2, <3>3 DEF Ready
    <2>3. CASE idx = SelinuxStep
      <3>1. snap' = SelinuxClaims(0)
        BY <1>2, <1>8, <2>3, ClaimsAre
      <3>2. snap'.switch = snap.switch
        BY <2>1, <3>1 DEF SelinuxClaims, MadeIf, Snapshots
      <3>3. snap.switch # "CreatedByUs"
        BY <1>4, <2>3 DEF Intact, Ready, Verdict
      <3>4. QED  BY <1>4, <2>3, <3>2, <3>3 DEF Ready
    <2>4. CASE idx \notin {InstallStep, SelinuxStep}
      BY <1>4, <2>4 DEF Ready
    <2>5. QED  BY <2>2, <2>3, <2>4
  <1>10. Served'
    <2>1. CASE idx = Base
      <3>1. UNCHANGED world
        BY <1>2, <2>1 DEF Effect
      <3>2. ~Pending
        BY <1>4, <2>1 DEF Pending
      <3>3. QED  BY <3>1, <3>2, WorldStays, ServedStays DEF Intact
    <2>2. CASE idx \in 2 .. 7
      <3>1. InstallStep \in recorded \cup {idx}
        <4>1. CASE idx = 2
          BY <4>1
        <4>2. CASE idx \in 3 .. 7
          BY <1>4, <4>2, StepsAre DEF Intact, Orderly
        <4>3. QED  BY <2>2, <4>1, <4>2
      <3>2. InstallStep \in Done(who)'
        BY <1>4, <3>1 DEF Done, Busy
      <3>3. idx' >= 2
        BY <1>4, <2>2
      <3>4. QED  BY <1>4, <3>2, <3>3 DEF Served, Pending
    <2>3. QED  BY <1>3, <2>1, <2>2, StepsAre
  <1>11. QED  BY <1>6, <1>7, <1>9, <1>10 DEF Intact

LEMMA LeaveIntact ==
    ASSUME KeptInv, Intact, LeaveShared
    PROVE  Intact'
  <1>1. PICK w \in Instance : w = who
    BY RunTypes
  <1>2. TypeOK /\ recorded \in SUBSET recorded /\ pc = "undo" /\ UndoBelow(idx, recorded) /\ UNCHANGED world
    BY DEF KeptInv, TypeInv, LeaveShared
  <1>3. Orderly' /\ idx \in {SelinuxStep, FirewallStep} /\ Done(w) = recorded \cup {idx}
    BY <1>1, <1>2, LeaveSharedOrderly DEF Intact
  <1>4. GivenBack'
    BY <1>1, LeaveSharedGiven DEF Intact
  <1>5. Ready' /\ (idx > InstallStep /\ InstallStep \in recorded => Pending')
    BY <1>2, BelowReady
  <1>6. Pending => Pending'
    BY <1>1, <1>2, <1>3, <1>5 DEF Pending
  <1>7. Served'
    BY <1>2, <1>6, WorldStays, ServedStays DEF Intact
  <1>8. QED  BY <1>3, <1>4, <1>5, <1>7 DEF Intact

LEMMA UndosIntact ==
    ASSUME KeptInv, FoundOnce, Intact, faults = 0, faults' = 0,
           UndoBase \/ UndoInstall \/ UndoWrite \/ UndoEnable \/ UndoSelinux \/ UndoFirewall \/ UndoReload
    PROVE  Intact'
  <1> DEFINE K == IF others # {} /\ idx = InstallStep THEN recorded ELSE recorded \ {idx}
  <1>1. PICK w \in Instance : w = who
    BY RunTypes
  <1>2. TypeOK /\ recorded \in SUBSET Steps /\ idx \in Steps /\ K \in SUBSET recorded
    <2>1. pc = "undo"
      BY DEF UndoBase, UndoInstall, UndoWrite, UndoEnable, UndoSelinux, UndoFirewall, UndoReload, Undoing
    <2>2. QED  BY <2>1, RunTypes DEF KeptInv, TypeInv, TypeOK, ProcessType
  <1>3. pc = "undo" /\ Undone
    BY DEF UndoBase, UndoInstall, UndoWrite, UndoEnable, UndoSelinux, UndoFirewall, UndoReload, Undoing
  <1>4. UndoBelow(idx, K) /\ spoilt' = spoilt
    <2>1. Scope(idx, who) = "Mixed" <=> idx = InstallStep
      BY DEF Scope
    <2>2. QED  BY <1>3, <2>1 DEF Undone
  <1>. HIDE DEF K
  <1>5. Ready' /\ (idx > InstallStep /\ InstallStep \in K => Pending')
    BY <1>2, <1>3, <1>4, BelowReady
  <1>6. Orderly' /\ Done(w) = recorded \cup {idx}
    BY <1>1, <1>2, <1>3, UndoneOrderly DEF Intact
  <1>7. UndoOf(w, idx)
    BY <1>1, <1>3, UndoIs DEF Intact
  <1>8. CASE UndoBase
    <2>1. idx = Base /\ UNCHANGED world
      BY <1>8 DEF UndoBase, Undoing
    <2>2. GivenBack'
      BY <1>4, <1>7, <2>1, BaseStays DEF UndoOf
    <2>3. ~Pending
      BY <1>3, <2>1 DEF Pending
    <2>4. Served'
      BY <2>1, <2>3, WorldStays, ServedStays DEF Intact
    <2>5. QED  BY <1>5, <1>6, <2>2, <2>4 DEF Intact
  <1>9. CASE UndoInstall
    <2>1. idx = InstallStep
      BY <1>9 DEF UndoInstall, Undoing
    <2>2. GivenBack'
      BY <1>7, <1>9, <2>1, InstallGiven
    <2>3. Served'
      <3>1. PICK stopped, purged \in BOOLEAN :
              /\ stopped <=> others = {} /\ snap.enabled = "CreatedByUs"
              /\ purged => others = {} /\ snap.installed = "CreatedByUs"
              /\ active' = (active /\ ~stopped /\ ~purged)
              /\ enabled' = (enabled /\ ~purged /\ ~stopped)
              /\ pkg' = IF purged THEN "absent" ELSE pkg
              /\ site' = IF purged THEN "absent" ELSE site
              /\ loaded' = IF ~active' THEN NotRunning ELSE IF Valid THEN OnDisk ELSE loaded
        BY <1>7, <1>9, <2>1, InstallUndone
      <3>2. UNCHANGED <<vhost, link, family, found>>
        BY <1>9 DEF UndoInstall, fixed
      <3>3. ASSUME LinksAreOurs', active'  PROVE loaded' = OnDisk'
        <4>1. \A i \in Instance : link[i] = "vhost" => vhost[i] # "absent"
          BY <3>2, <3>3 DEF LinksAreOurs, Intact, GivenBack, LinkLeft
        <4>2. Valid
          BY <4>1 DEF Valid
        <4>3. loaded' = OnDisk /\ site' = site
          BY <3>1, <3>3, <4>2
        <4>4. QED  BY <3>2, <4>3, OnDiskStays
      <3>4. QED  BY <3>3 DEF Served
    <2>4. QED  BY <1>5, <1>6, <2>2, <2>3 DEF Intact
  <1>10. CASE UndoWrite \/ UndoEnable \/ UndoReload
    <2>1. idx \in {WriteStep, EnableStep, ReloadStep}
      BY <1>10 DEF UndoWrite, UndoEnable, UndoReload, Undoing
    <2>2. GivenBack'
      <3>1. CASE UndoWrite
        BY <1>7, <3>1, WriteGiven DEF UndoWrite, Undoing
      <3>2. CASE UndoEnable
        BY <1>7, <3>2, EnableGiven DEF UndoEnable, Undoing
      <3>3. CASE UndoReload
        BY <1>7, <3>3, ReloadGiven DEF UndoReload, Undoing
      <3>4. QED  BY <1>10, <3>1, <3>2, <3>3
    <2>3. InstallStep \in K
      <3>1. idx \notin Lasting /\ idx \in recorded \cup {idx} /\ InstallStep \in Steps /\ InstallStep < idx
        BY <2>1, StepsAre DEF Lasting
      <3>2. InstallStep \in recorded
        BY <1>3, <3>1 DEF Intact, Orderly
      <3>3. QED  BY <2>1, <3>2 DEF K
    <2>4. Pending'
      BY <1>5, <2>1, <2>3
    <2>5. QED  BY <1>5, <1>6, <2>2, <2>4 DEF Intact, Served
  <1>11. CASE UndoSelinux \/ UndoFirewall
    <2>1. idx \in {SelinuxStep, FirewallStep}
      BY <1>11 DEF UndoSelinux, UndoFirewall, Undoing
    <2>2. GivenBack'
      <3>1. CASE UndoSelinux
        BY <1>7, <3>1, SelinuxGiven DEF UndoSelinux, Undoing
      <3>2. CASE UndoFirewall
        BY <1>7, <3>2, FirewallGiven DEF UndoFirewall, Undoing
      <3>3. QED  BY <1>11, <3>1, <3>2
    <2>3. UNCHANGED <<vhost, link, site, family, found, active, loaded>>
      BY <1>11 DEF UndoSelinux, UndoFirewall, service, files, fixed
    <2>4. Pending => Pending'
      BY <1>1, <1>3, <1>5, <1>6, <2>1 DEF Pending, K
    <2>5. Served'
      BY <2>3, <2>4, ServedStays DEF Intact
    <2>6. QED  BY <1>5, <1>6, <2>2, <2>5 DEF Intact
  <1>12. QED  BY <1>8, <1>9, <1>10, <1>11

\* The others a process goes by are those the records say, with faults or without.
LEMMA NextCurrent == TypeOK /\ Current /\ [Next]_vars => Current'
  <1> SUFFICES ASSUME TypeOK, Current, [Next]_vars  PROVE Current'
    OBVIOUS
  <1>1. man \in [Instance -> Manifests] /\ who \in Instance
    BY ProcessTypes
  <1>2. \/ UNCHANGED <<pc, who, others, man>>
        \/ pc' = "idle"
        \/ \E i \in Instance : who' = i /\ others' = LiveOthers(i) /\ UNCHANGED man
        \/ /\ pc # "idle" /\ UNCHANGED <<who, others>>
           /\ man' = man \/ \E m : man' = [man EXCEPT ![who] = m]
    <2>1. CASE UNCHANGED vars
      BY <2>1 DEF vars
    <2>2. CASE \E i \in Instance : Install(i) \/ Rollback(i)
      BY <2>2 DEF Install, Rollback, Begin, BeginRollback, Take
    <2>3. CASE Stops \/ LeaveShared \/ Skip
      BY <2>3 DEF Stops, LeaveShared, UndoBelow, Exit, Skip
    <2>4. CASE Finish \/ Die
      BY <2>4 DEF Finish, Finished, Die, Dies, Exit
    <2>5. CASE \/ SnapshotBase \/ SnapshotInstall \/ SnapshotWrite \/ SnapshotEnable
               \/ SnapshotSelinux \/ SnapshotFirewall \/ SnapshotReload
      BY <2>5 DEF SnapshotBase, SnapshotInstall, SnapshotWrite, SnapshotEnable, SnapshotSelinux,
         SnapshotFirewall, SnapshotReload, Snapshotted, At
    <2>6. CASE RunStep
      BY <2>6 DEF RunStep, Ran
    <2>7. CASE RunFails \/ HalfInstalled
      BY <2>7 DEF RunFails, HalfInstalled, Failed, Running
    <2>8. CASE UndoBase \/ UndoInstall \/ UndoWrite \/ UndoEnable \/ UndoSelinux \/ UndoFirewall \/ UndoReload
      <3>1. pc = "undo" /\ Undone
        BY <2>8 DEF UndoBase, UndoInstall, UndoWrite, UndoEnable, UndoSelinux, UndoFirewall, UndoReload, Undoing
      <3>2. QED  BY <3>1 DEF Undone, UndoBelow, Exit
    <2>9. QED
      BY <2>1, <2>2, <2>3, <2>4, <2>5, <2>6, <2>7, <2>8 DEF Next
  <1>3. CASE UNCHANGED <<pc, who, others, man>>
    BY <1>3 DEF Current, LiveOthers, IsLive
  <1>4. CASE pc' = "idle"
    BY <1>4 DEF Current
  <1>5. CASE \E i \in Instance : who' = i /\ others' = LiveOthers(i) /\ UNCHANGED man
    BY <1>5 DEF Current, LiveOthers, IsLive
  <1>6. CASE /\ pc # "idle" /\ UNCHANGED <<who, others>>
             /\ man' = man \/ \E m : man' = [man EXCEPT ![who] = m]
    <2>1. \A j \in Instance \ {who} : man'[j] = man[j]
      BY <1>1, <1>6
    <2>2. LiveOthers(who)' = LiveOthers(who)
      BY <1>6, <2>1 DEF LiveOthers, IsLive
    <2>3. QED  BY <1>6, <2>2 DEF Current
  <1>7. QED  BY <1>2, <1>3, <1>4, <1>5, <1>6

LEMMA NextFixed == Next => UNCHANGED fixed
  <1> SUFFICES ASSUME Next  PROVE UNCHANGED fixed
    OBVIOUS
  <1>1. CASE (\E i \in Instance : Install(i) \/ Rollback(i)) \/ Stops \/ Skip \/ Finish \/ LeaveShared
    BY <1>1 DEF Install, Rollback, Begin, BeginRollback, Stops, Skip, Finish, LeaveShared, world
  <1>2. CASE \/ SnapshotBase \/ SnapshotInstall \/ SnapshotWrite \/ SnapshotEnable
             \/ SnapshotSelinux \/ SnapshotFirewall \/ SnapshotReload
    BY <1>2 DEF SnapshotBase, SnapshotInstall, SnapshotWrite, SnapshotEnable, SnapshotSelinux,
       SnapshotFirewall, SnapshotReload, Snapshotted, world
  <1>3. CASE RunStep \/ RunFails \/ Die
    BY <1>3, EffectFixed DEF RunStep, RunFails, Die, world
  <1>4. CASE HalfInstalled
    BY <1>4 DEF HalfInstalled, InstallEffect
  <1>5. CASE UndoBase \/ UndoInstall \/ UndoWrite \/ UndoEnable \/ UndoSelinux \/ UndoFirewall \/ UndoReload
    BY <1>5 DEF UndoBase, UndoInstall, UndoWrite, UndoEnable, UndoSelinux, UndoFirewall, UndoReload, world
  <1>6. QED  BY <1>1, <1>2, <1>3, <1>4, <1>5 DEF Next

LEMMA InitRest == Init => RestInv
  <1> SUFFICES ASSUME Init  PROVE RestInv
    OBVIOUS
  <1>1. KeptInv
    BY InitKept
  <1>2. /\ pc = "idle" /\ \A i \in Instance : man[i] = NoManifest
    BY DEF Init, Start
  <1>3. \A i \in Instance : ~Busy(i) /\ Done(i) = {} /\ ~man[i].finished /\ man[i].snap = Default
    BY <1>2 DEF Busy, Done, NoManifest
  <1>4. /\ found.pkg = pkg /\ found.enabled = enabled /\ found.active = active /\ found.vhost = vhost
        /\ found.link = link /\ found.site = site /\ found.switch = switch /\ found.rules = rules
    BY DEF Init
  <1>5. FoundOnce
    <2>1. pkg \in Before /\ vhost \in [Instance -> Before] /\ link \in [Instance -> {"absent", "vhost", "elsewhere"}]
      BY DEF Init, Before
    <2>2. enabled \in BOOLEAN /\ active \in BOOLEAN /\ (enabled \/ active => pkg = "theirs")
      BY DEF Init
    <2>3. \A i \in Instance : /\ link[i] = "vhost" => vhost[i] = "theirs"
                              /\ family # "debian" => link[i] = "absent"
      BY DEF Init
    <2>4. switch \in {"none", "off", "on"} /\ rules \in SUBSET Port /\ site \in Site
      BY <1>1, RunTypes
    <2>5. QED  BY <1>4, <2>1, <2>2, <2>3, <2>4 DEF FoundOnce
  <1>6. Current
    BY <1>2 DEF Current
  <1>7. Orderly
    BY <1>2, <1>3 DEF Orderly, Blank, NoManifest
  <1>8. GivenBack
    <2>1. \A i \in Instance : VhostLeft(i)
      BY <1>3, <1>4 DEF VhostLeft
    <2>2. \A i \in Instance : LinkLeft(i)
      BY <1>3, <1>4, <1>5 DEF LinkLeft, FoundOnce
    <2>3. \A i \in Instance : ~Enables(i) /\ ~Starts(i) /\ ~Turns(i) /\ \A p : ~Opens(i, p)
      BY <1>3 DEF Enables, Starts, Turns, Opens
    <2>4. SiteLeft
      BY <1>3, <1>4 DEF SiteLeft
    <2>5. ServiceLeft
      BY <1>4, <1>5, <2>3 DEF ServiceLeft, FoundOnce
    <2>6. SwitchLeft /\ RulesLeft
      BY <1>4, <2>3 DEF SwitchLeft, RulesLeft
    <2>7. QED  BY <2>1, <2>2, <2>4, <2>5, <2>6 DEF GivenBack
  <1>9. Served
    BY DEF Init, Served
  <1>10. Ready
    BY <1>2 DEF Ready
  <1>11. QED  BY <1>1, <1>5, <1>6, <1>7, <1>8, <1>9, <1>10 DEF RestInv, Intact

LEMMA StutterIntact ==
    ASSUME Intact, UNCHANGED vars  PROVE Intact'
  <1>1. UNCHANGED <<world, man, pc, who, idx, snap, recorded, others, spoilt>>
    BY DEF vars
  <1>2. \A i : Busy(i)' = Busy(i) /\ Done(i)' = Done(i) /\ Held(i)' = Held(i)
    BY <1>1 DEF Busy, Done, Held
  <1>3. AllRetain
    BY <1>2 DEF AllRetain, Retains
  <1>4. UNCHANGED <<vhost, link, site, family, found, active, loaded, pkg, enabled, switch, rules, walled>>
    BY <1>1, WorldStays
  <1>5. Orderly'
    BY <1>1, <1>2 DEF Intact, Orderly, Blank
  <1>6. GivenBack'
    BY <1>1, <1>3, GivenBackStays DEF Intact
  <1>7. Served'
    <2>1. Pending => Pending'
      BY <1>1, <1>2 DEF Pending, Gated
    <2>2. QED  BY <1>4, <2>1, ServedStays DEF Intact
  <1>8. Ready'
    BY <1>1, <1>4 DEF Intact, Ready, Gated, Delta, Wanted, Blank
  <1>9. QED  BY <1>5, <1>6, <1>7, <1>8 DEF Intact

LEMMA NextRest == RestInv /\ [Next]_vars => RestInv'
  <1> SUFFICES ASSUME RestInv, [Next]_vars  PROVE RestInv'
    OBVIOUS
  <1>1. KeptInv' /\ Current' /\ TypeOK
    BY NextKept, NextCurrent DEF RestInv, KeptInv, TypeInv
  <1>2. FoundOnce'
    <2>1. UNCHANGED <<found, family>>
      BY NextFixed DEF vars, world, fixed
    <2>2. QED  BY <2>1 DEF RestInv, FoundOnce
  <1>3. ASSUME faults' = 0  PROVE Intact'
    <2>1. CASE UNCHANGED vars
      <3>1. faults = 0
        BY <1>3, <2>1 DEF vars
      <3>2. QED  BY <2>1, <3>1, StutterIntact DEF RestInv
    <2>2. CASE Next
      <3>1. faults = 0 /\ ~Fault
        BY <1>1, <1>3, <2>2, QuietBefore
      <3>2. KeptInv /\ FoundOnce /\ Intact
        BY <3>1 DEF RestInv
      <3>3. ~HalfInstalled /\ ~Die
        BY <3>1 DEF HalfInstalled, Die, Dies
      <3>4. CASE (\E i \in Instance : Install(i) \/ Rollback(i)) \/ Stops \/ Skip \/ Finish
        BY <1>1, <3>2, <3>4, CommandsIntact
      <3>5. CASE \/ SnapshotBase \/ SnapshotInstall \/ SnapshotWrite \/ SnapshotEnable
                 \/ SnapshotSelinux \/ SnapshotFirewall \/ SnapshotReload
        BY <1>1, <3>2, <3>5, SnapshotsIntact
      <3>6. CASE RunStep \/ RunFails \/ LeaveShared
        BY <3>2, <3>6, RunIntact, FailsIntact, LeaveIntact
      <3>7. CASE UndoBase \/ UndoInstall \/ UndoWrite \/ UndoEnable \/ UndoSelinux \/ UndoFirewall \/ UndoReload
        BY <1>3, <3>1, <3>2, <3>7, UndosIntact
      <3>8. QED  BY <2>2, <3>3, <3>4, <3>5, <3>6, <3>7 DEF Next
    <2>3. QED  BY <2>1, <2>2
  <1>4. QED  BY <1>1, <1>2, <1>3 DEF RestInv

\* What no instance has done is as it was found.
LEMMA RestRemoved == RestInv => RemovedMeansRestored
  <1> SUFFICES ASSUME RestInv, pc = "idle", faults = 0, ~spoilt, \A i \in Instance : man[i].steps = {}
               PROVE  /\ vhost = found.vhost /\ switch = found.switch /\ rules = found.rules
                      /\ \A i \in Instance : found.link[i] # "elsewhere" => link[i] = found.link[i]
                      /\ found.pkg = "theirs" => pkg = "theirs" /\ site = found.site
                      /\ enabled = found.enabled
                      /\ active => found.active
                      /\ found.active /\ found.enabled => active
    BY DEF RemovedMeansRestored
  <1>1. KeptInv /\ FoundOnce /\ GivenBack /\ RulesLeft
    BY DEF RestInv, Intact, GivenBack
  <1>2. \A i \in Instance : Done(i) = {}
    BY DEF Done, Busy
  <1>3. \A i \in Instance : ~Enables(i) /\ ~Starts(i) /\ ~Turns(i) /\ ~Away(i) /\ \A p : ~Opens(i, p)
    BY <1>2 DEF Enables, Starts, Turns, Opens, Away
  <1>4. vhost = found.vhost
    <2>1. \A i \in Instance : vhost[i] = found.vhost[i]
      BY <1>1, <1>2 DEF GivenBack, VhostLeft
    <2>2. vhost \in [Instance -> Whose] /\ found.vhost \in [Instance -> Before]
      BY <1>1, RunTypes DEF FoundOnce
    <2>3. QED  BY <2>1, <2>2
  <1>5. \A i \in Instance : found.link[i] # "elsewhere" => link[i] = found.link[i]
    BY <1>1, <1>2 DEF GivenBack, LinkLeft
  <1>6. switch = found.switch
    <2>1. switch \in {"none", "off", "on"} /\ found.switch \in {"none", "off", "on"}
      BY <1>1, RunTypes DEF FoundOnce
    <2>2. QED  BY <1>1, <1>3, <2>1 DEF GivenBack, SwitchLeft
  <1>7. rules = found.rules
    BY <1>1, <1>3 DEF RulesLeft
  <1>8. found.pkg = "theirs" => pkg = "theirs" /\ site = found.site
    BY <1>1, <1>3 DEF KeptInv, DefaultKept, GivenBack, SiteLeft
  <1>9. enabled = found.enabled
    <2>1. enabled \in BOOLEAN /\ found.enabled \in BOOLEAN
      BY <1>1, RunTypes DEF FoundOnce
    <2>2. enabled <=> found.enabled
      BY <1>1, <1>3 DEF GivenBack, ServiceLeft
    <2>3. QED  BY <2>1, <2>2
  <1>10. (active => found.active) /\ (found.active /\ found.enabled => active)
    BY <1>1, <1>3 DEF GivenBack, ServiceLeft
  <1>11. QED  BY <1>4, <1>5, <1>6, <1>7, <1>8, <1>9, <1>10

\* When no instance is left the customer's nginx is as it was found, in whatever
\* order any number of them came and went.
THEOREM NginxRemovedMeansRestored == Spec => []RemovedMeansRestored
  BY InitRest, NextRest, RestRemoved, PTL DEF Spec

\* What an undo changes while another instance lives, with faults or without.
LEMMA UndoneBeside ==
    ASSUME TypeOK, [Next]_vars, pc = "undo", others # {}
    PROVE  /\ \A i \in Instance \ {who} : vhost'[i] = vhost[i] /\ link'[i] = link[i]
           /\ UNCHANGED <<pkg, enabled, switch, rules>>
  <1>1. /\ vhost \in [Instance -> Whose] /\ link \in [Instance -> {"absent", "vhost", "elsewhere"}]
        /\ enabled \in BOOLEAN
    BY DEF TypeOK, WorldType
  <1>2. CASE UNCHANGED vars \/ LeaveShared \/ UndoBase \/ Die
    <2>1. UNCHANGED world
      BY <1>2 DEF vars, LeaveShared, UndoBase, Die
    <2>2. QED  BY <2>1, WorldStays
  <1>3. CASE UndoInstall
    <2>1. UNCHANGED <<pkg, vhost, link, switch, rules>>
      BY <1>3 DEF UndoInstall, guards
    <2>2. enabled' = (enabled /\ TRUE /\ TRUE)
      BY <1>3 DEF UndoInstall
    <2>3. QED  BY <1>1, <2>1, <2>2
  <1>4. CASE UndoWrite
    <2>1. UNCHANGED <<pkg, enabled, link, switch, rules>>
      BY <1>4 DEF UndoWrite, service, guards
    <2>2. vhost' = vhost \/ \E x : vhost' = [vhost EXCEPT ![who] = x]
      <3>1. CASE snap.vhost = "CreatedByUs"
        BY <1>4, <3>1 DEF UndoWrite
      <3>2. CASE snap.vhost = "Preexisting" /\ snap.backup \in backup[who]
        BY <1>4, <3>2 DEF UndoWrite
      <3>3. CASE snap.vhost # "CreatedByUs" /\ ~(snap.vhost = "Preexisting" /\ snap.backup \in backup[who])
        BY <1>4, <3>3 DEF UndoWrite
      <3>4. QED  BY <3>1, <3>2, <3>3
    <2>3. QED  BY <1>1, <2>1, <2>2
  <1>5. CASE UndoEnable
    <2>1. UNCHANGED <<pkg, enabled, vhost, switch, rules>>
      BY <1>5 DEF UndoEnable, service, guards
    <2>2. link' = link \/ link' = [link EXCEPT ![who] = "absent"]
      BY <1>5 DEF UndoEnable
    <2>3. QED  BY <1>1, <2>1, <2>2
  <1>6. CASE UndoReload
    BY <1>6 DEF UndoReload, service, files, guards
  <1>7. ~UndoSelinux /\ ~UndoFirewall
    BY DEF UndoSelinux, UndoFirewall, Undoing, HeldBack, Scope
  <1>8. QED
    BY <1>2, <1>3, <1>4, <1>5, <1>6, <1>7 DEF Next, Install, Rollback, Begin, BeginRollback, Stops, Skip,
       Finish, Finished, SnapshotBase, SnapshotInstall, SnapshotWrite, SnapshotEnable, SnapshotSelinux,
       SnapshotFirewall, SnapshotReload, At, RunStep, RunFails, HalfInstalled, Running

\* A rollback takes nothing from the other instances behind the proxy, and leaves
\* nginx with what is on disk.
THEOREM NginxCutsNobodyOff == Spec => RollbackCutsNobodyOff
  <1>1. RestInv /\ RestInv' /\ [Next]_vars =>
          [pc = "undo" =>
             /\ ServedIsOnDisk'
             /\ \A i \in (Behind \ {who}) : IsLive(i) =>
                   /\ vhost'[i] = vhost[i] /\ link'[i] = link[i]
                   /\ rules \cap Wanted(i) \subseteq rules'
                   /\ switch = "on" => switch' = "on"
                   /\ pkg # "absent" => pkg' # "absent"
                   /\ enabled => enabled']_vars
    <2> SUFFICES ASSUME RestInv, RestInv', [Next]_vars, pc = "undo"
                 PROVE  /\ ServedIsOnDisk'
                        /\ \A i \in (Behind \ {who}) : IsLive(i) =>
                              /\ vhost'[i] = vhost[i] /\ link'[i] = link[i]
                              /\ rules \cap Wanted(i) \subseteq rules'
                              /\ switch = "on" => switch' = "on"
                              /\ pkg # "absent" => pkg' # "absent"
                              /\ enabled => enabled'
      OBVIOUS
    <2>1. ServedIsOnDisk'
      BY DEF RestInv, Intact, Served, Pending, ServedIsOnDisk
    <2>2. TypeOK /\ Current
      BY DEF RestInv, KeptInv, TypeInv
    <2>3. ASSUME NEW i \in (Behind \ {who}), IsLive(i)
          PROVE  /\ vhost'[i] = vhost[i] /\ link'[i] = link[i]
                 /\ UNCHANGED <<pkg, enabled, switch, rules>>
      <3>1. i \in Instance \ {who} /\ i \in others
        BY <2>2, <2>3, InstanceAssumption DEF Current, LiveOthers
      <3>2. QED  BY <2>2, <3>1, UndoneBeside
    <2>4. QED  BY <2>1, <2>3
  <1>2. QED  BY <1>1, InitRest, NextRest, PTL DEF Spec, RollbackCutsNobodyOff

=============================================================================
