---------------------------- MODULE ServiceProofs ----------------------------
(***************************************************************************)
(* Theorems about Service, for every set of instances, administrators and  *)
(* sessions, every machine they may find and every bound: the variables    *)
(* keep their types; when an installation is resumed by who began it,      *)
(* nothing the customer had is lost; when the last manifest is gone,       *)
(* without a fault, everything is back as it was found; and the last of    *)
(* the sessions leaves the service as the first found it.                  *)
(***************************************************************************)
EXTENDS Service, TLAPS, FiniteSetTheorems

Manifests == [steps : SUBSET Steps, snap : Snapshots, finished : BOOLEAN, args : Admin]

ProcessOK == ProcessType(Snapshots, Admin)

USE DEF ConfigStep, UnitStep, ScriptStep, BashrcStep

\* The process's instance, and its administrator, when there is none is one.
LEMMA SomeInstance == (CHOOSE i \in Instance : TRUE) \in Instance
  BY InstanceAssumption

LEMMA SomeAdmin == Nobody \in Admin
  BY AdminAssumption DEF Nobody

-----------------------------------------------------------------------------
(* The operators of Commands.                                              *)

\* The greatest of some steps is one of them.
LEMMA MaxIs ==
    ASSUME NEW S \in SUBSET Steps, S # {}
    PROVE  Max(S) \in S /\ \A k \in S : ~(k > Max(S))
  <1>1. S \subseteq {1, 2, 3, 4}
    BY DEF Steps
  <1>2. \E m \in S : \A n \in S : m >= n
    <2>1. CASE 4 \in S  BY <1>1, <2>1
    <2>2. CASE 4 \notin S /\ 3 \in S  BY <1>1, <2>2
    <2>3. CASE 4 \notin S /\ 3 \notin S /\ 2 \in S  BY <1>1, <2>3
    <2>4. CASE S = {1}  BY <2>4
    <2>5. QED  BY <1>1, <2>1, <2>2, <2>3, <2>4
  <1>3. Max(S) \in S /\ \A n \in S : Max(S) >= n
    <2> DEFINE Greatest(m) == \A n \in S : m >= n
    <2>1. Max(S) = CHOOSE m \in S : Greatest(m)
      BY DEF Max
    <2>2. \E m \in S : Greatest(m)
      BY <1>2
    <2>. HIDE DEF Greatest
    <2>3. Max(S) \in S /\ Greatest(Max(S))
      BY <2>1, <2>2
    <2>4. QED  BY <2>3 DEF Greatest
  <1>4. QED
    <2>1. ASSUME NEW k \in S  PROVE ~(k > Max(S))
      <3>1. k \in {1, 2, 3, 4} /\ Max(S) \in {1, 2, 3, 4} /\ Max(S) >= k
        BY <1>1, <1>3
      <3>2. QED  BY <3>1
    <2>2. QED  BY <1>3, <2>1

\* The snapshot of no step is a snapshot, and so is what some records keep of one.
LEMMA DefaultType == Default \in Snapshots
  BY DEF Default, Snapshots, PreState, Copies, Dir, Line

LEMMA RecordsType ==
    ASSUME NEW s \in Snapshots, NEW K \in SUBSET Steps
    PROVE  Records(s, K) \in Snapshots
  BY DefaultType DEF Records, Snapshots, Default

LEMMA NoManifestType == NoManifest \in Manifests
  BY DefaultType, SomeAdmin DEF NoManifest, Kept, Manifests

\* A manifest that is written is one.
LEMMA ManifestType ==
    ASSUME ProcessOK, NEW s \in Snapshots, NEW K \in SUBSET Steps, NEW done \in BOOLEAN
    PROVE  Manifest(s, K, done) \in Manifests
  <1>1. man[who] \in Manifests
    BY DEF ProcessOK, ProcessType, Manifests
  <1>2. Records(s, K) \in Snapshots
    BY RecordsType
  <1>3. sudoUser \in Admin
    BY DEF ProcessOK, ProcessType
  <1>4. QED
    BY <1>1, <1>2, <1>3, NoManifestType DEF Manifest, Manifests, Kept

LEMMA StartType ==
    ASSUME Start  PROVE ProcessOK
  <1>1. man \in [Instance -> Manifests]
    BY NoManifestType DEF Start
  <1>2. 0 \in 0 .. MaxFaults
    BY FaultsAssumption
  <1>3. who \in Instance
    BY SomeInstance DEF Start
  <1>4. /\ pc \in {"idle", "snapshot", "run", "undo"} /\ idx \in 1 .. BashrcStep + 1
        /\ pc \notin {"run", "undo"} /\ recorded \subseteq Steps /\ others \subseteq Instance \ {who}
    BY DEF Start
  <1>5. /\ snap \in Snapshots /\ sudoUser \in Admin /\ remains \subseteq Instance
        /\ spoilt \in BOOLEAN /\ faults \in 0 .. MaxFaults
    BY <1>2, DefaultType, SomeAdmin DEF Start
  <1>6. QED
    BY <1>1, <1>3, <1>4, <1>5 DEF ProcessOK, ProcessType, Manifests

\* A process that takes its manifest over.
LEMMA TakeType ==
    ASSUME ProcessOK, NEW i \in Instance, NEW u \in Admin, Take(i, u)
    PROVE  /\ who' \in Instance /\ snap' \in Snapshots /\ recorded' \subseteq Steps
           /\ others' \subseteq Instance \ {who'} /\ sudoUser' \in Admin
  <1>1. man[i] \in Manifests
    BY DEF ProcessOK, ProcessType, Manifests
  <1>2. QED
    BY <1>1 DEF Take, Manifests, LiveOthers

\* The next undo, or the end of the process.
LEMMA UndoBelowType ==
    ASSUME ProcessOK, NEW k, NEW K \in SUBSET Steps, UndoBelow(k, K),
           spoilt' \in BOOLEAN, faults' \in 0 .. MaxFaults
    PROVE  ProcessOK'
  <1> DEFINE todo == {j \in K : j < k}
  <1>1. CASE todo = {}
    <2>1. Manifest(snap, K, FALSE) \in Manifests
      BY ManifestType DEF ProcessOK, ProcessType
    <2>2. man' \in [Instance -> Manifests]
      <3>1. man \in [Instance -> Manifests]
        BY DEF ProcessOK, ProcessType, Manifests
      <3>2. man' = [man EXCEPT ![who] = Manifest(snap, K, FALSE)]
        BY <1>1 DEF UndoBelow
      <3>3. QED  BY <2>1, <3>1, <3>2
    <2>3. QED
      BY <1>1, <2>2, DefaultType, SomeInstance, SomeAdmin DEF UndoBelow, Exit, ProcessOK, ProcessType, Manifests, Steps
  <1>2. CASE todo # {}
    <2>1. Max(todo) \in Steps
      BY <1>2, MaxIs
    <2>2. idx' = Max(todo)
      BY <1>2 DEF UndoBelow
    <2>. HIDE DEF todo
    <2>5. idx' \in Steps /\ idx' \in 1 .. BashrcStep + 1
      BY <2>1, <2>2 DEF Steps
    <2>3. /\ pc' = "undo" /\ recorded' \subseteq Steps
          /\ UNCHANGED <<who, snap, others, sudoUser, man, remains>>
      BY <1>2 DEF UndoBelow, todo
    <2>4. QED
      BY <2>3, <2>5 DEF ProcessOK, ProcessType
  <1>3. QED  BY <1>1, <1>2

\* The actions of Commands.
LEMMA BeginType ==
    ASSUME ProcessOK, NEW i \in Instance, NEW u \in Admin, Begin(i, u) \/ BeginRollback(i, u)
    PROVE  ProcessOK'
  <1>1. Take(i, u)
    BY DEF Begin, BeginRollback
  <1>2. /\ who' \in Instance /\ snap' \in Snapshots /\ recorded' \subseteq Steps
        /\ others' \subseteq Instance \ {who'} /\ sudoUser' \in Admin
    BY <1>1, TakeType
  <1>3. CASE Begin(i, u)
    BY <1>2, <1>3 DEF Begin, ProcessOK, ProcessType, Steps
  <1>4. CASE BeginRollback(i, u)
    <2>1. man[i].steps \in SUBSET Steps
      BY DEF ProcessOK, ProcessType
    <2>2. Max(man[i].steps) \in Steps
      BY <1>4, <2>1, MaxIs DEF BeginRollback
    <2>3. QED
      BY <1>2, <1>4, <2>2 DEF BeginRollback, ProcessOK, ProcessType, Steps
  <1>5. QED  BY <1>3, <1>4

LEMMA StopsType ==
    ASSUME ProcessOK, Stops  PROVE ProcessOK'
  BY UndoBelowType DEF Stops, ProcessOK, ProcessType

LEMMA SkipType ==
    ASSUME ProcessOK, Skip  PROVE ProcessOK'
  BY DEF Skip, ProcessOK, ProcessType, Steps

LEMMA FinishedType ==
    ASSUME ProcessOK, Finished  PROVE ProcessOK'
  <1>1. man' \in [Instance -> Manifests]
    <2>1. man[who] \in Manifests
      BY DEF ProcessOK, ProcessType, Manifests
    <2>2. [man[who] EXCEPT !.finished = TRUE] \in Manifests
      BY <2>1 DEF Manifests
    <2>3. QED
      BY <2>2 DEF Finished, ProcessOK, ProcessType, Manifests
  <1>2. QED
    BY <1>1, DefaultType, SomeInstance, SomeAdmin DEF Finished, Exit, ProcessOK, ProcessType, Manifests, Steps

LEMMA SnapshottedType ==
    ASSUME ProcessOK, NEW s \in Snapshots, idx \in Steps, Snapshotted(s)
    PROVE  ProcessOK'
  BY DEF Snapshotted, ProcessOK, ProcessType

LEMMA RanType ==
    ASSUME ProcessOK, pc = "run", snap' \in Snapshots, Ran
    PROVE  ProcessOK'
  <1>1. recorded' \in SUBSET Steps
    BY DEF Ran, ProcessOK, ProcessType
  <1>2. Manifest(snap', recorded', FALSE) \in Manifests
    BY <1>1, ManifestType
  <1>3. man' \in [Instance -> Manifests]
    BY <1>2 DEF Ran, ProcessOK, ProcessType, Manifests
  <1>4. idx' \in 1 .. BashrcStep + 1
    BY DEF Ran, ProcessOK, ProcessType, Steps
  <1>5. QED
    BY <1>1, <1>3, <1>4 DEF Ran, ProcessOK, ProcessType, Manifests

LEMMA FailedType ==
    ASSUME ProcessOK, pc = "run", snap' \in Snapshots, Failed, faults' \in 0 .. MaxFaults
    PROVE  ProcessOK'
  BY DEF Failed, ProcessOK, ProcessType

LEMMA LeaveSharedType ==
    ASSUME ProcessOK, LeaveShared  PROVE ProcessOK'
  BY UndoBelowType DEF LeaveShared, ProcessOK, ProcessType

LEMMA FaultType ==
    ASSUME ProcessOK, Fault  PROVE faults' \in 0 .. MaxFaults
  BY FaultsAssumption DEF Fault, ProcessOK, ProcessType

LEMMA UndoneType ==
    ASSUME ProcessOK, Undone, faults' \in 0 .. MaxFaults
    PROVE  ProcessOK'
  BY UndoBelowType DEF Undone, ProcessOK, ProcessType

LEMMA DiesType ==
    ASSUME ProcessOK, Dies  PROVE ProcessOK'
  <1>1. faults' \in 0 .. MaxFaults
    BY FaultType DEF Dies
  <1>2. QED
    BY <1>1, DefaultType, SomeInstance, SomeAdmin DEF Dies, Exit, ProcessOK, ProcessType, Steps

-----------------------------------------------------------------------------
(* The types of the machine.                                               *)

LEMMA TypeSplit == TypeOK <=> WorldType /\ ProcessOK
  BY DEF TypeOK, ProcessOK

LEMMA WorldUnchanged ==
    ASSUME WorldType, UNCHANGED world  PROVE WorldType'
  BY DEF WorldType, world, config, service, helper, shell, sessions

LEMMA MadeType == \A p \in PreState : Made(p) \in PreState
  BY DEF Made, PreState

LEMMA VerdictType == \A b \in BOOLEAN : Verdict(b) \in PreState
  BY DEF Verdict, PreState

\* A run that is to set a file aside finds it.
FileThere ==
    pc = "run" =>
        /\ idx = ConfigStep /\ snap.conf = "Preexisting" => conf[who] # "absent"
        /\ idx = ScriptStep /\ snap.script = "Preexisting" => script[sudoUser][who] # "absent"

TypeInv == TypeOK /\ FileThere

\* What is known of the variables a step reads.
LEMMA StepTypes ==
    ASSUME TypeOK
    PROVE  /\ WorldType /\ ProcessOK /\ snap \in Snapshots /\ who \in Instance /\ sudoUser \in Admin
           /\ man \in [Instance -> Manifests] /\ recorded \in SUBSET Steps
           /\ conf[who] \in Whose /\ script[sudoUser][who] \in Whose /\ link[sudoUser][who] \in Whose
           /\ bashrc[sudoUser] \in Bashrc /\ enabled[who] \in BOOLEAN /\ up[who] \in BOOLEAN
           /\ faults \in 0 .. MaxFaults /\ idx \in 1 .. 5
           /\ pc \in {"idle", "snapshot", "run", "undo"} /\ (pc \in {"run", "undo"} => idx \in 1 .. 4)
  BY DEF TypeOK, WorldType, ProcessOK, ProcessType, Manifests, Steps

\* Far enough or not, what a run claims is a snapshot.
LEMMA ClaimsType ==
    ASSUME TypeInv, pc = "run", NEW far \in 0 .. 3
    PROVE  Claims(far) \in Snapshots
  <1>1. /\ snap \in Snapshots /\ who \in Instance /\ sudoUser \in Admin /\ idx \in {1, 2, 3, 4}
        /\ conf[who] \in Whose /\ script[sudoUser][who] \in Whose
        /\ bashrc[sudoUser] \in Bashrc
    BY StepTypes DEF TypeInv
  <1>2. CASE idx = ConfigStep
    <2>1. Claims(far) = ConfigClaims(far)
      BY <1>2 DEF Claims
    <2>2. MadeIf(far >= 2, snap.conf) \in PreState
      BY <1>1, MadeType DEF MadeIf, Snapshots
    <2>3. snap.conf = "Preexisting" => {conf[who]} \in Copies
      BY <1>1, <1>2 DEF TypeInv, FileThere, Whose, Copies
    <2>4. QED  BY <1>1, <2>1, <2>2, <2>3 DEF ConfigClaims, Snapshots
  <1>3. CASE idx = UnitStep
    <2>1. Claims(far) = UnitClaims(far)
      BY <1>3 DEF Claims
    <2>2. /\ MadeIf(far >= 1, snap.unit) \in PreState /\ MadeIf(far >= 2, snap.enabled) \in PreState
          /\ MadeIf(far >= 2, snap.active) \in PreState
      BY <1>1, MadeType DEF MadeIf, Snapshots
    <2>3. QED  BY <1>1, <2>1, <2>2 DEF UnitClaims, Snapshots
  <1>4. CASE idx = ScriptStep
    <2>1. Claims(far) = ScriptClaims(far)
      BY <1>4 DEF Claims
    <2>2. MadeIf(far >= 2, snap.script) \in PreState /\ MadeIf(far = 3, snap.link) \in PreState
      BY <1>1, MadeType DEF MadeIf, Snapshots
    <2>3. snap.script = "Preexisting" => {script[sudoUser][who]} \in Copies
      BY <1>1, <1>4 DEF TypeInv, FileThere, Whose, Copies
    <2>4. QED  BY <1>1, <2>1, <2>2, <2>3 DEF ScriptClaims, ScriptSetAside, Snapshots
  <1>5. CASE idx = BashrcStep
    <2>1. Claims(far) = BashrcClaims(far)
      BY <1>5 DEF Claims
    <2>2. MadeIf(far >= 2, snap.line) \in PreState
      BY <1>1, MadeType DEF MadeIf, Snapshots
    <2>3. {bashrc[sudoUser].lines} \in SUBSET SUBSET Line
      BY <1>1 DEF Bashrc
    <2>4. QED  BY <1>1, <2>1, <2>2, <2>3 DEF BashrcClaims, Snapshots
  <1>6. QED  BY <1>1, <1>2, <1>3, <1>4, <1>5

LEMMA EffectType ==
    ASSUME TypeInv, pc = "run", NEW far \in 0 .. 3, Effect(far)
    PROVE  WorldType'
  <1>1. /\ WorldType /\ snap \in Snapshots /\ who \in Instance /\ sudoUser \in Admin
        /\ conf[who] \in Whose /\ script[sudoUser][who] \in Whose /\ bashrc[sudoUser] \in Bashrc
    BY StepTypes DEF TypeInv
  <1>2. CASE idx = ConfigStep
    <2>1. ConfigEffect(far)
      BY <1>2 DEF Effect
    <2>2. conf' \in [Instance -> Whose]
      BY <1>1, <2>1 DEF ConfigEffect, WorldType, Whose
    <2>3. snap.conf = "Preexisting" => conf[who] \in {"ours", "theirs"}
      BY <1>1, <1>2 DEF TypeInv, FileThere, Whose
    <2>4. confCopies' \in [Instance -> Copies]
      BY <1>1, <2>1, <2>3 DEF ConfigEffect, WorldType, Copies
    <2>5. QED
      BY <1>1, <2>1, <2>2, <2>4 DEF ConfigEffect, WorldType, service, helper, shell, sessions
  <1>3. CASE idx = UnitStep
    <2>1. UnitEffect(far)
      BY <1>3 DEF Effect
    <2>2. /\ unit' \in [Instance -> Whose] /\ enabled' \in [Instance -> BOOLEAN]
          /\ up' \in [Instance -> BOOLEAN]
      BY <1>1, <2>1 DEF UnitEffect, WorldType, Whose
    <2>3. owed' \in [Instance -> {"nothing", "up", "down", "unmet"}]
      BY <1>1, <2>1 DEF UnitEffect, Changed, WorldType
    <2>4. QED
      BY <1>1, <2>1, <2>2, <2>3 DEF UnitEffect, WorldType, config, helper, shell
  <1>4. CASE idx = ScriptStep
    <2>1. ScriptEffect(far)
      BY <1>4 DEF Effect
    <2>2. dirs' \in [Admin -> [Dir -> Whose]]
      <3>1. \A e \in [Dir -> Whose] :
              [d \in Dir |-> IF e[d] = "absent" THEN "ours" ELSE e[d]] \in [Dir -> Whose]
        BY DEF Whose
      <3>2. QED  BY <1>1, <2>1, <3>1 DEF ScriptEffect, WorldType
    <2>3. snap.script = "Preexisting" => script[sudoUser][who] \in {"ours", "theirs"}
      BY <1>1, <1>4 DEF TypeInv, FileThere, Whose
    <2>4. scriptCopies' \in [Admin -> [Instance -> Copies]]
      BY <1>1, <2>1, <2>3 DEF ScriptEffect, ScriptSetAside, WorldType, Copies
    <2>5. script' \in [Admin -> [Instance -> Whose]] /\ link' \in [Admin -> [Instance -> Whose]]
      BY <1>1, <2>1 DEF ScriptEffect, WorldType, Whose
    <2>6. QED
      BY <1>1, <2>1, <2>2, <2>4, <2>5 DEF ScriptEffect, WorldType, config, service, shell, sessions
  <1>5. CASE idx = BashrcStep
    <2>1. BashrcEffect(far)
      BY <1>5 DEF Effect
    <2>2. copies' \in [Admin -> SUBSET SUBSET Line]
      <3>1. bashrc[sudoUser].lines \in SUBSET Line
        BY <1>1 DEF Bashrc
      <3>2. QED  BY <1>1, <2>1, <3>1 DEF BashrcEffect, WorldType
    <2>3. bashrc' \in [Admin -> Bashrc]
      <3>1. [there |-> TRUE, lines |-> bashrc[sudoUser].lines \cup {"path"}] \in Bashrc
        BY <1>1 DEF Bashrc, Line
      <3>2. QED  BY <1>1, <2>1, <3>1 DEF BashrcEffect, WorldType
    <2>4. QED
      BY <1>1, <2>1, <2>2, <2>3 DEF BashrcEffect, WorldType, config, service, helper, sessions
  <1>6. QED  BY <1>2, <1>3, <1>4, <1>5 DEF Effect


-----------------------------------------------------------------------------
(* Every action keeps the types.                                           *)

LEMMA SnapshotsType ==
    ASSUME TypeOK, SnapshotConfig \/ SnapshotUnit \/ SnapshotScript \/ SnapshotBashrc
    PROVE  TypeOK'
  <1>1. /\ snap \in Snapshots /\ idx \in Steps /\ enabled[who] \in BOOLEAN /\ up[who] \in BOOLEAN
        /\ bashrc[sudoUser] \in Bashrc
    BY StepTypes DEF SnapshotConfig, SnapshotUnit, SnapshotScript, SnapshotBashrc, At, Steps
  <1>2. PICK s \in Snapshots : Snapshotted(s)
    <2>1. CASE SnapshotConfig
      BY <1>1, <2>1, VerdictType DEF SnapshotConfig, Snapshots
    <2>2. CASE SnapshotUnit
      <3>1. /\ Verdict(unit[who] # "absent") \in PreState /\ Verdict(enabled[who]) \in PreState
            /\ Verdict(up[who]) \in PreState
        BY <1>1, VerdictType
      <3>2. QED  BY <1>1, <2>2, <3>1 DEF SnapshotUnit, Snapshots
    <2>3. CASE SnapshotScript
      <3>1. Existing(sudoUser) \in SUBSET Dir
        BY DEF Existing
      <3>2. /\ Verdict(script[sudoUser][who] # "absent") \in PreState
            /\ Verdict(link[sudoUser][who] # "absent") \in PreState
        BY VerdictType
      <3>3. QED  BY <1>1, <2>3, <3>1, <3>2 DEF SnapshotScript, Snapshots
    <2>4. CASE SnapshotBashrc
      <3>1. Verdict("path" \in bashrc[sudoUser].lines) \in PreState /\ bashrc[sudoUser].there \in BOOLEAN
        BY <1>1 DEF Bashrc, Verdict, PreState
      <3>2. QED  BY <1>1, <2>4, <3>1 DEF SnapshotBashrc, Snapshots
    <2>5. QED  BY <2>1, <2>2, <2>3, <2>4
  <1>3. ProcessOK'
    BY <1>1, <1>2, SnapshottedType, TypeSplit
  <1>4. WorldType'
    BY <1>2, WorldUnchanged, TypeSplit DEF Snapshotted
  <1>5. QED  BY <1>3, <1>4 DEF TypeOK, ProcessOK

LEMMA RunsType ==
    ASSUME TypeInv, RunStep \/ RunFails  PROVE TypeOK'
  <1>1. pc = "run" /\ ProcessOK /\ faults \in 0 .. MaxFaults
    BY StepTypes DEF TypeInv, RunStep, RunFails
  <1>2. PICK far \in 0 .. 3 : Effect(far) /\ snap' = Claims(far)
    <2>1. 3 \in 0 .. 3
      OBVIOUS
    <2>2. QED  BY <2>1 DEF RunStep, RunFails
  <1>3. WorldType' /\ snap' \in Snapshots
    BY <1>1, <1>2, EffectType, ClaimsType
  <1>4. ProcessOK'
    BY <1>1, <1>3, RanType, FailedType DEF RunStep, RunFails
  <1>5. QED  BY <1>3, <1>4 DEF TypeOK, ProcessOK

\* The sets an undo takes its parts from.
LEMMA SmallSets ==
    /\ IsFiniteSet({"file"}) /\ IsFiniteSet({"stop", "disable", "remove"})
    /\ IsFiniteSet({"link", "script"} \cup Dir) /\ IsFiniteSet({"first", "read"})
  <1>1. IsFiniteSet({"file"}) /\ IsFiniteSet({"first", "read"})
    <2>1. IsFiniteSet({"file"}) /\ IsFiniteSet({"first"}) /\ IsFiniteSet({"read"})
      BY FS_Singleton
    <2>2. IsFiniteSet({"first"} \cup {"read"})
      BY <2>1, FS_Union
    <2>3. {"first"} \cup {"read"} = {"first", "read"}
      OBVIOUS
    <2>4. QED  BY <2>1, <2>2, <2>3
  <1>2. IsFiniteSet({"stop", "disable", "remove"})
    <2>1. IsFiniteSet({"stop"}) /\ IsFiniteSet({"disable"}) /\ IsFiniteSet({"remove"})
      BY FS_Singleton
    <2>2. IsFiniteSet(({"stop"} \cup {"disable"}) \cup {"remove"})
      BY <2>1, FS_Union
    <2>3. ({"stop"} \cup {"disable"}) \cup {"remove"} = {"stop", "disable", "remove"}
      OBVIOUS
    <2>4. QED  BY <2>2, <2>3
  <1>3. IsFiniteSet({"link", "script"} \cup Dir)
    <2>1. /\ IsFiniteSet({"link"}) /\ IsFiniteSet({"script"})
          /\ IsFiniteSet({"scripts"}) /\ IsFiniteSet({"bin"})
      BY FS_Singleton
    <2>2. IsFiniteSet(({"link"} \cup {"script"}) \cup ({"scripts"} \cup {"bin"}))
      BY <2>1, FS_Union
    <2>3. ({"link"} \cup {"script"}) \cup ({"scripts"} \cup {"bin"}) = {"link", "script"} \cup Dir
      BY DEF Dir
    <2>4. QED  BY <2>2, <2>3
  <1>4. QED  BY <1>1, <1>2, <1>3

\* The parts that are not done are few enough.
LEMMA CostType ==
    ASSUME faults \in 0 .. MaxFaults, NEW all, IsFiniteSet(all), NEW done \in Parts(all), Cost(done, all)
    PROVE  faults' \in 0 .. MaxFaults
  <1>1. Cardinality(all \ done) \in Nat
    BY FS_Difference, FS_CardinalityType
  <1>2. faults + Cardinality(all \ done) <= MaxFaults
    BY DEF Parts
  <1>3. QED  BY <1>1, <1>2, FaultsAssumption DEF Cost

LEMMA UndoFaultsType ==
    ASSUME TypeOK, UndoConfig \/ UndoUnit \/ UndoScript \/ UndoBashrc
    PROVE  faults' \in 0 .. MaxFaults /\ Undone
  <1>1. faults \in 0 .. MaxFaults
    BY StepTypes
  <1>2. CASE UndoConfig
    BY <1>1, <1>2, SmallSets, CostType DEF UndoConfig
  <1>3. CASE UndoUnit
    BY <1>1, <1>3, SmallSets, CostType DEF UndoUnit
  <1>4. CASE UndoScript
    <2>1. PICK done \in Parts({"link", "script"} \cup Dir) : Cost(done, {"link", "script"} \cup Dir)
      BY <1>4 DEF UndoScript
    <2>2. QED  BY <1>1, <1>4, <2>1, SmallSets, CostType DEF UndoScript
  <1>5. CASE UndoBashrc
    <2>1. PICK done \in Parts({"first", "read"}) : Cost(done, {"first", "read"})
      BY <1>5 DEF UndoBashrc
    <2>2. QED  BY <1>1, <1>5, <2>1, SmallSets, CostType DEF UndoBashrc
  <1>6. QED  BY <1>2, <1>3, <1>4, <1>5


LEMMA UndoScriptType ==
    ASSUME TypeOK, UndoScript  PROVE WorldType'
  <1>1. WorldType /\ snap \in Snapshots /\ who \in Instance /\ sudoUser \in Admin
    BY StepTypes
  <1>2. /\ link[sudoUser] \in [Instance -> Whose] /\ script[sudoUser] \in [Instance -> Whose]
        /\ scriptCopies[sudoUser] \in [Instance -> Copies] /\ dirs[sudoUser] \in [Dir -> Whose]
    BY <1>1 DEF WorldType
  <1>3. PICK done : /\ link' = [link EXCEPT ![sudoUser][who] = Unlinked(done)]
                    /\ script' = [script EXCEPT ![sudoUser][who] = Left(done)]
                    /\ scriptCopies' = [scriptCopies EXCEPT ![sudoUser][who] = @ \ Restored(done)]
                    /\ \E emptied \in SUBSET Dir :
                          dirs' = [dirs EXCEPT ![sudoUser] =
                                     [d \in Dir |-> IF d \in emptied THEN "absent" ELSE @[d]]]
    BY DEF UndoScript
  <1>4. Unlinked(done) \in Whose /\ Restored(done) \in SUBSET {"ours", "theirs"}
    BY <1>1, <1>2 DEF Unlinked, Restored, Whose, Copies
  <1>5. Left(done) \in Whose
    <2>1. Restored(done) # {} => (CHOOSE c \in Restored(done) : TRUE) \in Restored(done)
      OBVIOUS
    <2>2. QED  BY <1>1, <1>2, <1>4, <2>1 DEF Left, Whose
  <1>6. PICK there \in [Dir -> Whose] : dirs' = [dirs EXCEPT ![sudoUser] = there]
    BY <1>2, <1>3 DEF Whose
  <1>7. /\ link' \in [Admin -> [Instance -> Whose]] /\ script' \in [Admin -> [Instance -> Whose]]
    BY <1>1, <1>2, <1>3, <1>4, <1>5 DEF WorldType
  <1>8. scriptCopies' \in [Admin -> [Instance -> Copies]]
    <2>1. scriptCopies[sudoUser][who] \ Restored(done) \in Copies
      BY <1>1, <1>2 DEF Copies
    <2>2. QED  BY <1>1, <1>2, <1>3, <2>1 DEF WorldType
  <1>9. dirs' \in [Admin -> [Dir -> Whose]]
    BY <1>1, <1>6 DEF WorldType
  <1>10. QED
    BY <1>1, <1>7, <1>8, <1>9 DEF UndoScript, WorldType, config, service, shell, sessions

LEMMA UndosType ==
    ASSUME TypeOK, UndoConfig \/ UndoUnit \/ UndoScript \/ UndoBashrc
    PROVE  TypeOK'
  <1>1. /\ WorldType /\ snap \in Snapshots /\ who \in Instance /\ sudoUser \in Admin
        /\ bashrc[sudoUser] \in Bashrc
    BY StepTypes
  <1>2. ProcessOK'
    BY UndoFaultsType, UndoneType, TypeSplit
  <1>3. WorldType'
    <2>1. CASE UndoConfig
      <3>1. \/ UNCHANGED config
            \/ conf' = [conf EXCEPT ![who] = "absent"] /\ UNCHANGED confCopies
            \/ \E c \in snap.confBackup \cap confCopies[who] :
                  /\ conf' = [conf EXCEPT ![who] = c]
                  /\ confCopies' = [confCopies EXCEPT ![who] = @ \ {c}]
        BY <2>1 DEF UndoConfig
      <3>2. confCopies[who] \in Copies
        BY <1>1 DEF WorldType
      <3>3. conf' \in [Instance -> Whose]
        BY <1>1, <3>1, <3>2 DEF WorldType, Whose, Copies, config
      <3>5. confCopies' \in [Instance -> Copies]
        <4>1. \A c : confCopies[who] \ {c} \in Copies
          BY <3>2 DEF Copies
        <4>2. CASE \E c : confCopies' = [confCopies EXCEPT ![who] = confCopies[who] \ {c}]
          <5>1. PICK S \in Copies : confCopies' = [confCopies EXCEPT ![who] = S]
            BY <4>1, <4>2
          <5>2. QED  BY <1>1, <5>1 DEF WorldType
        <4>3. CASE UNCHANGED confCopies
          BY <1>1, <4>3 DEF WorldType
        <4>4. QED  BY <3>1, <4>2, <4>3 DEF config
      <3>4. QED
        BY <1>1, <2>1, <3>3, <3>5 DEF UndoConfig, WorldType, service, helper, shell, sessions
    <2>2. CASE UndoUnit
      <3>1. /\ unit' \in [Instance -> Whose] /\ enabled' \in [Instance -> BOOLEAN]
            /\ up' \in [Instance -> BOOLEAN]
        BY <1>1, <2>2 DEF UndoUnit, WorldType, Whose
      <3>2. owed' \in [Instance -> {"nothing", "up", "down", "unmet"}]
        BY <1>1, <2>2 DEF UndoUnit, Changed, WorldType
      <3>3. QED
        BY <1>1, <2>2, <3>1, <3>2 DEF UndoUnit, WorldType, config, helper, shell
    <2>3. CASE UndoScript
      BY <2>3, UndoScriptType
    <2>4. CASE UndoBashrc
      <3>1. \/ UNCHANGED <<bashrc, copies>>
            \/ bashrc' = [bashrc EXCEPT ![sudoUser] = NoBashrc] /\ UNCHANGED copies
            \/ \E lines \in snap.backup :
                  /\ bashrc' = [bashrc EXCEPT ![sudoUser] = [there |-> TRUE, lines |-> lines]]
                  /\ copies' = [copies EXCEPT ![sudoUser] = @ \ {lines}]
            \/ bashrc' = [bashrc EXCEPT ![sudoUser].lines = @ \ {"path"}] /\ UNCHANGED copies
        BY <2>4 DEF UndoBashrc
      <3>2. NoBashrc \in Bashrc /\ \A lines \in snap.backup : [there |-> TRUE, lines |-> lines] \in Bashrc
        BY <1>1 DEF NoBashrc, Bashrc, Snapshots
      <3>3. [bashrc[sudoUser] EXCEPT !.lines = @ \ {"path"}] \in Bashrc
        BY <1>1 DEF Bashrc
      <3>4. PICK b \in Bashrc : bashrc' = [bashrc EXCEPT ![sudoUser] = b]
        <4>1. CASE UNCHANGED <<bashrc, copies>>
          BY <1>1, <4>1 DEF WorldType
        <4>2. CASE bashrc' = [bashrc EXCEPT ![sudoUser].lines = @ \ {"path"}]
          BY <1>1, <3>3, <4>2 DEF WorldType
        <4>3. QED  BY <3>1, <3>2, <4>1, <4>2
      <3>5. copies' \in [Admin -> SUBSET SUBSET Line]
        <4>1. copies[sudoUser] \in SUBSET SUBSET Line
          BY <1>1 DEF WorldType
        <4>2. \A lines : copies[sudoUser] \ {lines} \in SUBSET SUBSET Line
          BY <4>1
        <4>3. CASE \E lines : copies' = [copies EXCEPT ![sudoUser] = copies[sudoUser] \ {lines}]
          <5>1. PICK S \in SUBSET SUBSET Line : copies' = [copies EXCEPT ![sudoUser] = S]
            BY <4>2, <4>3
          <5>2. QED  BY <1>1, <5>1 DEF WorldType
        <4>4. CASE UNCHANGED copies
          BY <1>1, <4>4 DEF WorldType
        <4>5. QED  BY <3>1, <4>3, <4>4
      <3>7. bashrc' \in [Admin -> Bashrc]
        BY <1>1, <3>4 DEF WorldType
      <3>6. QED
        BY <1>1, <2>4, <3>5, <3>7 DEF UndoBashrc, WorldType, config, service, helper, sessions
    <2>5. QED  BY <2>1, <2>2, <2>3, <2>4
  <1>4. QED  BY <1>2, <1>3 DEF TypeOK, ProcessOK

\* A write that is cut short takes lines from a file that is there.
LEMMA WrittenShortType ==
    ASSUME TypeOK, WrittenShort(sudoUser)
    PROVE  WorldType'
  <1>1. WorldType /\ sudoUser \in Admin /\ bashrc[sudoUser] \in Bashrc
    BY StepTypes
  <1>2. PICK lines \in SUBSET bashrc[sudoUser].lines :
          /\ bashrc' = [bashrc EXCEPT ![sudoUser].lines = lines]
          /\ cutShort' = cutShort \/ cutShort' = cutShort \cup {sudoUser}
    BY DEF WrittenShort
  <1>3. [bashrc[sudoUser] EXCEPT !.lines = lines] \in Bashrc
    BY <1>1 DEF Bashrc
  <1>4. bashrc' \in [Admin -> Bashrc] /\ cutShort' \subseteq Admin
    BY <1>1, <1>2, <1>3 DEF WorldType
  <1>5. QED
    BY <1>1, <1>4 DEF WrittenShort, WorldType, config, service, helper, sessions

LEMMA UndoFailsType ==
    ASSUME TypeOK, UndoBashrcFails  PROVE TypeOK'
  <1>1. WorldType'
    BY WrittenShortType DEF UndoBashrcFails
  <1>2. faults' \in 0 .. MaxFaults
    BY FaultType, TypeSplit DEF UndoBashrcFails
  <1>3. ProcessOK'
    BY <1>2, TypeSplit, UndoBelowType DEF UndoBashrcFails, UndoFailed, ProcessOK, ProcessType
  <1>4. QED  BY <1>1, <1>3 DEF TypeOK, ProcessOK

LEMMA CommandsType ==
    ASSUME TypeOK, NEW i \in Instance, Install(i) \/ Rollback(i)
    PROVE  TypeOK'
  <1>1. PICK u \in Admin : Begin(i, u) \/ BeginRollback(i, u)
    <2>1. man[i].args \in Admin
      BY StepTypes DEF Manifests
    <2>2. QED  BY <2>1 DEF Install, Rollback
  <1>2. ProcessOK'
    BY <1>1, BeginType, TypeSplit
  <1>3. WorldType'
    BY <1>1, WorldUnchanged, TypeSplit DEF Begin, BeginRollback
  <1>4. QED  BY <1>2, <1>3 DEF TypeOK, ProcessOK

LEMMA EnginesType ==
    ASSUME TypeOK, Stops \/ Skip \/ Finish
    PROVE  TypeOK'
  <1>1. ProcessOK'
    BY StopsType, SkipType, FinishedType, TypeSplit DEF Finish
  <1>2. WorldType'
    BY WorldUnchanged, TypeSplit DEF Stops, Skip, Finish
  <1>3. QED  BY <1>1, <1>2 DEF TypeOK, ProcessOK

LEMMA DieType ==
    ASSUME TypeInv, Die  PROVE TypeOK'
  <1>1. ProcessOK'
    BY DiesType, TypeSplit DEF Die, TypeInv
  <1>2. WorldType'
    BY EffectType, WorldUnchanged, WrittenShortType, TypeSplit DEF Die, TypeInv
  <1>3. QED  BY <1>1, <1>2 DEF TypeOK, ProcessOK

\* The administrators' own steps, and those of the sessions, are beside the
\* commands.
Alone == UNCHANGED <<man, pc, who, idx, snap, recorded, others, sudoUser, remains, spoilt>>

LEMMA AloneType ==
    ASSUME ProcessOK, Alone, faults' \in 0 .. MaxFaults  PROVE ProcessOK'
  BY DEF Alone, ProcessOK, ProcessType

LEMMA AdminsType ==
    ASSUME TypeOK, NEW u \in Admin, Types(u) \/ Tidies(u)
    PROVE  TypeOK'
  <1>1. WorldType /\ ProcessOK /\ faults \in 0 .. MaxFaults /\ bashrc[u] \in Bashrc
    BY StepTypes DEF WorldType
  <1>2. ProcessOK'
    BY <1>1, AloneType DEF Types, Tidies, Alone
  <1>3. WorldType'
    <2>1. CASE Types(u)
      <3>1. [there |-> TRUE, lines |-> bashrc[u].lines \cup {"later"}] \in Bashrc
        BY <1>1 DEF Bashrc, Line
      <3>2. bashrc' \in [Admin -> Bashrc] /\ typed' \in [Admin -> SUBSET Line]
        BY <1>1, <2>1, <3>1 DEF Types, WorldType, Line
      <3>3. QED
        BY <1>1, <2>1, <3>2 DEF Types, WorldType, config, service, helper, sessions
    <2>2. CASE Tidies(u)
      <3>1. copies' \in [Admin -> SUBSET SUBSET Line]
        BY <1>1, <2>2 DEF Tidies, WorldType
      <3>2. QED
        BY <1>1, <2>2, <3>1 DEF Tidies, WorldType, config, service, helper, sessions
    <2>3. QED  BY <2>1, <2>2
  <1>4. QED  BY <1>2, <1>3 DEF TypeOK, ProcessOK

\* What the sessions do.
SessionStep ==
    \/ \E i \in Instance : Control(i)
    \/ \E s \in Session :
          \/ Enter(s) \/ StopIt(s) \/ Leave(s)
          \/ Unanswered(s) \/ Answered(s) \/ Interrupted(s) \/ Lost(s)

LEMMA SessionsType ==
    ASSUME TypeOK, SessionStep  PROVE TypeOK'
  <1>1. WorldType /\ ProcessOK /\ faults \in 0 .. MaxFaults
    BY StepTypes
  <1>2. \A s \in Session : WorksOn[s] \in Instance
    BY SessionAssumption
  <1>3. Beside
    BY DEF SessionStep, Control, Enter, StopIt, Leave, Gone, Unanswered, Answered, Interrupted, Lost
  <1>4. Fault => faults' \in 0 .. MaxFaults
    BY <1>1, FaultType
  <1>5. faults' \in 0 .. MaxFaults
    BY <1>1, <1>4 DEF SessionStep, Control, Enter, StopIt, Leave, Unanswered, Answered, Interrupted, Lost, InTheMiddle
  <1>6. ProcessOK'
    BY <1>1, <1>3, <1>5, AloneType DEF Beside, Alone
  <1>7. /\ up' \in [Instance -> BOOLEAN] /\ owed' \in [Instance -> {"nothing", "up", "down", "unmet"}]
        /\ at' \in [Session -> {"none", "trapped", "shell", "asked"}] /\ entry' \in [Session -> BOOLEAN]
    <2>1. CASE \E i \in Instance : Control(i)
      BY <1>1, <2>1 DEF Control, Changed, WorldType
    <2>2. CASE \E s \in Session : Enter(s)
      <3>1. \A i \in Instance : Service(i) \in {"up", "down"}
        BY DEF Service
      <3>2. QED  BY <1>1, <1>2, <2>2, <3>1 DEF Enter, WorldType
    <2>3. CASE \E s \in Session : StopIt(s)
      BY <1>1, <1>2, <2>3 DEF StopIt, WorldType
    <2>4. CASE \E s \in Session : Leave(s)
      BY <1>1, <1>2, <2>4 DEF Leave, Gone, WorldType
    <2>5. CASE \E s \in Session : Unanswered(s)
      BY <1>1, <1>2, <2>5 DEF Unanswered, Starts, Gone, WorldType
    <2>6. CASE \E s \in Session : Answered(s)
      BY <1>1, <1>2, <2>6 DEF Answered, Starts, Changed, WorldType
    <2>7. CASE \E s \in Session : Lost(s)
      BY <1>1, <1>2, <2>7 DEF Lost, Changed, WorldType
    <2>8. CASE \E s \in Session : Interrupted(s)
      BY <1>1, <1>2, <2>8 DEF Interrupted, WorldType
    <2>9. QED  BY <2>1, <2>2, <2>3, <2>4, <2>5, <2>6, <2>7, <2>8 DEF SessionStep
  <1>8. WorldType'
    BY <1>1, <1>3, <1>7 DEF Beside, WorldType, config, helper, shell
  <1>9. QED  BY <1>6, <1>8 DEF TypeOK, ProcessOK


\* Only a snapshot begins a run, and no run is two steps; while one is under way
\* nobody else touches what it reads.
LEMMA OnlySnapshotsRun ==
    ASSUME Next, pc' = "run"
    PROVE  \/ SnapshotConfig \/ SnapshotUnit \/ SnapshotScript \/ SnapshotBashrc
           \/ /\ pc = "run" /\ UNCHANGED <<who, idx, snap, recorded, sudoUser, man, conf, script, link, dirs, found>>
  <1>1. CASE \E u \in Admin : Types(u) \/ Tidies(u)
    BY <1>1 DEF Types, Tidies, config, helper
  <1>2. CASE SessionStep
    <2>1. Beside
      BY <1>2 DEF SessionStep, Control, Enter, StopIt, Leave, Gone, Unanswered, Answered, Interrupted, Lost
    <2>2. QED  BY <2>1 DEF Beside, config, helper
  <1>3. CASE ~(SessionStep \/ \E u \in Admin : Types(u) \/ Tidies(u))
    BY <1>3 DEF SessionStep, Next, Install, Rollback, Begin, BeginRollback, Stops, Skip, Finish, Finished,
       Exit, UndoBelow, RunStep, Ran, RunFails, Failed, UndoConfig, UndoUnit, UndoScript, UndoBashrc,
       UndoBashrcFails, Undone, UndoFailed, Die, Dies
  <1>4. QED  BY <1>1, <1>2, <1>3

LEMMA NextFileThere ==
    ASSUME TypeInv, Next  PROVE FileThere'
  <1> SUFFICES ASSUME pc' = "run"  PROVE FileThere'
    BY DEF FileThere
  <1>1. /\ snap \in Snapshots
    BY StepTypes DEF TypeInv
  <1>2. CASE SnapshotConfig
    <2>1. /\ snap' = [snap EXCEPT !.conf = Verdict(conf[who] # "absent")]
          /\ UNCHANGED <<idx, who, conf>> /\ idx = ConfigStep
      BY <1>2 DEF SnapshotConfig, At, Snapshotted, world, config
    <2>2. QED  BY <1>1, <2>1 DEF FileThere, Verdict, Snapshots
  <1>3. CASE SnapshotScript
    <2>1. /\ snap'.script = Verdict(script[sudoUser][who] # "absent")
          /\ UNCHANGED <<idx, who, sudoUser, script>> /\ idx = ScriptStep
      BY <1>1, <1>3 DEF SnapshotScript, At, Snapshotted, world, helper, Snapshots
    <2>2. QED  BY <2>1 DEF FileThere, Verdict
  <1>4. CASE SnapshotUnit \/ SnapshotBashrc
    BY <1>4 DEF SnapshotUnit, SnapshotBashrc, At, Snapshotted, FileThere
  <1>5. QED
    BY <1>2, <1>3, <1>4, OnlySnapshotsRun DEF TypeInv, FileThere

LEMMA InitType == Init => TypeInv
  <1> SUFFICES ASSUME Init  PROVE TypeInv
    OBVIOUS
  <1>1. ProcessOK
    BY StartType DEF Init
  <1>2. /\ conf \in [Instance -> Whose] /\ unit \in [Instance -> Whose]
        /\ enabled \in [Instance -> BOOLEAN] /\ up \in [Instance -> BOOLEAN]
        /\ dirs \in [Admin -> [Dir -> Whose]]
        /\ script \in [Admin -> [Instance -> Whose]] /\ link \in [Admin -> [Instance -> Whose]]
    BY DEF Init, Whose
  <1>3. bashrc \in [Admin -> Bashrc]
    <2>1. NoBashrc \in Bashrc
      BY DEF Bashrc, NoBashrc
    <2>2. {{"own"}, {"own", "path"}} \subseteq SUBSET Line
      BY DEF Line
    <2>3. [there : {TRUE}, lines : {{"own"}, {"own", "path"}}] \subseteq Bashrc
      BY <2>2 DEF Bashrc
    <2>4. QED  BY <2>1, <2>3 DEF Init
  <1>4. typed \in [Admin -> SUBSET Line]
    BY <1>3 DEF Init, Bashrc
  <1>5. /\ confCopies \in [Instance -> Copies] /\ scriptCopies \in [Admin -> [Instance -> Copies]]
        /\ copies \in [Admin -> SUBSET SUBSET Line]
        /\ at \in [Session -> {"none", "trapped", "shell", "asked"}] /\ entry \in [Session -> BOOLEAN]
        /\ owed \in [Instance -> {"nothing", "up", "down", "unmet"}] /\ cutShort \subseteq Admin
    BY DEF Init, Copies
  <1>6. pc = "idle"
    BY DEF Init, Start
  <1>7. QED
    BY <1>1, <1>2, <1>3, <1>4, <1>5, <1>6 DEF TypeInv, TypeOK, WorldType, ProcessOK, FileThere

LEMMA NextType == TypeInv /\ [Next]_vars => TypeInv'
  <1> SUFFICES ASSUME TypeInv, [Next]_vars  PROVE TypeInv'
    OBVIOUS
  <1>1. CASE UNCHANGED vars
    BY <1>1 DEF vars, world, config, service, helper, shell, sessions, TypeInv, TypeOK, WorldType,
                ProcessType, FileThere
  <1>2. CASE Next
    <2>1. TypeOK'
      BY <1>2, CommandsType, EnginesType, SnapshotsType, RunsType, UndosType, UndoFailsType, DieType, AdminsType,
         SessionsType DEF Next, TypeInv, SessionStep
    <2>2. FileThere'
      BY <1>2, NextFileThere
    <2>3. QED  BY <2>1, <2>2 DEF TypeInv
  <1>3. QED  BY <1>1, <1>2

\* The variables keep their types, whatever commands and sessions come and go.
THEOREM ServiceTypeOK == Spec => []TypeOK
  <1>1. TypeInv => TypeOK
    BY DEF TypeInv
  <1>2. QED  BY <1>1, InitType, NextType, PTL DEF Spec

-----------------------------------------------------------------------------
(* Nothing the customer had is lost.                                       *)

\* A file of theirs is never gone; and when a copy of ours has come beside the
\* copy of theirs, theirs is not in its place any more.
FileKept(file, saved) ==
    /\ file # "absent"
    /\ file = "theirs" \/ "theirs" \in saved
    /\ "ours" \in saved => file # "theirs" /\ "theirs" \in saved

ConfKept == \A i \in Instance : found.conf[i] = "theirs" => FileKept(conf[i], confCopies[i])

ScriptsKept ==
    \A u \in Admin : \A i \in Instance :
        found.script[u][i] = "theirs" => FileKept(script[u][i], scriptCopies[u][i])

LinksKept ==
    \A u \in Admin : \A i \in Instance : found.link[u][i] = "theirs" => link[u][i] = "theirs"

DirsKept == \A u \in Admin : \A d \in Dir : found.dirs[u][d] = "theirs" => dirs[u][d] = "theirs"

\* And a .bashrc that is not there has no lines.
BashrcKept ==
    \A u \in Admin : /\ u \notin cutShort => found.bashrc[u].lines \subseteq bashrc[u].lines
                     /\ ~bashrc[u].there => bashrc[u].lines = {}

AllKept == ConfKept /\ ScriptsKept /\ LinksKept /\ DirsKept /\ BashrcKept

\* What a snapshot of u's installation of i calls created by us was not there
\* before, what it calls the copy of theirs is the only one of the copies, and
\* every copy of .bashrc has the lines that were there, if none was cut short.
RecordOK(s, i, u, saved, scripts) ==
    /\ found.conf[i] = "theirs" =>
          s.conf # "CreatedByUs" /\ ("theirs" \in s.confBackup => "ours" \notin saved)
    /\ found.script[u][i] = "theirs" =>
          s.script # "CreatedByUs" /\ ("theirs" \in s.scriptBackup => "ours" \notin scripts)
    /\ found.link[u][i] = "theirs" => s.link # "CreatedByUs"
    /\ s.line = "CreatedByUs" /\ u \notin cutShort =>
          /\ "path" \notin found.bashrc[u].lines
          /\ ~s.bashrcExisted => found.bashrc[u].lines = {}
    /\ u \notin cutShort => \A lines \in s.backup : found.bashrc[u].lines \subseteq lines

\* The directories that were there are recorded with the script.
ExistedOK(s, u, steps) ==
    ScriptStep \in steps => \A d \in Dir : found.dirs[u][d] = "theirs" => d \in s.existed

ManifestsOK ==
    \A i \in Instance :
        /\ RecordOK(man[i].snap, i, man[i].args, confCopies[i], scriptCopies[man[i].args][i])
        /\ ExistedOK(man[i].snap, man[i].args, man[i].steps)

\* The steps the snapshots in memory speak of.
Spoken == IF pc \in {"run", "undo"} THEN recorded \cup {idx} ELSE recorded

MemoryOK ==
    pc # "idle" =>
        /\ RecordOK(snap, who, sudoUser, confCopies[who], scriptCopies[sudoUser][who])
        /\ ExistedOK(snap, sudoUser, Spoken)
        /\ man[who].steps # {} => sudoUser = man[who].args

\* What is not recorded is not in the snapshots either.
Unrecorded ==
    /\ \A i \in Instance : /\ man[i].steps = {} => man[i].snap = Default
                           /\ ConfigStep \notin man[i].steps => man[i].snap.confBackup = {}
                           /\ ScriptStep \notin man[i].steps => man[i].snap.scriptBackup = {}
    /\ pc \in {"snapshot", "run"} =>
          recorded = man[who].steps /\ (ScriptStep \notin recorded => snap.scriptBackup = {})

\* What the snapshot before a run did not find was not there before either.
RunOK ==
    pc = "run" =>
        /\ idx \notin recorded
        /\ idx = ConfigStep /\ snap.conf # "Preexisting" => found.conf[who] # "theirs"
        /\ idx = ScriptStep =>
              /\ snap.script # "Preexisting" => found.script[sudoUser][who] # "theirs"
              /\ snap.link # "Preexisting" => found.link[sudoUser][who] # "theirs"
        /\ idx = BashrcStep /\ snap.line = "Untracked" /\ sudoUser \notin cutShort =>
              /\ "path" \notin found.bashrc[sudoUser].lines
              /\ ~snap.bashrcExisted => found.bashrc[sudoUser].lines = {}

KeptInv == TypeInv /\ AllKept /\ ManifestsOK /\ MemoryOK /\ Unrecorded /\ RunOK

-----------------------------------------------------------------------------
(* The records.                                                            *)

\* The fields of the steps' snapshots.
LEMMA FieldSteps ==
    ASSUME NEW k \in Steps
    PROVE  /\ "conf" \in Fields(k) <=> k = ConfigStep
           /\ "confBackup" \in Fields(k) <=> k = ConfigStep
           /\ "script" \in Fields(k) <=> k = ScriptStep
           /\ "scriptBackup" \in Fields(k) <=> k = ScriptStep
           /\ "link" \in Fields(k) <=> k = ScriptStep
           /\ "existed" \in Fields(k) <=> k = ScriptStep
           /\ "line" \in Fields(k) <=> k = BashrcStep
           /\ "bashrcExisted" \in Fields(k) <=> k = BashrcStep
           /\ "backup" \in Fields(k) <=> k = BashrcStep
  <1>1. k \in {1, 2, 3, 4}
    BY DEF Steps
  <1>2. CASE k = 1  BY <1>2 DEF Fields
  <1>3. CASE k = 2  BY <1>3 DEF Fields
  <1>4. CASE k = 3  BY <1>4 DEF Fields
  <1>5. CASE k = 4  BY <1>5 DEF Fields
  <1>6. QED  BY <1>1, <1>2, <1>3, <1>4, <1>5

\* What the records of some steps hold of the snapshots.
LEMMA RecordsFields ==
    ASSUME NEW s \in Snapshots, NEW K \in SUBSET Steps
    PROVE  /\ Records(s, K).conf = IF ConfigStep \in K THEN s.conf ELSE "Untracked"
           /\ Records(s, K).confBackup = IF ConfigStep \in K THEN s.confBackup ELSE {}
           /\ Records(s, K).script = IF ScriptStep \in K THEN s.script ELSE "Untracked"
           /\ Records(s, K).scriptBackup = IF ScriptStep \in K THEN s.scriptBackup ELSE {}
           /\ Records(s, K).link = IF ScriptStep \in K THEN s.link ELSE "Untracked"
           /\ Records(s, K).existed = IF ScriptStep \in K THEN s.existed ELSE {}
           /\ Records(s, K).line = IF BashrcStep \in K THEN s.line ELSE "Untracked"
           /\ Records(s, K).backup = IF BashrcStep \in K THEN s.backup ELSE {}
           /\ BashrcStep \in K => Records(s, K).bashrcExisted = s.bashrcExisted
  <1>1. Records(s, K).conf = IF ConfigStep \in K THEN s.conf ELSE "Untracked"
    BY FieldSteps DEF Records, Default
  <1>2. Records(s, K).confBackup = IF ConfigStep \in K THEN s.confBackup ELSE {}
    BY FieldSteps DEF Records, Default
  <1>3. Records(s, K).script = IF ScriptStep \in K THEN s.script ELSE "Untracked"
    BY FieldSteps DEF Records, Default
  <1>4. Records(s, K).scriptBackup = IF ScriptStep \in K THEN s.scriptBackup ELSE {}
    BY FieldSteps DEF Records, Default
  <1>5. Records(s, K).link = IF ScriptStep \in K THEN s.link ELSE "Untracked"
    BY FieldSteps DEF Records, Default
  <1>6. Records(s, K).existed = IF ScriptStep \in K THEN s.existed ELSE {}
    BY FieldSteps DEF Records, Default
  <1>7. Records(s, K).line = IF BashrcStep \in K THEN s.line ELSE "Untracked"
    BY FieldSteps DEF Records, Default
  <1>8. Records(s, K).backup = IF BashrcStep \in K THEN s.backup ELSE {}
    BY FieldSteps DEF Records, Default
  <1>9. BashrcStep \in K => Records(s, K).bashrcExisted = s.bashrcExisted
    BY FieldSteps DEF Records, Default
  <1>10. QED  BY <1>1, <1>2, <1>3, <1>4, <1>5, <1>6, <1>7, <1>8, <1>9

\* A manifest that is written.
LEMMA ManifestOK ==
    \A s \in Snapshots : \A K \in SUBSET Steps : \A i, u, saved, scripts :
      RecordOK(s, i, u, saved, scripts) /\ ExistedOK(s, u, K) =>
        /\ RecordOK(Manifest(s, K, FALSE).snap, i, u, saved, scripts)
        /\ ExistedOK(Manifest(s, K, FALSE).snap, u, K)
        /\ Manifest(s, K, FALSE).steps = K
        /\ K = {} => Manifest(s, K, FALSE).snap = Default
        /\ ConfigStep \notin K => Manifest(s, K, FALSE).snap.confBackup = {}
        /\ ScriptStep \notin K => Manifest(s, K, FALSE).snap.scriptBackup = {}
        /\ K # {} /\ man[who].steps # {} => Manifest(s, K, FALSE).args = man[who].args
        /\ K # {} /\ man[who].steps = {} => Manifest(s, K, FALSE).args = sudoUser
  <1> TAKE s \in Snapshots
  <1> TAKE K \in SUBSET Steps
  <1> TAKE i, u, saved, scripts
  <1> HAVE RecordOK(s, i, u, saved, scripts) /\ ExistedOK(s, u, K)
  <1>1. CASE K = {}
    BY <1>1 DEF Manifest, NoManifest, RecordOK, ExistedOK, Default
  <1>2. CASE K # {}
    <2>1. Manifest(s, K, FALSE).snap = Records(s, K) /\ Manifest(s, K, FALSE).steps = K
      BY <1>2 DEF Manifest
    <2>2. PICK r : r = Records(s, K)
      OBVIOUS
    <2>3. /\ r.conf = IF ConfigStep \in K THEN s.conf ELSE "Untracked"
          /\ r.confBackup = IF ConfigStep \in K THEN s.confBackup ELSE {}
          /\ r.script = IF ScriptStep \in K THEN s.script ELSE "Untracked"
          /\ r.scriptBackup = IF ScriptStep \in K THEN s.scriptBackup ELSE {}
          /\ r.link = IF ScriptStep \in K THEN s.link ELSE "Untracked"
          /\ r.existed = IF ScriptStep \in K THEN s.existed ELSE {}
          /\ r.line = IF BashrcStep \in K THEN s.line ELSE "Untracked"
          /\ r.backup = IF BashrcStep \in K THEN s.backup ELSE {}
          /\ BashrcStep \in K => r.bashrcExisted = s.bashrcExisted
      BY <2>2, RecordsFields
    <2>4. RecordOK(r, i, u, saved, scripts)
      BY <2>3 DEF RecordOK
    <2>5. ExistedOK(r, u, K)
      BY <2>3 DEF ExistedOK
    <2>6. /\ man[who].steps # {} => Manifest(s, K, FALSE).args = man[who].args
          /\ man[who].steps = {} => Manifest(s, K, FALSE).args = sudoUser
      BY <1>2 DEF Manifest, Kept
    <2>7. QED  BY <1>2, <2>1, <2>2, <2>3, <2>4, <2>5, <2>6
  <1>3. QED  BY <1>1, <1>2

\* Copies that go take nothing from a record.
LEMMA FewerCopies ==
    ASSUME NEW s, NEW i, NEW u, NEW saved, NEW scripts, RecordOK(s, i, u, saved, scripts),
           NEW saved2 \in SUBSET saved, NEW scripts2 \in SUBSET scripts
    PROVE  RecordOK(s, i, u, saved2, scripts2)
  BY DEF RecordOK

\* No steps, nothing recorded: right for any administrator.
LEMMA DefaultOK ==
    ASSUME NEW i, NEW u, NEW saved, NEW scripts
    PROVE  RecordOK(Default, i, u, saved, scripts) /\ ExistedOK(Default, u, {})
  BY DEF RecordOK, ExistedOK, Default

\* What the invariant says of a process that is there, and of the manifests.
LEMMA KeptFacts ==
    ASSUME KeptInv
    PROVE  /\ man \in [Instance -> Manifests] /\ who \in Instance /\ snap \in Snapshots
           /\ recorded \in SUBSET Steps /\ sudoUser \in Admin
           /\ idx \in 1 .. 5 /\ (pc \in {"run", "undo"} => idx \in Steps)
           /\ \A i \in Instance :
                /\ RecordOK(man[i].snap, i, man[i].args, confCopies[i], scriptCopies[man[i].args][i])
                /\ ExistedOK(man[i].snap, man[i].args, man[i].steps)
                /\ man[i].args \in Admin /\ man[i].steps \in SUBSET Steps
           /\ pc # "idle" =>
                /\ RecordOK(snap, who, sudoUser, confCopies[who], scriptCopies[sudoUser][who])
                /\ ExistedOK(snap, sudoUser, recorded)
                /\ man[who].steps # {} => sudoUser = man[who].args
  <1>1. /\ man \in [Instance -> Manifests] /\ who \in Instance /\ snap \in Snapshots
        /\ recorded \in SUBSET Steps /\ sudoUser \in Admin
        /\ idx \in 1 .. 5 /\ (pc \in {"run", "undo"} => idx \in Steps)
    BY StepTypes DEF KeptInv, TypeInv, Steps
  <1>2. \A i \in Instance : man[i].args \in Admin /\ man[i].steps \in SUBSET Steps
    BY <1>1 DEF Manifests
  <1>3. pc # "idle" => ExistedOK(snap, sudoUser, recorded)
    BY DEF KeptInv, MemoryOK, ExistedOK, Spoken
  <1>4. QED  BY <1>1, <1>2, <1>3 DEF KeptInv, ManifestsOK, MemoryOK

\* The copies only go.
CopiesGo ==
    /\ \A i \in Instance : confCopies'[i] \in SUBSET confCopies[i]
    /\ \A u \in Admin : \A i \in Instance : scriptCopies'[u][i] \in SUBSET scriptCopies[u][i]

LEMMA CopiesGoOK ==
    ASSUME KeptInv, CopiesGo
    PROVE  /\ \A i \in Instance :
                RecordOK(man[i].snap, i, man[i].args, confCopies'[i], scriptCopies'[man[i].args][i])
           /\ pc # "idle" => RecordOK(snap, who, sudoUser, confCopies'[who], scriptCopies'[sudoUser][who])
  BY KeptFacts, FewerCopies DEF CopiesGo

\* A manifest that is written for the process's instance.
LEMMA WrittenOK ==
    ASSUME KeptInv, pc # "idle", NEW m, man' = [man EXCEPT ![who] = m], UNCHANGED found, cutShort \subseteq cutShort',
           m.steps = {} => m.snap = Default,
           m.steps # {} =>
             /\ m.args = sudoUser
             /\ RecordOK(m.snap, who, sudoUser, confCopies'[who], scriptCopies'[sudoUser][who])
             /\ ExistedOK(m.snap, sudoUser, m.steps),
           \A i \in Instance \ {who} :
             RecordOK(man[i].snap, i, man[i].args, confCopies'[i], scriptCopies'[man[i].args][i])
    PROVE  ManifestsOK'
  <1>1. \A i \in Instance : man'[i] = IF i = who THEN m ELSE man[i]
    BY KeptFacts
  <1>2. \A i \in Instance :
          /\ RecordOK(man'[i].snap, i, man'[i].args, confCopies'[i], scriptCopies'[man'[i].args][i])
          /\ ExistedOK(man'[i].snap, man'[i].args, man'[i].steps)
    <2> SUFFICES ASSUME NEW i \in Instance
                 PROVE  /\ RecordOK(man'[i].snap, i, man'[i].args, confCopies'[i], scriptCopies'[man'[i].args][i])
                        /\ ExistedOK(man'[i].snap, man'[i].args, man'[i].steps)
      OBVIOUS
    <2>1. CASE i # who
      <3>1. man'[i] = man[i]
        BY <1>1, <2>1
      <3>2. QED  BY <2>1, <3>1, KeptFacts
    <2>2. CASE i = who /\ m.steps = {}
      <3>1. \A s, u, saved, scripts :
              s = Default => RecordOK(s, i, u, saved, scripts) /\ ExistedOK(s, u, {})
        BY DefaultOK
      <3>2. man'[i] = m
        BY <1>1, <2>2
      <3>3. QED  BY <2>2, <3>1, <3>2
    <2>3. CASE i = who /\ m.steps # {}
      <3>1. man'[i] = m
        BY <1>1, <2>3
      <3>2. QED  BY <2>3, <3>1
    <2>4. QED  BY <2>1, <2>2, <2>3
  <1>3. QED  BY <1>2 DEF ManifestsOK, RecordOK, ExistedOK

\* The next undo, or the end of the process.
LEMMA UndoBelowKeeps ==
    ASSUME KeptInv, pc # "idle", NEW k, NEW K \in SUBSET recorded, UndoBelow(k, K), UNCHANGED found, cutShort \subseteq cutShort',
           CopiesGo
    PROVE  ManifestsOK' /\ MemoryOK' /\ Unrecorded' /\ RunOK'
  <1> DEFINE todo == {j \in K : j < k}
             m == Manifest(snap, K, FALSE)
  <1>1. /\ snap \in Snapshots /\ K \in SUBSET Steps /\ man \in [Instance -> Manifests] /\ who \in Instance
        /\ RecordOK(snap, who, sudoUser, confCopies'[who], scriptCopies'[sudoUser][who])
        /\ ExistedOK(snap, sudoUser, K)
        /\ man[who].steps # {} => sudoUser = man[who].args
        /\ \A i \in Instance :
             RecordOK(man[i].snap, i, man[i].args, confCopies'[i], scriptCopies'[man[i].args][i])
    BY KeptFacts, CopiesGoOK DEF ExistedOK
  <1>2. CASE todo = {}
    <2>1. pc' = "idle" /\ man' = [man EXCEPT ![who] = m]
      BY <1>2 DEF UndoBelow, Exit
    <2>2. \A saved, scripts : RecordOK(snap, who, sudoUser, saved, scripts) =>
             /\ RecordOK(Manifest(snap, K, FALSE).snap, who, sudoUser, saved, scripts)
             /\ ExistedOK(Manifest(snap, K, FALSE).snap, sudoUser, K)
             /\ Manifest(snap, K, FALSE).steps = K
             /\ K = {} => Manifest(snap, K, FALSE).snap = Default
             /\ ConfigStep \notin K => Manifest(snap, K, FALSE).snap.confBackup = {}
             /\ ScriptStep \notin K => Manifest(snap, K, FALSE).snap.scriptBackup = {}
             /\ K # {} /\ man[who].steps # {} => Manifest(snap, K, FALSE).args = man[who].args
             /\ K # {} /\ man[who].steps = {} => Manifest(snap, K, FALSE).args = sudoUser
      BY <1>1, ManifestOK
    <2>3. /\ RecordOK(m.snap, who, sudoUser, confCopies'[who], scriptCopies'[sudoUser][who])
          /\ ExistedOK(m.snap, sudoUser, K) /\ m.steps = K
          /\ K = {} => m.snap = Default
          /\ ConfigStep \notin K => m.snap.confBackup = {}
          /\ ScriptStep \notin K => m.snap.scriptBackup = {}
          /\ K # {} => m.args = sudoUser
      BY <1>1, <2>2
    <2>. HIDE DEF m
    <2>4. ManifestsOK'
      BY <1>1, <2>1, <2>3, WrittenOK
    <2>5. Unrecorded'
      BY <1>1, <2>1, <2>3 DEF KeptInv, Unrecorded
    <2>6. QED  BY <2>1, <2>4, <2>5 DEF MemoryOK, RunOK
  <1>3. CASE todo # {}
    <2>1. pc' = "undo" /\ recorded' = K /\ idx' = Max(todo) /\ UNCHANGED <<who, snap, sudoUser, man>>
      BY <1>3 DEF UndoBelow
    <2>2. idx' \in K
      BY <1>1, <1>3, <2>1, MaxIs
    <2>3. Spoken' = K
      BY <2>1, <2>2 DEF Spoken
    <2>4. ManifestsOK'
      BY <1>1, <2>1, KeptFacts DEF ManifestsOK, RecordOK, ExistedOK
    <2>5. MemoryOK'
      BY <1>1, <2>1, <2>3 DEF MemoryOK, RecordOK, ExistedOK
    <2>6. QED  BY <2>1, <2>4, <2>5 DEF KeptInv, Unrecorded, RunOK
  <1>4. QED  BY <1>2, <1>3


\* A run that has been recorded: the step's claims go to the manifest.
LEMMA RanKeeps ==
    ASSUME KeptInv, pc = "run", Ran, UNCHANGED <<found, sudoUser>>, cutShort \subseteq cutShort', snap' \in Snapshots,
           RecordOK(snap', who, sudoUser, confCopies'[who], scriptCopies'[sudoUser][who]),
           ExistedOK(snap', sudoUser, recorded \cup {idx}),
           \A i \in Instance :
             RecordOK(man[i].snap, i, man[i].args, confCopies'[i], scriptCopies'[man[i].args][i]),
           idx # ScriptStep => snap'.scriptBackup = snap.scriptBackup
    PROVE  ManifestsOK' /\ MemoryOK' /\ Unrecorded' /\ RunOK'
  <1> DEFINE m == Manifest(snap', recorded', FALSE)
  <1>1. /\ man \in [Instance -> Manifests] /\ who \in Instance /\ recorded' \in SUBSET Steps
        /\ recorded' = recorded \cup {idx}
        /\ man[who].steps # {} => sudoUser = man[who].args
        /\ pc' = "snapshot" /\ man' = [man EXCEPT ![who] = m] /\ UNCHANGED who
    BY KeptFacts DEF Ran
  <1>3. /\ RecordOK(m.snap, who, sudoUser, confCopies'[who], scriptCopies'[sudoUser][who])
        /\ ExistedOK(m.snap, sudoUser, recorded') /\ m.steps = recorded'
        /\ ConfigStep \notin recorded' => m.snap.confBackup = {}
        /\ ScriptStep \notin recorded' => m.snap.scriptBackup = {}
        /\ m.args = sudoUser
    BY <1>1, ManifestOK
  <1>. HIDE DEF m
  <1>4. ManifestsOK'
    BY <1>1, <1>3, WrittenOK
  <1>5. MemoryOK'
    <2>1. RecordOK(snap, who, sudoUser, confCopies[who], scriptCopies[sudoUser][who])'
      BY <1>1 DEF RecordOK
    <2>2. ExistedOK(snap, sudoUser, Spoken)'
      BY <1>1 DEF ExistedOK, Spoken
    <2>3. man'[who'].args = sudoUser'
      BY <1>1, <1>3
    <2>4. QED  BY <2>1, <2>2, <2>3 DEF MemoryOK
  <1>6. ScriptStep \notin recorded' => snap'.scriptBackup = {}
    BY <1>1 DEF KeptInv, Unrecorded
  <1>7. Unrecorded'
    BY <1>1, <1>3, <1>6 DEF KeptInv, Unrecorded
  <1>8. QED  BY <1>1, <1>4, <1>5, <1>7 DEF RunOK

\* A run that fails: its step is undone first, by what its snapshot then says.
LEMMA FailedKeeps ==
    ASSUME KeptInv, pc = "run", Failed, UNCHANGED found, cutShort \subseteq cutShort',
           RecordOK(snap', who, sudoUser, confCopies'[who], scriptCopies'[sudoUser][who]),
           ExistedOK(snap', sudoUser, recorded \cup {idx}),
           \A i \in Instance :
             RecordOK(man[i].snap, i, man[i].args, confCopies'[i], scriptCopies'[man[i].args][i])
    PROVE  ManifestsOK' /\ MemoryOK' /\ Unrecorded' /\ RunOK'
  <1>1. pc' = "undo" /\ UNCHANGED <<man, who, idx, recorded, sudoUser>>
    BY DEF Failed
  <1>2. ManifestsOK'
    BY <1>1, KeptFacts DEF ManifestsOK, RecordOK, ExistedOK
  <1>3. MemoryOK'
    BY <1>1, KeptFacts DEF MemoryOK, RecordOK, ExistedOK, Spoken
  <1>4. QED  BY <1>1, <1>2, <1>3 DEF KeptInv, Unrecorded, RunOK

\* What is on disk after a run, however far it got, and what its snapshot says.
EffectOK(far) ==
    /\ AllKept' /\ UNCHANGED found /\ cutShort \subseteq cutShort'
    /\ \A i \in Instance :
          RecordOK(man[i].snap, i, man[i].args, confCopies'[i], scriptCopies'[man[i].args][i])
    /\ RecordOK(Claims(far), who, sudoUser, confCopies'[who], scriptCopies'[sudoUser][who])
    /\ ExistedOK(Claims(far), sudoUser, recorded \cup {idx})
    /\ idx # ScriptStep => Claims(far).scriptBackup = snap.scriptBackup

\* The file that is set aside is there (FileThere).
LEMMA ConfigKeeps ==
    ASSUME KeptInv, pc = "run", NEW far \in 0 .. 3, idx = ConfigStep, ConfigEffect(far)
    PROVE  EffectOK(far)
  <1>1. /\ conf \in [Instance -> Whose] /\ confCopies \in [Instance -> Copies] /\ who \in Instance
        /\ snap \in Snapshots
        /\ RecordOK(snap, who, sudoUser, confCopies[who], scriptCopies[sudoUser][who])
        /\ ExistedOK(snap, sudoUser, recorded)
        /\ \A i \in Instance :
             RecordOK(man[i].snap, i, man[i].args, confCopies[i], scriptCopies[man[i].args][i])
        /\ man[who].snap.confBackup = {}
        /\ snap.conf # "Preexisting" => found.conf[who] # "theirs"
    BY KeptFacts, StepTypes DEF KeptInv, Unrecorded, RunOK, TypeInv, WorldType
  <1>2. Claims(far) = ConfigClaims(far)
    BY DEF Claims
  <1>3. UNCHANGED <<script, scriptCopies, link, dirs, bashrc, found, cutShort>>
    BY DEF ConfigEffect, helper, shell
  <1>4. ScriptsKept' /\ LinksKept' /\ DirsKept' /\ BashrcKept'
    BY <1>3 DEF KeptInv, AllKept, ScriptsKept, LinksKept, DirsKept, BashrcKept, FileKept
  <1>5. /\ ConfigClaims(far).script = snap.script /\ ConfigClaims(far).scriptBackup = snap.scriptBackup
        /\ ConfigClaims(far).link = snap.link /\ ConfigClaims(far).existed = snap.existed
        /\ ConfigClaims(far).line = snap.line /\ ConfigClaims(far).backup = snap.backup
        /\ ConfigClaims(far).bashrcExisted = snap.bashrcExisted
        /\ ConfigClaims(far).conf = snap.conf \/ found.conf[who] # "theirs"
    BY <1>1 DEF ConfigClaims, Snapshots, MadeIf, Made
  <1>6. ExistedOK(ConfigClaims(far), sudoUser, recorded \cup {idx})
    BY <1>1, <1>5 DEF ExistedOK
  <1>7. CASE far >= 1 /\ snap.conf = "Preexisting"
    <2>1. confCopies' = [confCopies EXCEPT ![who] = @ \cup {conf[who]}]
      BY <1>7 DEF ConfigEffect
    <2>2. \A i \in Instance \ {who} : conf'[i] = conf[i] /\ confCopies'[i] = confCopies[i]
      BY <1>1, <2>1 DEF ConfigEffect
    <2>3. confCopies'[who] = confCopies[who] \cup {conf[who]} /\ conf'[who] \in {conf[who], "ours"}
      BY <1>1, <2>1 DEF ConfigEffect
    <2>4. ConfKept'
      <3>1. found.conf[who] = "theirs" => FileKept(conf'[who], confCopies'[who])
        BY <1>1, <2>3 DEF KeptInv, AllKept, ConfKept, FileKept
      <3>2. QED  BY <1>3, <2>2, <3>1 DEF KeptInv, AllKept, ConfKept, FileKept
    <2>5. \A i \in Instance :
            RecordOK(man[i].snap, i, man[i].args, confCopies'[i], scriptCopies'[man[i].args][i])
      BY <1>1, <1>3, <2>2, <2>3 DEF RecordOK
    <2>6. ConfigClaims(far).confBackup = {conf[who]}
      BY <1>1, <1>7 DEF ConfigClaims, Snapshots
    <2>7. found.conf[who] = "theirs" /\ conf[who] = "theirs" => "ours" \notin confCopies'[who]
      BY <1>1, <2>3 DEF KeptInv, AllKept, ConfKept, FileKept
    <2>8. RecordOK(ConfigClaims(far), who, sudoUser, confCopies'[who], scriptCopies'[sudoUser][who])
      BY <1>1, <1>3, <1>5, <2>6, <2>7 DEF RecordOK
    <2>9. QED  BY <1>2, <1>3, <1>4, <1>5, <1>6, <2>4, <2>5, <2>8 DEF EffectOK, AllKept
  <1>8. CASE ~(far >= 1 /\ snap.conf = "Preexisting")
    <2>1. confCopies' = confCopies
      BY <1>8 DEF ConfigEffect
    <2>2. \A i \in Instance : conf'[i] = conf[i] \/ found.conf[i] # "theirs"
      BY <1>1, <1>8 DEF ConfigEffect
    <2>3. ConfKept'
      BY <1>3, <2>1, <2>2 DEF KeptInv, AllKept, ConfKept, FileKept
    <2>4. ConfigClaims(far).confBackup = snap.confBackup
      BY <1>1, <1>8 DEF ConfigClaims, Snapshots
    <2>5. RecordOK(ConfigClaims(far), who, sudoUser, confCopies'[who], scriptCopies'[sudoUser][who])
      BY <1>1, <1>3, <1>5, <2>1, <2>4 DEF RecordOK
    <2>6. \A i \in Instance :
            RecordOK(man[i].snap, i, man[i].args, confCopies'[i], scriptCopies'[man[i].args][i])
      BY <1>1, <1>3, <2>1
    <2>7. QED  BY <1>2, <1>3, <1>4, <1>5, <1>6, <2>3, <2>5, <2>6 DEF EffectOK, AllKept
  <1>9. QED  BY <1>7, <1>8


LEMMA UnitKeeps ==
    ASSUME KeptInv, pc = "run", NEW far \in 0 .. 3, idx = UnitStep, UnitEffect(far)
    PROVE  EffectOK(far)
  <1>1. /\ snap \in Snapshots
        /\ RecordOK(snap, who, sudoUser, confCopies[who], scriptCopies[sudoUser][who])
        /\ ExistedOK(snap, sudoUser, recorded)
        /\ \A i \in Instance :
             RecordOK(man[i].snap, i, man[i].args, confCopies[i], scriptCopies[man[i].args][i])
    BY KeptFacts
  <1>2. Claims(far) = UnitClaims(far)
    BY DEF Claims
  <1>3. UNCHANGED <<conf, confCopies, script, scriptCopies, link, dirs, bashrc, found, cutShort>>
    BY DEF UnitEffect, config, helper, shell
  <1>4. AllKept'
    BY <1>3 DEF KeptInv, AllKept, ConfKept, ScriptsKept, LinksKept, DirsKept, BashrcKept, FileKept
  <1>5. /\ UnitClaims(far).conf = snap.conf /\ UnitClaims(far).confBackup = snap.confBackup
        /\ UnitClaims(far).script = snap.script /\ UnitClaims(far).scriptBackup = snap.scriptBackup
        /\ UnitClaims(far).link = snap.link /\ UnitClaims(far).existed = snap.existed
        /\ UnitClaims(far).line = snap.line /\ UnitClaims(far).backup = snap.backup
        /\ UnitClaims(far).bashrcExisted = snap.bashrcExisted
    BY <1>1 DEF UnitClaims, Snapshots
  <1>6. /\ RecordOK(UnitClaims(far), who, sudoUser, confCopies[who], scriptCopies[sudoUser][who])
        /\ ExistedOK(UnitClaims(far), sudoUser, recorded \cup {idx})
    BY <1>1, <1>5 DEF RecordOK, ExistedOK
  <1>7. QED  BY <1>1, <1>2, <1>3, <1>4, <1>5, <1>6 DEF EffectOK

LEMMA ScriptKeeps ==
    ASSUME KeptInv, pc = "run", NEW far \in 0 .. 3, idx = ScriptStep, ScriptEffect(far)
    PROVE  EffectOK(far)
  <1>1. /\ script \in [Admin -> [Instance -> Whose]] /\ link \in [Admin -> [Instance -> Whose]]
        /\ scriptCopies \in [Admin -> [Instance -> Copies]] /\ dirs \in [Admin -> [Dir -> Whose]]
        /\ who \in Instance /\ sudoUser \in Admin /\ snap \in Snapshots
    BY KeptFacts, StepTypes DEF KeptInv, TypeInv, WorldType
  <1>2. /\ RecordOK(snap, who, sudoUser, confCopies[who], scriptCopies[sudoUser][who])
        /\ ExistedOK(snap, sudoUser, recorded \cup {idx})
        /\ \A i \in Instance :
             /\ RecordOK(man[i].snap, i, man[i].args, confCopies[i], scriptCopies[man[i].args][i])
             /\ man[i].args \in Admin
        /\ man[who].snap.scriptBackup = {} /\ snap.scriptBackup = {}
        /\ snap.script # "Preexisting" => found.script[sudoUser][who] # "theirs"
        /\ snap.link # "Preexisting" => found.link[sudoUser][who] # "theirs"
    BY KeptFacts DEF KeptInv, Unrecorded, RunOK, MemoryOK, Spoken
  <1>3. Claims(far) = ScriptClaims(far)
    BY DEF Claims
  <1>4. UNCHANGED <<conf, confCopies, bashrc, found, cutShort>>
    BY DEF ScriptEffect, config, shell
  <1>5. ConfKept' /\ BashrcKept'
    BY <1>4 DEF KeptInv, AllKept, ConfKept, BashrcKept, FileKept
  <1>6. LinksKept'
    <2>1. link' = link \/ (found.link[sudoUser][who] # "theirs"
                             /\ link' = [link EXCEPT ![sudoUser][who] = "ours"])
      BY <1>2 DEF ScriptEffect
    <2>2. \A u \in Admin : \A i \in Instance : link'[u][i] = link[u][i] \/ found.link[u][i] # "theirs"
      <3> TAKE u \in Admin
      <3> TAKE i \in Instance
      <3>1. CASE link' = link
        BY <3>1
      <3>2. CASE /\ found.link[sudoUser][who] # "theirs"
                 /\ link' = [link EXCEPT ![sudoUser][who] = "ours"]
        <4>1. CASE u = sudoUser /\ i = who
          BY <3>2, <4>1
        <4>2. CASE u # sudoUser \/ i # who
          BY <1>1, <3>2, <4>2
        <4>3. QED  BY <4>1, <4>2
      <3>3. QED  BY <2>1, <3>1, <3>2
    <2>3. QED  BY <1>4, <2>2 DEF KeptInv, AllKept, LinksKept
  <1>7. DirsKept'
    <2>1. \A u \in Admin : \A d \in Dir : dirs[u][d] = "theirs" => dirs'[u][d] = "theirs"
      BY <1>1 DEF ScriptEffect
    <2>2. QED  BY <1>4, <2>1 DEF KeptInv, AllKept, DirsKept
  <1>8. /\ ScriptClaims(far).conf = snap.conf /\ ScriptClaims(far).confBackup = snap.confBackup
        /\ ScriptClaims(far).existed = snap.existed
        /\ ScriptClaims(far).line = snap.line /\ ScriptClaims(far).backup = snap.backup
        /\ ScriptClaims(far).bashrcExisted = snap.bashrcExisted
        /\ ScriptClaims(far).script = snap.script \/ found.script[sudoUser][who] # "theirs"
        /\ ScriptClaims(far).link = snap.link \/ found.link[sudoUser][who] # "theirs"
    BY <1>1, <1>2 DEF ScriptClaims, Snapshots, MadeIf, Made
  <1>9. ExistedOK(ScriptClaims(far), sudoUser, recorded \cup {idx})
    BY <1>2, <1>8 DEF ExistedOK
  <1>10. CASE far >= 1 /\ snap.script = "Preexisting"
    <2>1. scriptCopies' = [scriptCopies EXCEPT ![sudoUser][who] = @ \cup {script[sudoUser][who]}]
      BY <1>2, <1>10 DEF ScriptEffect, ScriptSetAside
    <2>2. \A u \in Admin : \A i \in Instance :
            u # sudoUser \/ i # who =>
              script'[u][i] = script[u][i] /\ scriptCopies'[u][i] = scriptCopies[u][i]
      BY <1>1, <2>1 DEF ScriptEffect
    <2>3. /\ scriptCopies'[sudoUser][who] = scriptCopies[sudoUser][who] \cup {script[sudoUser][who]}
          /\ script'[sudoUser][who] \in {script[sudoUser][who], "ours"}
      BY <1>1, <2>1 DEF ScriptEffect
    <2>4. ScriptsKept'
      <3>1. found.script[sudoUser][who] = "theirs" =>
              FileKept(script'[sudoUser][who], scriptCopies'[sudoUser][who])
        BY <1>1, <2>3 DEF KeptInv, AllKept, ScriptsKept, FileKept
      <3>2. QED  BY <1>4, <2>2, <3>1 DEF KeptInv, AllKept, ScriptsKept, FileKept
    <2>5. \A i \in Instance :
            RecordOK(man[i].snap, i, man[i].args, confCopies'[i], scriptCopies'[man[i].args][i])
      <3> TAKE i \in Instance
      <3>1. CASE man[i].args # sudoUser \/ i # who
        <4>1. scriptCopies'[man[i].args][i] = scriptCopies[man[i].args][i] /\ confCopies'[i] = confCopies[i]
          BY <1>1, <1>2, <1>4, <2>2, <3>1
        <4>2. QED  BY <1>2, <4>1 DEF RecordOK
      <3>2. CASE man[i].args = sudoUser /\ i = who
        BY <1>1, <1>2, <1>4, <2>3, <3>2 DEF RecordOK
      <3>3. QED  BY <3>1, <3>2
    <2>6. ScriptClaims(far).scriptBackup = {script[sudoUser][who]}
      BY <1>1, <1>2, <1>10 DEF ScriptClaims, ScriptSetAside, Snapshots
    <2>7. found.script[sudoUser][who] = "theirs" /\ script[sudoUser][who] = "theirs" =>
            "ours" \notin scriptCopies'[sudoUser][who]
      BY <1>1, <2>3 DEF KeptInv, AllKept, ScriptsKept, FileKept
    <2>8. RecordOK(ScriptClaims(far), who, sudoUser, confCopies'[who], scriptCopies'[sudoUser][who])
      BY <1>2, <1>4, <1>8, <2>6, <2>7 DEF RecordOK
    <2>9. QED  BY <1>3, <1>4, <1>5, <1>6, <1>7, <1>9, <2>4, <2>5, <2>8 DEF EffectOK, AllKept
  <1>11. CASE ~(far >= 1 /\ snap.script = "Preexisting")
    <2>1. scriptCopies' = scriptCopies
      BY <1>11 DEF ScriptEffect, ScriptSetAside
    <2>2. \A u \in Admin : \A i \in Instance : script'[u][i] = script[u][i] \/ found.script[u][i] # "theirs"
      BY <1>1, <1>2, <1>11 DEF ScriptEffect
    <2>3. ScriptsKept'
      BY <1>4, <2>1, <2>2 DEF KeptInv, AllKept, ScriptsKept, FileKept
    <2>4. ScriptClaims(far).scriptBackup = {}
      BY <1>1, <1>2, <1>11 DEF ScriptClaims, ScriptSetAside, Snapshots
    <2>5. RecordOK(ScriptClaims(far), who, sudoUser, confCopies'[who], scriptCopies'[sudoUser][who])
      BY <1>2, <1>4, <1>8, <2>4 DEF RecordOK
    <2>6. \A i \in Instance :
            RecordOK(man[i].snap, i, man[i].args, confCopies'[i], scriptCopies'[man[i].args][i])
      BY <1>2, <1>4, <2>1
    <2>7. QED  BY <1>3, <1>4, <1>5, <1>6, <1>7, <1>9, <2>3, <2>5, <2>6 DEF EffectOK, AllKept
  <1>12. QED  BY <1>10, <1>11

LEMMA BashrcKeeps ==
    ASSUME KeptInv, pc = "run", NEW far \in 0 .. 3, idx = BashrcStep, BashrcEffect(far)
    PROVE  EffectOK(far)
  <1>1. /\ bashrc \in [Admin -> Bashrc] /\ sudoUser \in Admin /\ snap \in Snapshots
    BY KeptFacts, StepTypes DEF KeptInv, TypeInv, WorldType
  <1>2. /\ RecordOK(snap, who, sudoUser, confCopies[who], scriptCopies[sudoUser][who])
        /\ ExistedOK(snap, sudoUser, recorded)
        /\ \A i \in Instance :
             RecordOK(man[i].snap, i, man[i].args, confCopies[i], scriptCopies[man[i].args][i])
        /\ snap.line = "Untracked" /\ sudoUser \notin cutShort =>
              /\ "path" \notin found.bashrc[sudoUser].lines
              /\ ~snap.bashrcExisted => found.bashrc[sudoUser].lines = {}
    BY KeptFacts DEF KeptInv, RunOK
  <1>3. Claims(far) = BashrcClaims(far)
    BY DEF Claims
  <1>4. UNCHANGED <<conf, confCopies, script, scriptCopies, link, dirs, found, cutShort>>
    BY DEF BashrcEffect, config, helper
  <1>5. ConfKept' /\ ScriptsKept' /\ LinksKept' /\ DirsKept'
    BY <1>4 DEF KeptInv, AllKept, ConfKept, ScriptsKept, LinksKept, DirsKept, FileKept
  <1>6. BashrcKept'
    <2>1. \/ bashrc' = bashrc
          \/ bashrc' = [bashrc EXCEPT ![sudoUser] = [there |-> TRUE, lines |-> @.lines \cup {"path"}]]
      BY DEF BashrcEffect
    <2>2. QED  BY <1>1, <1>4, <2>1 DEF KeptInv, AllKept, BashrcKept
  <1>7. /\ BashrcClaims(far).conf = snap.conf /\ BashrcClaims(far).confBackup = snap.confBackup
        /\ BashrcClaims(far).script = snap.script /\ BashrcClaims(far).scriptBackup = snap.scriptBackup
        /\ BashrcClaims(far).link = snap.link /\ BashrcClaims(far).existed = snap.existed
        /\ BashrcClaims(far).bashrcExisted = snap.bashrcExisted
        /\ BashrcClaims(far).line = snap.line \/ snap.line = "Untracked"
        /\ BashrcClaims(far).backup = snap.backup \/ BashrcClaims(far).backup = {bashrc[sudoUser].lines}
    BY <1>1 DEF BashrcClaims, Snapshots, MadeIf, Made, PreState
  <1>8. sudoUser \notin cutShort => found.bashrc[sudoUser].lines \subseteq bashrc[sudoUser].lines
    BY <1>1 DEF KeptInv, AllKept, BashrcKept
  <1>9. /\ RecordOK(BashrcClaims(far), who, sudoUser, confCopies[who], scriptCopies[sudoUser][who])
        /\ ExistedOK(BashrcClaims(far), sudoUser, recorded \cup {idx})
    BY <1>2, <1>7, <1>8 DEF RecordOK, ExistedOK
  <1>10. QED  BY <1>2, <1>3, <1>4, <1>5, <1>6, <1>7, <1>9 DEF EffectOK, AllKept

LEMMA EffectKeeps ==
    ASSUME KeptInv, pc = "run", NEW far \in 0 .. 3, Effect(far)
    PROVE  EffectOK(far)
  BY ConfigKeeps, UnitKeeps, ScriptKeeps, BashrcKeeps DEF Effect


-----------------------------------------------------------------------------
(* Every action keeps it.                                                  *)

Kept5 == AllKept /\ ManifestsOK /\ MemoryOK /\ Unrecorded /\ RunOK

\* A step that leaves the files alone.
LEMMA FilesUnchanged ==
    ASSUME KeptInv, UNCHANGED <<config, helper, shell, found>>
    PROVE  AllKept' /\ CopiesGo /\ UNCHANGED <<found, cutShort, confCopies, scriptCopies>>
  BY DEF KeptInv, AllKept, ConfKept, ScriptsKept, LinksKept, DirsKept, BashrcKept, FileKept, CopiesGo,
         config, helper, shell

\* An installation is resumed by the administrator who began it.
LEMMA BeginsKeep ==
    ASSUME KeptInv, AnyResumes = FALSE, NEW i \in Instance, Install(i) \/ Rollback(i)
    PROVE  Kept5'
  <1>1. PICK u \in Admin : /\ Begin(i, u) \/ BeginRollback(i, u)
                           /\ man[i].steps = {} \/ u = man[i].args
    BY KeptFacts DEF Install, Rollback
  <1>2. /\ UNCHANGED <<world, man>> /\ who' = i /\ sudoUser' = u
        /\ snap' = man[i].snap /\ recorded' = man[i].steps /\ pc' # "run"
    BY <1>1 DEF Begin, BeginRollback, Take
  <1>3. AllKept' /\ UNCHANGED <<found, cutShort, confCopies, scriptCopies>>
    BY <1>2, FilesUnchanged DEF world
  <1>4. ManifestsOK'
    BY <1>2, <1>3, KeptFacts DEF ManifestsOK, RecordOK, ExistedOK
  <1>5. Spoken' = man[i].steps
    <2>1. CASE Begin(i, u)
      BY <1>2, <2>1 DEF Begin, Spoken
    <2>2. CASE BeginRollback(i, u)
      <3>1. man[i].steps \in SUBSET Steps /\ man[i].steps # {} /\ idx' = Max(man[i].steps)
        BY <2>2, KeptFacts DEF BeginRollback
      <3>2. idx' \in man[i].steps
        BY <3>1, MaxIs
      <3>3. QED  BY <1>2, <3>2 DEF Spoken
    <2>3. QED  BY <1>1, <2>1, <2>2
  <1>6. /\ RecordOK(man[i].snap, i, u, confCopies[i], scriptCopies[u][i])
        /\ ExistedOK(man[i].snap, u, man[i].steps)
    <2>1. CASE man[i].steps = {}
      <3>1. man[i].snap = Default
        BY <2>1 DEF KeptInv, Unrecorded
      <3>2. QED  BY <2>1, <3>1, DefaultOK
    <2>2. CASE u = man[i].args
      BY <2>2, KeptFacts
    <2>3. QED  BY <1>1, <2>1, <2>2
  <1>7. MemoryOK'
    BY <1>1, <1>2, <1>3, <1>5, <1>6 DEF MemoryOK, RecordOK, ExistedOK
  <1>8. Unrecorded'
    BY <1>2 DEF KeptInv, Unrecorded
  <1>9. QED  BY <1>2, <1>3, <1>4, <1>7, <1>8 DEF Kept5, RunOK

LEMMA EnginesKeep ==
    ASSUME KeptInv, Stops \/ Skip \/ Finish
    PROVE  Kept5'
  <1>1. UNCHANGED world
    BY DEF Stops, Skip, Finish
  <1>2. AllKept' /\ CopiesGo /\ UNCHANGED <<found, cutShort, confCopies, scriptCopies>>
    BY <1>1, FilesUnchanged DEF world
  <1>3. CASE Stops
    <2>1. UndoBelow(idx, recorded) /\ pc # "idle" /\ recorded \in SUBSET recorded
      BY <1>3 DEF Stops
    <2>2. ManifestsOK' /\ MemoryOK' /\ Unrecorded' /\ RunOK'
      BY <1>2, <2>1, UndoBelowKeeps
    <2>3. QED  BY <1>2, <2>2 DEF Kept5
  <1>4. CASE Skip
    <2>1. UNCHANGED <<man, pc, who, snap, recorded, sudoUser>> /\ pc = "snapshot"
      BY <1>4 DEF Skip
    <2>2. ManifestsOK' /\ MemoryOK'
      BY <1>2, <2>1, KeptFacts DEF ManifestsOK, MemoryOK, RecordOK, ExistedOK, Spoken
    <2>3. QED  BY <1>2, <2>1, <2>2 DEF Kept5, KeptInv, Unrecorded, RunOK
  <1>5. CASE Finish
    <2>1. /\ pc' = "idle"
          /\ \A i \in Instance : /\ man'[i].steps = man[i].steps /\ man'[i].snap = man[i].snap
                                 /\ man'[i].args = man[i].args
      BY <1>5, KeptFacts DEF Finish, Finished, Exit, Manifests
    <2>2. ManifestsOK'
      <3> SUFFICES ASSUME NEW i \in Instance
                   PROVE  /\ RecordOK(man[i].snap, i, man[i].args, confCopies[i], scriptCopies[man[i].args][i])'
                          /\ ExistedOK(man[i].snap, man[i].args, man[i].steps)'
        BY DEF ManifestsOK
      <3>1. /\ RecordOK(man[i].snap, i, man[i].args, confCopies[i], scriptCopies[man[i].args][i])
            /\ ExistedOK(man[i].snap, man[i].args, man[i].steps)
        BY KeptFacts
      <3>2. /\ man'[i].steps = man[i].steps /\ man'[i].snap = man[i].snap
            /\ man'[i].args = man[i].args
        BY <2>1
      <3>3. RecordOK(man'[i].snap, i, man'[i].args, confCopies[i], scriptCopies[man'[i].args][i])
        BY <3>1, <3>2
      <3>4. ExistedOK(man'[i].snap, man'[i].args, man'[i].steps)
        BY <3>1, <3>2
      <3>5. QED  BY <1>2, <3>3, <3>4 DEF RecordOK, ExistedOK
    <2>3. QED  BY <1>2, <2>1, <2>2 DEF Kept5, KeptInv, MemoryOK, Unrecorded, RunOK
  <1>6. QED  BY <1>3, <1>4, <1>5

\* Before a run: what the snapshot says is so.
LEMMA SnapshotsKeep ==
    ASSUME KeptInv, SnapshotConfig \/ SnapshotUnit \/ SnapshotScript \/ SnapshotBashrc
    PROVE  Kept5'
  <1>1. /\ pc = "snapshot" /\ idx \notin recorded /\ pc' = "run"
        /\ UNCHANGED <<world, who, idx, recorded, man, sudoUser>>
    BY DEF SnapshotConfig, SnapshotUnit, SnapshotScript, SnapshotBashrc, At, Snapshotted
  <1>2. AllKept' /\ UNCHANGED <<found, cutShort, confCopies, scriptCopies>>
    BY <1>1, FilesUnchanged DEF world
  <1>3. /\ snap \in Snapshots /\ who \in Instance /\ sudoUser \in Admin
        /\ RecordOK(snap, who, sudoUser, confCopies[who], scriptCopies[sudoUser][who])
        /\ ExistedOK(snap, sudoUser, recorded)
        /\ recorded = man[who].steps /\ (ScriptStep \notin recorded => snap.scriptBackup = {})
    BY <1>1, KeptFacts DEF KeptInv, Unrecorded
  <1>4. /\ found.conf[who] = "theirs" => conf[who] # "absent"
        /\ found.script[sudoUser][who] = "theirs" => script[sudoUser][who] # "absent"
        /\ found.link[sudoUser][who] = "theirs" => link[sudoUser][who] # "absent"
        /\ \A d \in Dir : found.dirs[sudoUser][d] = "theirs" => d \in Existing(sudoUser)
        /\ sudoUser \notin cutShort =>
              /\ found.bashrc[sudoUser].lines \subseteq bashrc[sudoUser].lines
              /\ ~bashrc[sudoUser].there => found.bashrc[sudoUser].lines = {}
    BY <1>3 DEF KeptInv, AllKept, ConfKept, ScriptsKept, LinksKept, DirsKept, BashrcKept, FileKept,
                Existing
  <1>5. /\ snap'.confBackup = snap.confBackup /\ snap'.scriptBackup = snap.scriptBackup
        /\ snap'.backup = snap.backup
        /\ snap'.conf = snap.conf \/ snap'.conf = Verdict(conf[who] # "absent")
        /\ snap'.script = snap.script \/ snap'.script = Verdict(script[sudoUser][who] # "absent")
        /\ snap'.link = snap.link \/ snap'.link = Verdict(link[sudoUser][who] # "absent")
        /\ \/ snap'.line = Verdict("path" \in bashrc[sudoUser].lines)
           \/ snap'.line = snap.line /\ snap'.bashrcExisted = snap.bashrcExisted
        /\ idx = ConfigStep => snap'.conf = Verdict(conf[who] # "absent")
        /\ idx = ScriptStep =>
              /\ snap'.script = Verdict(script[sudoUser][who] # "absent")
              /\ snap'.link = Verdict(link[sudoUser][who] # "absent")
              /\ snap'.existed = Existing(sudoUser)
        /\ idx # ScriptStep => snap'.existed = snap.existed
        /\ idx = BashrcStep =>
              /\ snap'.line = Verdict("path" \in bashrc[sudoUser].lines)
              /\ snap'.bashrcExisted = bashrc[sudoUser].there
    <2>1. CASE SnapshotConfig
      BY <1>3, <2>1 DEF SnapshotConfig, At, Snapshotted, Snapshots
    <2>2. CASE SnapshotUnit
      BY <1>3, <2>2 DEF SnapshotUnit, At, Snapshotted, Snapshots
    <2>3. CASE SnapshotScript
      BY <1>3, <2>3 DEF SnapshotScript, At, Snapshotted, Snapshots
    <2>4. CASE SnapshotBashrc
      BY <1>3, <2>4 DEF SnapshotBashrc, At, Snapshotted, Snapshots
    <2>5. QED  BY <2>1, <2>2, <2>3, <2>4
  <1>6. \A b : Verdict(b) # "CreatedByUs" /\ (Verdict(b) # "Preexisting" => ~b)
    BY DEF Verdict
  <1>7. RecordOK(snap', who, sudoUser, confCopies[who], scriptCopies[sudoUser][who])
    BY <1>3, <1>5, <1>6 DEF RecordOK
  <1>8. ExistedOK(snap', sudoUser, recorded \cup {idx})
    BY <1>3, <1>4, <1>5 DEF ExistedOK
  <1>9. ManifestsOK'
    BY <1>1, <1>2, KeptFacts DEF ManifestsOK, RecordOK, ExistedOK
  <1>10. MemoryOK'
    BY <1>1, <1>2, <1>7, <1>8, KeptFacts DEF MemoryOK, RecordOK, ExistedOK, Spoken
  <1>11. Unrecorded'
    BY <1>1, <1>3, <1>5 DEF KeptInv, Unrecorded
  <1>12. RunOK'
    <2>1. snap'.line = "Untracked" /\ idx = BashrcStep => "path" \notin bashrc[sudoUser].lines
      BY <1>5 DEF Verdict
    <2>2. idx = ConfigStep /\ snap'.conf # "Preexisting" => found.conf[who] # "theirs"
      BY <1>4, <1>5 DEF Verdict
    <2>3. idx = ScriptStep =>
            /\ snap'.script # "Preexisting" => found.script[sudoUser][who] # "theirs"
            /\ snap'.link # "Preexisting" => found.link[sudoUser][who] # "theirs"
      BY <1>4, <1>5 DEF Verdict
    <2>4. idx = BashrcStep /\ snap'.line = "Untracked" /\ sudoUser \notin cutShort =>
            /\ "path" \notin found.bashrc[sudoUser].lines
            /\ ~snap'.bashrcExisted => found.bashrc[sudoUser].lines = {}
      BY <1>4, <1>5, <2>1
    <2>5. QED  BY <1>1, <1>2, <2>2, <2>3, <2>4 DEF RunOK
  <1>13. QED  BY <1>2, <1>9, <1>10, <1>11, <1>12 DEF Kept5

LEMMA RunsKeep ==
    ASSUME KeptInv, RunStep \/ RunFails  PROVE Kept5'
  <1>1. pc = "run" /\ UNCHANGED sudoUser
    BY DEF RunStep, RunFails, Ran, Failed
  <1>2. PICK far \in 0 .. 3 : Effect(far) /\ snap' = Claims(far)
    <2>1. 3 \in 0 .. 3
      OBVIOUS
    <2>2. QED  BY <2>1 DEF RunStep, RunFails
  <1>3. EffectOK(far)
    BY <1>1, <1>2, EffectKeeps
  <1>4. snap' \in Snapshots
    BY <1>1, <1>2, ClaimsType DEF KeptInv
  <1>5. /\ AllKept' /\ UNCHANGED found /\ cutShort \subseteq cutShort'
        /\ RecordOK(snap', who, sudoUser, confCopies'[who], scriptCopies'[sudoUser][who])
        /\ ExistedOK(snap', sudoUser, recorded \cup {idx})
        /\ \A i \in Instance :
             RecordOK(man[i].snap, i, man[i].args, confCopies'[i], scriptCopies'[man[i].args][i])
        /\ idx # ScriptStep => snap'.scriptBackup = snap.scriptBackup
    BY <1>2, <1>3 DEF EffectOK
  <1>6. ManifestsOK' /\ MemoryOK' /\ Unrecorded' /\ RunOK'
    BY <1>1, <1>4, <1>5, RanKeeps, FailedKeeps DEF RunStep, RunFails
  <1>7. QED  BY <1>5, <1>6 DEF Kept5



-----------------------------------------------------------------------------
(* The undos.                                                              *)

\* An undo that leaves what is theirs takes its step from the records.
LEMMA UndoneKeeps ==
    ASSUME KeptInv, pc = "undo", Undone, UNCHANGED found, cutShort \subseteq cutShort', CopiesGo, AllKept'
    PROVE  Kept5'
  <1>1. PICK K \in SUBSET recorded : UndoBelow(idx, K)
    <2>1. recorded \ {idx} \in SUBSET recorded /\ recorded \in SUBSET recorded
      OBVIOUS
    <2>2. QED  BY <2>1 DEF Undone
  <1>2. QED  BY <1>1, UndoBelowKeeps DEF Kept5

\* What the undo of a file leaves when the recorded copy is moved back.
LEMMA MovedBack ==
    ASSUME NEW file, NEW saved \in Copies, NEW backup \in Copies,
           FileKept(file, saved), "theirs" \in backup => "ours" \notin saved,
           NEW c \in backup \cap saved
    PROVE  FileKept(c, saved \ {c})
  BY DEF FileKept, Copies

LEMMA UndoConfigKeeps ==
    ASSUME KeptInv, UndoConfig  PROVE Kept5'
  <1>1. /\ conf \in [Instance -> Whose] /\ confCopies \in [Instance -> Copies] /\ who \in Instance
        /\ snap \in Snapshots /\ pc = "undo"
        /\ RecordOK(snap, who, sudoUser, confCopies[who], scriptCopies[sudoUser][who])
    BY KeptFacts, StepTypes DEF KeptInv, TypeInv, WorldType, UndoConfig, Undoing
  <1>2. UNCHANGED <<script, scriptCopies, link, dirs, bashrc, found, cutShort>>
    BY DEF UndoConfig, helper, shell
  <1>3. ScriptsKept' /\ LinksKept' /\ DirsKept' /\ BashrcKept'
    BY <1>2 DEF KeptInv, AllKept, ScriptsKept, LinksKept, DirsKept, BashrcKept, FileKept
  <1>4. \/ snap.conf = "CreatedByUs" /\ conf' = [conf EXCEPT ![who] = "absent"] /\ UNCHANGED confCopies
        \/ \E c \in snap.confBackup \cap confCopies[who] :
              /\ conf' = [conf EXCEPT ![who] = c]
              /\ confCopies' = [confCopies EXCEPT ![who] = @ \ {c}]
        \/ UNCHANGED <<conf, confCopies>>
    BY DEF UndoConfig, config
  <1>5. /\ \A i \in Instance \ {who} : conf'[i] = conf[i] /\ confCopies'[i] = confCopies[i]
        /\ confCopies'[who] \in SUBSET confCopies[who]
        /\ found.conf[who] = "theirs" => FileKept(conf'[who], confCopies'[who])
    <2>1. found.conf[who] = "theirs" => FileKept(conf[who], confCopies[who])
      BY <1>1 DEF KeptInv, AllKept, ConfKept
    <2>2. CASE snap.conf = "CreatedByUs" /\ conf' = [conf EXCEPT ![who] = "absent"] /\ UNCHANGED confCopies
      BY <1>1, <2>2 DEF RecordOK
    <2>3. CASE \E c \in snap.confBackup \cap confCopies[who] :
                  /\ conf' = [conf EXCEPT ![who] = c]
                  /\ confCopies' = [confCopies EXCEPT ![who] = @ \ {c}]
      <3>1. PICK c \in snap.confBackup \cap confCopies[who] :
                  /\ conf' = [conf EXCEPT ![who] = c]
                  /\ confCopies' = [confCopies EXCEPT ![who] = @ \ {c}]
        BY <2>3
      <3>2. conf'[who] = c /\ confCopies'[who] = confCopies[who] \ {c}
        BY <1>1, <3>1
      <3>3. snap.confBackup \in Copies /\ confCopies[who] \in Copies
        BY <1>1 DEF Snapshots
      <3>4. found.conf[who] = "theirs" => FileKept(c, confCopies[who] \ {c})
        BY <1>1, <2>1, <3>3, MovedBack DEF RecordOK
      <3>5. \A i \in Instance \ {who} : conf'[i] = conf[i] /\ confCopies'[i] = confCopies[i]
        BY <1>1, <3>1
      <3>6. QED  BY <3>2, <3>4, <3>5
    <2>4. CASE UNCHANGED <<conf, confCopies>>
      BY <2>1, <2>4
    <2>5. QED  BY <1>4, <2>2, <2>3, <2>4
  <1>6. ConfKept'
    BY <1>2, <1>5 DEF KeptInv, AllKept, ConfKept, FileKept
  <1>7. CopiesGo
    BY <1>2, <1>5 DEF CopiesGo
  <1>8. Undone
    BY DEF UndoConfig
  <1>9. QED  BY <1>1, <1>2, <1>3, <1>6, <1>7, <1>8, UndoneKeeps DEF AllKept

LEMMA UndoUnitKeeps ==
    ASSUME KeptInv, UndoUnit  PROVE Kept5'
  <1>1. pc = "undo" /\ Undone /\ UNCHANGED <<config, helper, shell, found>>
    BY DEF UndoUnit, Undoing
  <1>2. QED  BY <1>1, FilesUnchanged, UndoneKeeps

\* What an undo leaves of the script and of its copies.
LEMMA LeftKept ==
    ASSUME KeptInv, pc = "undo", NEW done, found.script[sudoUser][who] = "theirs"
    PROVE  FileKept(Left(done), scriptCopies[sudoUser][who] \ Restored(done))
  <1> DEFINE saved == scriptCopies[sudoUser][who]
  <1>1. /\ saved \in Copies /\ snap.scriptBackup \in Copies
        /\ snap.script # "CreatedByUs" /\ ("theirs" \in snap.scriptBackup => "ours" \notin saved)
    BY KeptFacts, StepTypes DEF KeptInv, TypeInv, WorldType, Snapshots, RecordOK
  <1>2. FileKept(script[sudoUser][who], saved)
    BY KeptFacts DEF KeptInv, AllKept, ScriptsKept
  <1>3. CASE Restored(done) = {}
    <2>1. Left(done) = script[sudoUser][who]
      BY <1>1, <1>3 DEF Left
    <2>2. saved \ Restored(done) = saved
      BY <1>3
    <2>3. QED  BY <1>2, <2>1, <2>2
  <1>4. CASE Restored(done) # {}
    <2>1. Restored(done) = snap.scriptBackup \cap saved
      BY <1>4 DEF Restored
    <2>2. Left(done) \in Restored(done)
      BY <1>1, <1>4 DEF Left
    <2>3. Restored(done) = {Left(done)}
      BY <1>1, <2>1, <2>2 DEF Copies
    <2>4. FileKept(Left(done), saved \ {Left(done)})
      BY <1>1, <1>2, <2>1, <2>2, MovedBack
    <2>5. QED  BY <2>3, <2>4
  <1>5. QED  BY <1>3, <1>4

LEMMA UndoScriptKeeps ==
    ASSUME KeptInv, UndoScript  PROVE Kept5'
  <1>1. /\ script \in [Admin -> [Instance -> Whose]] /\ link \in [Admin -> [Instance -> Whose]]
        /\ scriptCopies \in [Admin -> [Instance -> Copies]] /\ dirs \in [Admin -> [Dir -> Whose]]
        /\ who \in Instance /\ sudoUser \in Admin /\ pc = "undo" /\ idx = ScriptStep
        /\ RecordOK(snap, who, sudoUser, confCopies[who], scriptCopies[sudoUser][who])
        /\ ExistedOK(snap, sudoUser, recorded \cup {idx})
    BY KeptFacts, StepTypes DEF KeptInv, TypeInv, WorldType, UndoScript, Undoing, MemoryOK, Spoken
  <1>2. UNCHANGED <<conf, confCopies, bashrc, found, cutShort>>
    BY DEF UndoScript, config, shell
  <1>3. ConfKept' /\ BashrcKept'
    BY <1>2 DEF KeptInv, AllKept, ConfKept, BashrcKept, FileKept
  <1>4. PICK done :
          LET emptied == {d \in Dir \cap done : MadeHere(d) /\ Empty(d, done)}
          IN  /\ link' = [link EXCEPT ![sudoUser][who] = Unlinked(done)]
              /\ script' = [script EXCEPT ![sudoUser][who] = Left(done)]
              /\ scriptCopies' = [scriptCopies EXCEPT ![sudoUser][who] = @ \ Restored(done)]
              /\ dirs' = [dirs EXCEPT ![sudoUser] =
                            [d \in Dir |-> IF d \in emptied THEN "absent" ELSE @[d]]]
    BY DEF UndoScript
  <1>5. LinksKept'
    <2>1. found.link[sudoUser][who] = "theirs" => Unlinked(done) = link[sudoUser][who]
      BY <1>1 DEF RecordOK, Unlinked
    <2>2. /\ link'[sudoUser][who] = Unlinked(done)
          /\ \A u \in Admin : \A i \in Instance : u # sudoUser \/ i # who => link'[u][i] = link[u][i]
      BY <1>1, <1>4
    <2>3. QED  BY <1>2, <2>1, <2>2 DEF KeptInv, AllKept, LinksKept
  <1>6. DirsKept'
    <2>1. \A d \in Dir : found.dirs[sudoUser][d] = "theirs" => ~MadeHere(d)
      BY <1>1 DEF ExistedOK, MadeHere
    <2>2. \A u \in Admin : \A d \in Dir :
            dirs'[u][d] = dirs[u][d] \/ (u = sudoUser /\ MadeHere(d))
      BY <1>1, <1>4
    <2>3. QED  BY <1>2, <2>1, <2>2 DEF KeptInv, AllKept, DirsKept
  <1>7. /\ script'[sudoUser][who] = Left(done)
        /\ scriptCopies'[sudoUser][who] = scriptCopies[sudoUser][who] \ Restored(done)
    BY <1>1, <1>4
  <1>8. \A u \in Admin : \A i \in Instance :
          u # sudoUser \/ i # who =>
            script'[u][i] = script[u][i] /\ scriptCopies'[u][i] = scriptCopies[u][i]
    BY <1>1, <1>4
  <1>9. ScriptsKept'
    <2>1. found.script[sudoUser][who] = "theirs" =>
            FileKept(script'[sudoUser][who], scriptCopies'[sudoUser][who])
      BY <1>1, <1>7, LeftKept
    <2>2. QED  BY <1>2, <1>8, <2>1 DEF KeptInv, AllKept, ScriptsKept, FileKept
  <1>10. CopiesGo
    BY <1>2, <1>7, <1>8 DEF CopiesGo
  <1>11. Undone
    BY DEF UndoScript
  <1>12. QED  BY <1>1, <1>2, <1>3, <1>5, <1>6, <1>9, <1>10, <1>11, UndoneKeeps DEF AllKept

LEMMA UndoBashrcKeeps ==
    ASSUME KeptInv, UndoBashrc  PROVE Kept5'
  <1>1. /\ bashrc \in [Admin -> Bashrc] /\ sudoUser \in Admin /\ pc = "undo"
        /\ RecordOK(snap, who, sudoUser, confCopies[who], scriptCopies[sudoUser][who])
    BY KeptFacts, StepTypes DEF KeptInv, TypeInv, WorldType, UndoBashrc, Undoing
  <1>2. UNCHANGED <<conf, confCopies, script, scriptCopies, link, dirs, found, cutShort>>
    BY DEF UndoBashrc, config, helper
  <1>3. ConfKept' /\ ScriptsKept' /\ LinksKept' /\ DirsKept'
    BY <1>2 DEF KeptInv, AllKept, ConfKept, ScriptsKept, LinksKept, DirsKept, FileKept
  <1>4. \/ bashrc' = bashrc
        \/ snap.line = "CreatedByUs" /\ ~snap.bashrcExisted
           /\ bashrc' = [bashrc EXCEPT ![sudoUser] = NoBashrc]
        \/ \E lines \in snap.backup :
              bashrc' = [bashrc EXCEPT ![sudoUser] = [there |-> TRUE, lines |-> lines]]
        \/ snap.line = "CreatedByUs" /\ bashrc' = [bashrc EXCEPT ![sudoUser].lines = @ \ {"path"}]
    BY DEF UndoBashrc
  <1>5. BashrcKept'
    <2>1. \A u \in Admin : /\ u \notin cutShort => found.bashrc[u].lines \subseteq bashrc[u].lines
                           /\ ~bashrc[u].there => bashrc[u].lines = {}
      BY DEF KeptInv, AllKept, BashrcKept
    <2>2. \A u \in Admin : /\ u \notin cutShort => found.bashrc[u].lines \subseteq bashrc'[u].lines
                           /\ ~bashrc'[u].there => bashrc'[u].lines = {}
      <3>1. CASE bashrc' = bashrc
        BY <2>1, <3>1
      <3>2. CASE /\ snap.line = "CreatedByUs" /\ ~snap.bashrcExisted
                 /\ bashrc' = [bashrc EXCEPT ![sudoUser] = NoBashrc]
        BY <1>1, <2>1, <3>2 DEF RecordOK, NoBashrc
      <3>3. CASE \E lines \in snap.backup :
                    bashrc' = [bashrc EXCEPT ![sudoUser] = [there |-> TRUE, lines |-> lines]]
        BY <1>1, <2>1, <3>3 DEF RecordOK
      <3>4. CASE /\ snap.line = "CreatedByUs"
                 /\ bashrc' = [bashrc EXCEPT ![sudoUser].lines = @ \ {"path"}]
        <4>1. bashrc'[sudoUser].lines = bashrc[sudoUser].lines \ {"path"}
          BY <1>1, <3>4 DEF Bashrc
        <4>2. bashrc'[sudoUser].there = bashrc[sudoUser].there
          BY <1>1, <3>4 DEF Bashrc
        <4>3. \A u \in Admin \ {sudoUser} : bashrc'[u] = bashrc[u]
          BY <1>1, <3>4
        <4>4. sudoUser \notin cutShort => "path" \notin found.bashrc[sudoUser].lines
          BY <1>1, <3>4 DEF RecordOK
        <4>5. QED  BY <2>1, <4>1, <4>2, <4>3, <4>4
      <3>5. QED  BY <1>4, <3>1, <3>2, <3>3, <3>4
    <2>3. QED  BY <1>2, <2>2 DEF BashrcKept
  <1>6. CopiesGo
    BY <1>2 DEF CopiesGo
  <1>7. Undone
    BY DEF UndoBashrc
  <1>8. QED  BY <1>1, <1>2, <1>3, <1>5, <1>6, <1>7, UndoneKeeps DEF AllKept


\* Lines that a write cut short are gone, and no others.
LEMMA WrittenShortKeeps ==
    ASSUME KeptInv, WrittenShort(sudoUser)
    PROVE  AllKept' /\ CopiesGo /\ UNCHANGED found /\ cutShort \subseteq cutShort'
  <1>1. bashrc \in [Admin -> Bashrc] /\ sudoUser \in Admin
    BY KeptFacts, StepTypes DEF KeptInv, TypeInv, WorldType
  <1>2. UNCHANGED <<conf, confCopies, script, scriptCopies, link, dirs, found>>
    BY DEF WrittenShort, config, helper
  <1>3. ConfKept' /\ ScriptsKept' /\ LinksKept' /\ DirsKept'
    BY <1>2 DEF KeptInv, AllKept, ConfKept, ScriptsKept, LinksKept, DirsKept, FileKept
  <1>4. PICK lines \in SUBSET bashrc[sudoUser].lines :
          /\ bashrc' = [bashrc EXCEPT ![sudoUser].lines = lines]
          /\ cutShort' = IF lines = bashrc[sudoUser].lines THEN cutShort ELSE cutShort \cup {sudoUser}
    BY DEF WrittenShort
  <1>5. BashrcKept'
    <2>1. bashrc'[sudoUser].lines = lines /\ bashrc'[sudoUser].there = bashrc[sudoUser].there
      BY <1>1, <1>4 DEF Bashrc
    <2>2. \A u \in Admin \ {sudoUser} : bashrc'[u] = bashrc[u]
      BY <1>1, <1>4
    <2>3. \A u \in Admin : /\ u \notin cutShort => found.bashrc[u].lines \subseteq bashrc[u].lines
                           /\ ~bashrc[u].there => bashrc[u].lines = {}
      BY DEF KeptInv, AllKept, BashrcKept
    <2>4. QED  BY <1>2, <1>4, <2>1, <2>2, <2>3 DEF BashrcKept
  <1>6. CopiesGo
    BY <1>2 DEF CopiesGo
  <1>7. QED  BY <1>2, <1>3, <1>4, <1>5, <1>6 DEF AllKept

LEMMA UndoFailsKeeps ==
    ASSUME KeptInv, UndoBashrcFails  PROVE Kept5'
  <1>1. /\ pc = "undo" /\ recorded \in SUBSET recorded /\ UndoBelow(idx, recorded)
        /\ WrittenShort(sudoUser)
    BY DEF UndoBashrcFails, Undoing, UndoFailed
  <1>2. AllKept' /\ CopiesGo /\ UNCHANGED found /\ cutShort \subseteq cutShort'
    BY <1>1, WrittenShortKeeps
  <1>3. QED  BY <1>1, <1>2, UndoBelowKeeps DEF Kept5

\* A death leaves what the run had done by then, and the manifests.
LEMMA DieKeeps ==
    ASSUME KeptInv, Die  PROVE Kept5'
  <1>1. pc' = "idle" /\ UNCHANGED man
    BY DEF Die, Dies, Exit
  <1>2. /\ AllKept' /\ UNCHANGED found /\ cutShort \subseteq cutShort'
        /\ \A i \in Instance :
             RecordOK(man[i].snap, i, man[i].args, confCopies'[i], scriptCopies'[man[i].args][i])
    <2>1. CASE pc = "run" /\ \E far \in 0 .. 3 : Effect(far)
      BY <2>1, EffectKeeps DEF EffectOK
    <2>2. CASE UNCHANGED world
      BY <2>2, FilesUnchanged, CopiesGoOK DEF world
    <2>3. CASE WrittenShort(sudoUser)
      BY <2>3, WrittenShortKeeps, CopiesGoOK
    <2>4. QED  BY <2>1, <2>2, <2>3 DEF Die
  <1>3. ManifestsOK'
    <2> SUFFICES ASSUME NEW i \in Instance
                 PROVE  /\ RecordOK(man[i].snap, i, man[i].args, confCopies[i], scriptCopies[man[i].args][i])'
                        /\ ExistedOK(man[i].snap, man[i].args, man[i].steps)'
      BY DEF ManifestsOK
    <2>1. RecordOK(man[i].snap, i, man[i].args, confCopies'[i], scriptCopies'[man[i].args][i])
      BY <1>2
    <2>2. ExistedOK(man[i].snap, man[i].args, man[i].steps)
      BY KeptFacts
    <2>3. QED  BY <1>1, <1>2, <2>1, <2>2 DEF RecordOK, ExistedOK
  <1>4. QED  BY <1>1, <1>2, <1>3 DEF Kept5, KeptInv, MemoryOK, Unrecorded, RunOK

\* What the commands know stays when they and the copies stand still.
LEMMA StandStill ==
    ASSUME KeptInv, AllKept',
           UNCHANGED <<confCopies, scriptCopies, found, cutShort, man, pc, who, idx, snap, recorded, sudoUser>>
    PROVE  Kept5'
  <1>1. ManifestsOK'
    BY DEF KeptInv, ManifestsOK, RecordOK, ExistedOK
  <1>2. MemoryOK'
    BY DEF KeptInv, MemoryOK, RecordOK, ExistedOK, Spoken
  <1>3. Unrecorded' /\ RunOK'
    BY DEF KeptInv, Unrecorded, RunOK
  <1>4. QED  BY <1>1, <1>2, <1>3 DEF Kept5

LEMMA AdminsKeep ==
    ASSUME KeptInv, NEW u \in Admin, Types(u) \/ Tidies(u)
    PROVE  Kept5'
  <1>1. UNCHANGED <<conf, confCopies, script, scriptCopies, link, dirs, found, cutShort,
                    man, pc, who, idx, snap, recorded, sudoUser>>
    BY DEF Types, Tidies, config, helper
  <1>2. bashrc \in [Admin -> Bashrc]
    BY DEF KeptInv, TypeInv, TypeOK, WorldType
  <1>3. \/ bashrc' = bashrc
        \/ bashrc' = [bashrc EXCEPT ![u] = [there |-> TRUE, lines |-> @.lines \cup {"later"}]]
    BY DEF Types, Tidies
  <1>4. BashrcKept'
    BY <1>1, <1>2, <1>3 DEF KeptInv, AllKept, BashrcKept
  <1>5. ConfKept' /\ ScriptsKept' /\ LinksKept' /\ DirsKept'
    BY <1>1 DEF KeptInv, AllKept, ConfKept, ScriptsKept, LinksKept, DirsKept, FileKept
  <1>6. QED  BY <1>1, <1>4, <1>5, StandStill DEF AllKept

\* The sessions know nothing of the files.
LEMMA SessionsKeep ==
    ASSUME KeptInv, Beside
    PROVE  Kept5'
  <1>1. /\ UNCHANGED <<config, helper, shell, found>>
        /\ UNCHANGED <<man, pc, who, idx, snap, recorded, sudoUser>>
    BY DEF Beside
  <1>2. QED  BY <1>1, FilesUnchanged, StandStill

\* What is there when there is nothing to do.
LEMMA IdleKeeps ==
    ASSUME KeptInv, UNCHANGED vars
    PROVE  Kept5'
  <1>1. /\ UNCHANGED <<config, helper, shell, found>>
        /\ UNCHANGED <<man, pc, who, idx, snap, recorded, sudoUser>>
    BY DEF vars, world
  <1>2. QED  BY <1>1, FilesUnchanged, StandStill

LEMMA InitKept ==
    ASSUME Init  PROVE KeptInv
  <1>1. TypeInv
    BY InitType
  <1>2. /\ Start
        /\ found = [conf |-> conf, unit |-> unit, enabled |-> enabled, up |-> up, dirs |-> dirs,
                    script |-> script, link |-> link, bashrc |-> bashrc]
        /\ \A i \in Instance : confCopies[i] = {}
        /\ \A u \in Admin : \A i \in Instance : scriptCopies[u][i] = {}
        /\ bashrc \in [Admin -> {NoBashrc} \cup [there : {TRUE}, lines : {{"own"}, {"own", "path"}}]]
    BY DEF Init
  <1>3. AllKept
    <2>1. ConfKept /\ ScriptsKept
      BY <1>2 DEF ConfKept, ScriptsKept, FileKept
    <2>2. LinksKept /\ DirsKept
      BY <1>2 DEF LinksKept, DirsKept
    <2>3. BashrcKept
      <3>1. found.bashrc = bashrc
        BY <1>2
      <3>2. \A u \in Admin : ~bashrc[u].there => bashrc[u].lines = {}
        <4> TAKE u \in Admin
        <4>1. bashrc[u] = NoBashrc \/ bashrc[u] \in [there : {TRUE}, lines : {{"own"}, {"own", "path"}}]
          BY <1>2
        <4>2. bashrc[u] \in [there : {TRUE}, lines : {{"own"}, {"own", "path"}}] => bashrc[u].there
          OBVIOUS
        <4>3. NoBashrc.lines = {}
          BY DEF NoBashrc
        <4>4. QED  BY <4>1, <4>2, <4>3
      <3>3. QED  BY <3>1, <3>2 DEF BashrcKept
    <2>4. QED  BY <2>1, <2>2, <2>3 DEF AllKept
  <1>4. /\ \A i \in Instance : man[i] = NoManifest
        /\ pc = "idle"
    BY <1>2 DEF Start
  <1>5. NoManifest.snap = Default /\ NoManifest.steps = {}
    BY DEF NoManifest
  <1>6. ManifestsOK
    <2> SUFFICES ASSUME NEW i \in Instance
                 PROVE  /\ RecordOK(man[i].snap, i, man[i].args, confCopies[i], scriptCopies[man[i].args][i])
                        /\ ExistedOK(man[i].snap, man[i].args, man[i].steps)
      BY DEF ManifestsOK
    <2>1. man[i].snap = Default /\ man[i].steps = {}
      BY <1>4, <1>5
    <2>2. /\ RecordOK(Default, i, man[i].args, confCopies[i], scriptCopies[man[i].args][i])
          /\ ExistedOK(Default, man[i].args, {})
      BY DefaultOK
    <2>3. QED  BY <2>1, <2>2
  <1>7. Default.confBackup = {} /\ Default.scriptBackup = {}
    BY DEF Default
  <1>8. Unrecorded
    BY <1>4, <1>5, <1>7 DEF Unrecorded
  <1>9. QED  BY <1>1, <1>3, <1>4, <1>6, <1>8 DEF KeptInv, MemoryOK, RunOK

LEMMA NextKept ==
    ASSUME AnyResumes = FALSE, KeptInv, [Next]_vars
    PROVE  KeptInv'
  <1>1. TypeInv'
    BY NextType DEF KeptInv
  <1> SUFFICES Kept5'
    BY <1>1 DEF KeptInv, Kept5
  <1>2. CASE \E i \in Instance : Install(i) \/ Rollback(i)
    BY <1>2, BeginsKeep
  <1>3. CASE \E i \in Instance : Control(i)
    BY <1>3, SessionsKeep DEF Control
  <1>4. CASE Stops \/ Skip \/ Finish
    BY <1>4, EnginesKeep
  <1>5. CASE SnapshotConfig \/ SnapshotUnit \/ SnapshotScript \/ SnapshotBashrc
    BY <1>5, SnapshotsKeep
  <1>6. CASE RunStep \/ RunFails
    BY <1>6, RunsKeep
  <1>7. CASE UndoConfig \/ UndoUnit \/ UndoScript \/ UndoBashrc \/ UndoBashrcFails
    BY <1>7, UndoConfigKeeps, UndoUnitKeeps, UndoScriptKeeps, UndoBashrcKeeps, UndoFailsKeeps
  <1>8. CASE Die
    BY <1>8, DieKeeps
  <1>9. CASE \E u \in Admin : Types(u) \/ Tidies(u)
    BY <1>9, AdminsKeep
  <1>10. CASE \E s \in Session :
                \/ Enter(s) \/ StopIt(s) \/ Leave(s)
                \/ Unanswered(s) \/ Answered(s) \/ Interrupted(s) \/ Lost(s)
    <2>1. Beside
      BY <1>10 DEF Enter, StopIt, Leave, Unanswered, Answered, Interrupted, Lost, Gone
    <2>2. QED  BY <2>1, SessionsKeep
  <1>11. CASE UNCHANGED vars
    BY <1>11, IdleKeeps
  <1>12. QED
    BY <1>2, <1>3, <1>4, <1>5, <1>6, <1>7, <1>8, <1>9, <1>10, <1>11 DEF Next

\* Nothing the customer had is lost but lines of a .bashrc that was written short
\* of its end, wherever an installation or a rollback stops or dies and whatever
\* the sessions and the administrators do beside it, as long as the one who
\* resumes an installation is the one who began it: the records of the script are
\* of the first administrator's home, and the undo works in the second's.
THEOREM ServiceTheirsKept ==
    ASSUME AnyResumes = FALSE
    PROVE  Spec => []TheirsKept
  <1>1. Init => KeptInv
    BY InitKept
  <1>2. KeptInv /\ [Next]_vars => KeptInv'
    BY NextKept
  <1>3. KeptInv => TheirsKept
    BY DEF KeptInv, AllKept, ConfKept, ScriptsKept, LinksKept, DirsKept, BashrcKept, FileKept, TheirsKept
  <1>4. QED  BY <1>1, <1>2, <1>3, PTL DEF Spec

-----------------------------------------------------------------------------
(* What a command finds, and what it leaves, when nothing fails on the way. *)

\* The process of an instance holds its snapshots and its records; without one
\* they are in the manifest.  The step a failure came in is undone like one
\* that is recorded.
Busy(i) == pc # "idle" /\ who = i

Held(i) == IF Busy(i) THEN snap ELSE man[i].snap

Done(i) ==
    IF ~Busy(i) THEN man[i].steps
    ELSE IF pc = "undo" THEN recorded \cup {idx} ELSE recorded

UserOf(i) == IF Busy(i) THEN sudoUser ELSE man[i].args

\* Without faults a manifest is that of a whole installation, what is installed
\* was not recorded before, and what is recorded is undone from the last step.
Orderly ==
    /\ \A i \in Instance : ~Busy(i) => man[i].steps = IF man[i].finished THEN Steps ELSE {}
    /\ \A i \in Instance : man[i].steps = {} => man[i].snap = Default
    /\ pc \in {"snapshot", "run"} =>
          /\ recorded = {k \in Steps : k < idx}
          /\ man[who].steps = recorded /\ ~man[who].finished
          /\ man[who].snap = Records(snap, recorded)
          /\ recorded # {} => man[who].args = sudoUser
    /\ pc = "undo" =>
          /\ man[who].steps # {} => man[who].args = sudoUser
          /\ \A k \in recorded : ~(k > idx)

\* What an undo does not do is a fault.
LEMMA AllDone ==
    ASSUME TypeOK, faults = 0, faults' = 0, NEW all, IsFiniteSet(all), NEW done \in Parts(all), Cost(done, all)
    PROVE  all \subseteq done
  <1>1. IsFiniteSet(all \ done)
    BY FS_Difference
  <1>2. Cardinality(all \ done) \in Nat
    BY <1>1, FS_CardinalityType
  <1>3. Cardinality(all \ done) = 0
    BY <1>2 DEF Cost
  <1>4. all \ done = {}
    BY <1>1, <1>3, FS_EmptySet
  <1>5. QED  BY <1>4

LEMMA CostQuiet ==
    ASSUME TypeOK, faults' = 0, NEW all, IsFiniteSet(all), NEW done \in Parts(all), Cost(done, all)
    PROVE  faults = 0
  <1>1. Cardinality(all \ done) \in Nat
    BY FS_Difference, FS_CardinalityType
  <1>2. faults \in Nat
    BY StepTypes, FaultsAssumption
  <1>3. QED  BY <1>1, <1>2 DEF Cost

\* A fault is not undone.
LEMMA QuietBefore ==
    ASSUME TypeOK, Next, faults' = 0
    PROVE  faults = 0 /\ ~Fault
  <1>1. faults \in Nat
    BY StepTypes, FaultsAssumption
  <1>3. ~Fault
    BY <1>1 DEF Fault
  <1>4. CASE UndoConfig
    BY <1>3, <1>4, CostQuiet, SmallSets DEF UndoConfig
  <1>5. CASE UndoUnit
    BY <1>3, <1>5, CostQuiet, SmallSets DEF UndoUnit
  <1>6. CASE UndoScript
    <2>1. PICK done \in Parts({"link", "script"} \cup Dir) : Cost(done, {"link", "script"} \cup Dir)
      BY <1>6 DEF UndoScript
    <2>2. QED  BY <1>3, <2>1, CostQuiet, SmallSets
  <1>7. CASE UndoBashrc
    <2>1. PICK done \in Parts({"first", "read"}) : Cost(done, {"first", "read"})
      BY <1>7 DEF UndoBashrc
    <2>2. QED  BY <1>3, <2>1, CostQuiet, SmallSets
  <1>8. CASE SessionStep
    <2>1. CASE \E i \in Instance : Control(i)
      BY <1>3, <2>1 DEF Control, InTheMiddle
    <2>2. CASE \E s \in Session : Enter(s) \/ StopIt(s) \/ Leave(s) \/ Interrupted(s) \/ Lost(s)
      BY <1>3, <2>2 DEF Enter, StopIt, Leave, Interrupted, Lost
    <2>3. CASE \E s \in Session : Unanswered(s) \/ Answered(s)
      BY <1>3, <2>3 DEF Unanswered, Answered, InTheMiddle
    <2>4. QED  BY <1>8, <2>1, <2>2, <2>3 DEF SessionStep
  <1>9. CASE ~(UndoConfig \/ UndoUnit \/ UndoScript \/ UndoBashrc \/ SessionStep)
    BY <1>3, <1>9 DEF Next, SessionStep, Install, Rollback, Begin, BeginRollback, Stops, Skip, Finish,
       Finished, SnapshotConfig, SnapshotUnit, SnapshotScript, SnapshotBashrc, Snapshotted, RunStep, Ran,
       RunFails, Die, Dies, UndoBashrcFails, Types, Tidies
  <1>10. QED  BY <1>3, <1>4, <1>5, <1>6, <1>7, <1>8, <1>9

\* The records of no step say nothing.
LEMMA NoRecords == \A s : Records(s, {}) = Default
  BY DEF Records, Default

LEMMA FieldsAre ==
    /\ Fields(1) = {"conf", "confBackup"} /\ Fields(2) = {"unit", "enabled", "active"}
    /\ Fields(3) = {"script", "scriptBackup", "link", "existed"}
    /\ Fields(4) = {"line", "bashrcExisted", "backup"}
    /\ \A k \in Steps : Fields(k) \subseteq DOMAIN Default
  <1>1. /\ Fields(1) = {"conf", "confBackup"} /\ Fields(2) = {"unit", "enabled", "active"}
        /\ Fields(3) = {"script", "scriptBackup", "link", "existed"}
        /\ Fields(4) = {"line", "bashrcExisted", "backup"}
    BY DEF Fields
  <1>2. Steps = {1, 2, 3, 4}
    BY DEF Steps
  <1>3. DOMAIN Default = {"conf", "confBackup", "unit", "enabled", "active", "script", "scriptBackup",
                          "link", "existed", "line", "bashrcExisted", "backup"}
    BY DEF Default
  <1>4. QED  BY <1>1, <1>2, <1>3

LEMMA FieldsApart ==
    \A k, l \in Steps : k # l => Fields(k) \cap Fields(l) = {}
  <1>1. Steps = {1, 2, 3, 4}
    BY DEF Steps
  <1>2. QED  BY <1>1, FieldsAre

\* An installation begins with nothing recorded, a rollback with the last step.
LEMMA BeginOrderly ==
    ASSUME TypeOK, Orderly, NEW i \in Instance, NEW u, Begin(i, u)
    PROVE  Orderly' /\ man[i].steps = {}
  <1>1. /\ pc = "idle" /\ pc' = "snapshot" /\ idx' = 1 /\ who' = i
        /\ snap' = man[i].snap /\ recorded' = man[i].steps
        /\ UNCHANGED man /\ ~man[i].finished
    BY DEF Begin, Take
  <1>2. man[i].steps = {} /\ man[i].snap = Default
    BY <1>1 DEF Orderly, Busy
  <1>3. \A j \in Instance : ~Busy(j)
    BY <1>1 DEF Busy
  <1>4. {k \in Steps : k < idx'} = {}
    BY <1>1 DEF Steps
  <1>5. Records(snap', {}) = Default
    BY NoRecords
  <1>6. QED
    BY <1>1, <1>2, <1>3, <1>4, <1>5 DEF Orderly

LEMMA BeginRollbackOrderly ==
    ASSUME TypeOK, Orderly, NEW i \in Instance, BeginRollback(i, man[i].args)
    PROVE  Orderly' /\ idx' \in man[i].steps
  <1>1. /\ pc = "idle" /\ pc' = "undo" /\ idx' = Max(man[i].steps) /\ who' = i
        /\ sudoUser' = man[i].args /\ recorded' = man[i].steps
        /\ UNCHANGED man /\ man[i].steps # {}
    BY DEF BeginRollback, Take
  <1>2. man[i].steps \in SUBSET Steps
    BY DEF TypeOK, ProcessType
  <1>3. idx' \in man[i].steps /\ \A k \in man[i].steps : ~(k > idx')
    BY <1>1, <1>2, MaxIs
  <1>4. \A j \in Instance : ~Busy(j)
    BY <1>1 DEF Busy
  <1>5. QED
    BY <1>1, <1>3, <1>4 DEF Orderly

\* What is undone next, or nothing when the process ends.
LEMMA UndoBelowOrderly ==
    ASSUME TypeOK, Orderly, pc \in {"snapshot", "undo"}, NEW K \in SUBSET Steps, UndoBelow(idx, K),
           \A k \in K : k < idx
    PROVE  Orderly'
  <1> DEFINE todo == {j \in K : j < idx}
             m == Manifest(snap, K, FALSE)
  <1>1. who \in Instance /\ todo = K
    BY DEF TypeOK, ProcessType
  <1>2. CASE K = {}
    <2>1. pc' = "idle" /\ man' = [man EXCEPT ![who] = m]
      BY <1>1, <1>2 DEF UndoBelow, Exit
    <2>2. m.finished = FALSE /\ m.steps = {} /\ m.snap = Default
      BY <1>2 DEF Manifest, NoManifest
    <2>. HIDE DEF m, todo
    <2>4. man'[who] = m /\ \A i \in Instance \ {who} : man'[i] = man[i]
      BY <1>1, <2>1 DEF TypeOK, ProcessType
    <2>5. \A i \in Instance \ {who} : ~Busy(i)
      BY DEF Busy
    <2>6. \A i \in Instance : ~Busy(i)' => man'[i].steps = IF man'[i].finished THEN Steps ELSE {}
      BY <2>2, <2>4, <2>5 DEF Orderly
    <2>9. \A i \in Instance : man'[i].steps = {} => man'[i].snap = Default
      BY <2>2, <2>4 DEF Orderly
    <2>10. QED  BY <2>1, <2>6, <2>9 DEF Orderly
  <1>3. CASE K # {}
    <2>1. /\ pc' = "undo" /\ idx' = Max(K) /\ recorded' = K
          /\ UNCHANGED <<who, sudoUser, man>>
          /\ man[who].steps # {} => man[who].args = sudoUser
      BY <1>1, <1>3 DEF UndoBelow, Orderly
    <2>2. \A k \in K : ~(k > idx')
      BY <1>3, <2>1, MaxIs
    <2>3. \A i \in Instance : Busy(i)' = Busy(i)
      BY <2>1 DEF Busy
    <2>6. QED  BY <2>1, <2>2, <2>3 DEF Orderly
  <1>4. QED  BY <1>2, <1>3

LEMMA StopsOrderly ==
    ASSUME TypeOK, Orderly, Stops  PROVE Orderly'
  <1>1. pc = "snapshot" /\ UndoBelow(idx, recorded) /\ recorded \in SUBSET Steps
    BY DEF Stops, TypeOK, ProcessType
  <1>2. \A k \in recorded : k < idx
    BY <1>1 DEF Orderly
  <1>3. QED
    BY <1>1, <1>2, UndoBelowOrderly

LEMMA NoSkip ==
    ASSUME TypeOK, Orderly  PROVE ~Skip
  <1>1. idx \in Nat
    BY DEF TypeOK, ProcessType
  <1>2. QED  BY <1>1 DEF Orderly, Skip

LEMMA FinishOrderly ==
    ASSUME TypeOK, Orderly, Finished  PROVE Orderly'
  <1>1. /\ pc = "snapshot" /\ idx = 5 /\ pc' = "idle"
        /\ man' = [man EXCEPT ![who].finished = TRUE]
    BY DEF Finished, Exit
  <1>2. who \in Instance /\ man \in [Instance -> Manifests]
    BY DEF TypeOK, ProcessType, Manifests
  <1>3. /\ man'[who] = [man[who] EXCEPT !.finished = TRUE]
        /\ \A i \in Instance \ {who} : man'[i] = man[i]
    BY <1>1, <1>2
  <1>4. man'[who].finished /\ man'[who].steps = man[who].steps
    BY <1>2, <1>3 DEF Manifests
  <1>5. man[who].steps = Steps /\ Steps # {}
    <2>1. man[who].steps = {k \in Steps : k < 5}
      BY <1>1 DEF Orderly
    <2>2. QED  BY <2>1 DEF Steps
  <1>6. \A i \in Instance \ {who} : ~Busy(i)
    BY DEF Busy
  <1>7. \A i \in Instance : man'[i].steps = IF man'[i].finished THEN Steps ELSE {}
    BY <1>3, <1>4, <1>5, <1>6 DEF Orderly
  <1>9. \A i \in Instance : man'[i].steps = {} => man'[i].snap = Default
    BY <1>3, <1>4, <1>5 DEF Orderly
  <1>10. QED
    BY <1>1, <1>7, <1>9 DEF Orderly

\* What is recorded of a snapshot does not change with the fields of another step.
LEMMA RecordsElse ==
    ASSUME NEW s, NEW t, NEW k \in Steps, NEW K \in SUBSET Steps, k \notin K,
           \A f \in DOMAIN Default \ Fields(k) : s[f] = t[f]
    PROVE  Records(s, K) = Records(t, K)
  <1>1. ASSUME NEW f \in DOMAIN Default
        PROVE  (IF \E l \in K : f \in Fields(l) THEN s[f] ELSE Default[f])
                 = (IF \E l \in K : f \in Fields(l) THEN t[f] ELSE Default[f])
    <2>1. CASE f \in Fields(k)
      <3>1. ~\E l \in K : f \in Fields(l)
        BY <2>1, FieldsApart
      <3>2. QED  BY <3>1
    <2>2. CASE f \notin Fields(k)
      BY <1>1, <2>2
    <2>3. QED  BY <2>1, <2>2
  <1>2. QED  BY <1>1 DEF Records

\* A snapshot looks only at what its step is about.
LEMMA SnapshotOrderly ==
    ASSUME TypeOK, Orderly, idx \in Steps, pc = "snapshot", NEW s, Snapshotted(s),
           \A f \in DOMAIN Default \ Fields(idx) : s[f] = snap[f]
    PROVE  Orderly'
  <1>1. /\ snap' = s /\ pc' = "run"
        /\ UNCHANGED <<man, who, idx, recorded, sudoUser>>
    BY DEF Snapshotted
  <1>2. recorded \in SUBSET Steps /\ idx \notin recorded
    BY DEF TypeOK, ProcessType, Orderly, Steps
  <1>3. Records(s, recorded) = Records(snap, recorded)
    BY <1>2, RecordsElse
  <1>4. Records(snap', recorded') = man'[who'].snap
    BY <1>1, <1>3 DEF Orderly
  <1>5. \A i \in Instance : Busy(i)' = Busy(i)
    BY <1>1 DEF Busy
  <1>6. QED
    BY <1>1, <1>4, <1>5 DEF Orderly

\* The manifest of a run that succeeded.
LEMMA RanOrderly ==
    ASSUME TypeOK, Orderly, pc = "run", Ran
    PROVE  Orderly'
  <1> DEFINE m == Manifest(snap', recorded', FALSE)
  <1>1. /\ pc' = "snapshot" /\ idx' = idx + 1 /\ recorded' = recorded \cup {idx}
        /\ man' = [man EXCEPT ![who] = m]
        /\ UNCHANGED <<who, sudoUser>>
    BY DEF Ran
  <1>2. who \in Instance /\ man \in [Instance -> Manifests] /\ idx \in Steps
    BY DEF TypeOK, ProcessType, Manifests
  <1>3. recorded' = {k \in Steps : k < idx'} /\ recorded' # {}
    <2>1. recorded = {k \in Steps : k < idx}
      BY DEF Orderly
    <2>2. QED  BY <1>1, <1>2, <2>1 DEF Steps
  <1>4. /\ m.steps = recorded' /\ m.snap = Records(snap', recorded')
        /\ m.finished = FALSE /\ m.args = sudoUser
    <2>1. man[who].steps # {} => man[who].args = sudoUser
      BY DEF Orderly
    <2>2. m.steps = recorded' /\ m.snap = Records(snap', recorded') /\ m.finished = FALSE
      BY <1>3 DEF Manifest
    <2>3. m.args = sudoUser
      BY <1>3, <2>1 DEF Manifest, Kept
    <2>4. QED  BY <2>2, <2>3
  <1>. HIDE DEF m
  <1>5. man'[who] = m /\ \A i \in Instance \ {who} : man'[i] = man[i]
    BY <1>1, <1>2
  <1>6. Busy(who) /\ \A i \in Instance : Busy(i)' = Busy(i)
    BY <1>1 DEF Busy
  <1>7. \A i \in Instance \ {who} : ~Busy(i)
    BY DEF Busy
  <1>8. \A i \in Instance : ~Busy(i)' => man'[i].steps = IF man'[i].finished THEN Steps ELSE {}
    BY <1>5, <1>6, <1>7 DEF Orderly
  <1>9. \A i \in Instance : man'[i].steps = {} => man'[i].snap = Default
    BY <1>3, <1>4, <1>5 DEF Orderly
  <1>11. QED
    BY <1>1, <1>3, <1>4, <1>5, <1>8, <1>9 DEF Orderly

LEMMA FailedOrderly ==
    ASSUME TypeOK, Orderly, pc = "run", Failed
    PROVE  Orderly'
  <1>1. pc' = "undo" /\ UNCHANGED <<man, who, idx, recorded, sudoUser>>
    BY DEF Failed
  <1>2. \A i \in Instance : Busy(i)' = Busy(i)
    BY <1>1 DEF Busy
  <1>3. recorded = {k \in Steps : k < idx} /\ man[who].steps = recorded
        /\ (recorded # {} => man[who].args = sudoUser)
    BY DEF Orderly
  <1>4. \A k \in recorded : ~(k > idx)
    <2>1. idx \in Nat
      BY DEF TypeOK, ProcessType, Steps
    <2>2. QED  BY <1>3, <2>1 DEF Steps
  <1>5. QED
    BY <1>1, <1>2, <1>3, <1>4 DEF Orderly

\* No step is shared here: what is undone is no longer recorded.
LEMMA UndoneBelow ==
    ASSUME Undone  PROVE UndoBelow(idx, recorded \ {idx})
  BY DEF Undone, Scope

LEMMA UndoneOrderly ==
    ASSUME TypeOK, Orderly, pc = "undo", Undone
    PROVE  Orderly'
  <1>1. recorded \ {idx} \in SUBSET Steps /\ idx \in Nat
    BY DEF TypeOK, ProcessType
  <1>2. \A k \in recorded \ {idx} : k < idx
    BY <1>1 DEF Orderly, Steps
  <1>3. QED
    BY <1>1, <1>2, UndoneBelow, UndoBelowOrderly

-----------------------------------------------------------------------------
(* What the instances hold of the steps they have done, and how it moves     *)
(* between the manifest and the process.                                     *)

\* i has done the steps K afterwards and holds of them what it held.
Retains(i, K) ==
    /\ Done(i)' = K
    /\ \A k \in K : \A f \in Fields(k) : Held(i)'[f] = Held(i)[f]
    /\ K # {} => UserOf(i)' = UserOf(i)

AllRetain == \A i \in Instance : Retains(i, Done(i))

\* The step the process is at has been done as well.
Joins(w) ==
    /\ idx \notin Done(w) /\ Done(w)' = Done(w) \cup {idx}
    /\ Held(w) = snap /\ Held(w)' = snap'
    /\ UserOf(w) = sudoUser /\ UserOf(w)' = sudoUser
    /\ \A i \in Instance \ {w} : Retains(i, Done(i))

\* Who is not at work holds what its manifest says.
LEMMA IdleRetains ==
    ASSUME NEW i \in Instance, ~Busy(i), ~Busy(i)', man'[i] = man[i]
    PROVE  Retains(i, Done(i))
  BY DEF Retains, Done, Held, UserOf

LEMMA RecordsHold ==
    ASSUME NEW s, NEW K \in SUBSET Steps, NEW k \in K, NEW f \in Fields(k)
    PROVE  Records(s, K)[f] = s[f]
  <1>1. f \in DOMAIN Default
    BY FieldsAre
  <1>2. QED  BY <1>1 DEF Records

LEMMA BeginView ==
    ASSUME TypeOK, Orderly, NEW i \in Instance, NEW u, Begin(i, u)
    PROVE  AllRetain
  <1>1. /\ pc = "idle" /\ pc' = "snapshot" /\ who' = i
        /\ snap' = man[i].snap /\ recorded' = man[i].steps /\ UNCHANGED man
    BY DEF Begin, Take
  <1>2. man[i].steps = {}
    BY BeginOrderly
  <1>3. Retains(i, Done(i))
    BY <1>1, <1>2 DEF Retains, Done, Busy
  <1>4. \A j \in Instance \ {i} : Retains(j, Done(j))
    BY <1>1, IdleRetains DEF Busy
  <1>5. QED  BY <1>3, <1>4 DEF AllRetain

LEMMA BeginRollbackView ==
    ASSUME TypeOK, Orderly, NEW i \in Instance, BeginRollback(i, man[i].args)
    PROVE  AllRetain
  <1>1. /\ pc = "idle" /\ pc' = "undo" /\ who' = i /\ sudoUser' = man[i].args
        /\ snap' = man[i].snap /\ recorded' = man[i].steps /\ UNCHANGED man
    BY DEF BeginRollback, Take
  <1>2. idx' \in man[i].steps
    BY BeginRollbackOrderly
  <1>3. Retains(i, Done(i))
    BY <1>1, <1>2 DEF Retains, Done, Busy, Held, UserOf
  <1>4. \A j \in Instance \ {i} : Retains(j, Done(j))
    BY <1>1, IdleRetains DEF Busy
  <1>5. QED  BY <1>3, <1>4 DEF AllRetain

\* The last undo, or none: nothing stays.
LEMMA UndoBelowView ==
    ASSUME TypeOK, NEW w \in Instance, w = who, pc \in {"snapshot", "undo"},
           NEW K \in SUBSET recorded, \A k \in K : k < idx, UndoBelow(idx, K)
    PROVE  Retains(w, K) /\ \A i \in Instance \ {w} : Retains(i, Done(i))
  <1> DEFINE todo == {j \in K : j < idx}
             m == Manifest(snap, K, FALSE)
  <1>1. man \in [Instance -> Manifests] /\ recorded \in SUBSET Steps /\ todo = K
    BY DEF TypeOK, ProcessType, Manifests
  <1>2. /\ Busy(w) /\ Held(w) = snap /\ UserOf(w) = sudoUser
        /\ \A i \in Instance \ {w} : ~Busy(i)
    BY DEF Busy, Held, UserOf
  <1>3. CASE K = {}
    <2>1. pc' = "idle" /\ man' = [man EXCEPT ![who] = m]
      BY <1>1, <1>3 DEF UndoBelow, Exit
    <2>3. m.steps = {}
      BY <1>3 DEF Manifest, NoManifest
    <2>. HIDE DEF m, todo
    <2>5. man'[w] = m /\ \A i \in Instance \ {w} : man'[i] = man[i]
      BY <1>1, <2>1
    <2>6. \A i \in Instance : ~Busy(i)'
      BY <2>1 DEF Busy
    <2>7. Done(w)' = {}
      BY <2>3, <2>5, <2>6 DEF Done
    <2>10. QED
      BY <1>2, <1>3, <2>5, <2>6, <2>7, IdleRetains DEF Retains
  <1>4. CASE K # {}
    <2>1. /\ pc' = "undo" /\ idx' = Max(K) /\ recorded' = K
          /\ UNCHANGED <<who, snap, sudoUser, man>>
      BY <1>1, <1>4 DEF UndoBelow
    <2>2. Max(K) \in K
      BY <1>1, <1>4, MaxIs
    <2>. HIDE DEF todo
    <2>3. \A i \in Instance : Busy(i)' = Busy(i)
      BY <2>1 DEF Busy
    <2>4. Retains(w, K)
      BY <1>2, <2>1, <2>2, <2>3 DEF Retains, Done, Held, UserOf, Busy
    <2>5. QED
      BY <1>2, <2>1, <2>3, <2>4, IdleRetains
  <1>5. QED  BY <1>3, <1>4

LEMMA StopsView ==
    ASSUME TypeOK, Orderly, NEW w \in Instance, w = who, Stops  PROVE AllRetain
  <1>1. pc = "snapshot" /\ UndoBelow(idx, recorded) /\ recorded \in SUBSET recorded
    BY DEF Stops
  <1>2. \A k \in recorded : k < idx
    BY <1>1 DEF Orderly
  <1>3. Retains(w, recorded) /\ \A i \in Instance \ {w} : Retains(i, Done(i))
    BY <1>1, <1>2, UndoBelowView
  <1>4. Done(w) = recorded
    BY <1>1 DEF Done, Busy
  <1>5. QED  BY <1>3, <1>4 DEF AllRetain

\* The step that is undone leaves the records.
LEMMA UndoneView ==
    ASSUME TypeOK, Orderly, NEW w \in Instance, w = who, pc = "undo", Undone
    PROVE  /\ Retains(w, Done(w) \ {idx})
           /\ \A i \in Instance \ {w} : Retains(i, Done(i))
           /\ idx \in Done(w) /\ Held(w) = snap /\ UserOf(w) = sudoUser
  <1>1. /\ Done(w) = recorded \cup {idx} /\ Held(w) = snap /\ UserOf(w) = sudoUser
    BY DEF Done, Held, UserOf, Busy
  <1>2. idx \in Nat /\ recorded \in SUBSET Steps
    BY DEF TypeOK, ProcessType
  <1>3. recorded \ {idx} \in SUBSET recorded /\ \A k \in recorded \ {idx} : k < idx
    BY <1>2 DEF Orderly, Steps
  <1>4. Retains(w, recorded \ {idx}) /\ \A i \in Instance \ {w} : Retains(i, Done(i))
    BY <1>3, UndoneBelow, UndoBelowView
  <1>5. Done(w) \ {idx} = recorded \ {idx}
    BY <1>1
  <1>6. QED  BY <1>1, <1>4, <1>5

LEMMA FinishView ==
    ASSUME TypeOK, Orderly, NEW w \in Instance, w = who, Finished  PROVE AllRetain
  <1>1. /\ pc = "snapshot" /\ pc' = "idle" /\ man' = [man EXCEPT ![who].finished = TRUE]
    BY DEF Finished, Exit
  <1>2. who \in Instance /\ man \in [Instance -> Manifests] /\ recorded \in SUBSET Steps
    BY DEF TypeOK, ProcessType, Manifests
  <1>3. /\ man'[w] = [man[who] EXCEPT !.finished = TRUE]
        /\ \A i \in Instance \ {w} : man'[i] = man[i]
    BY <1>1, <1>2
  <1>4. /\ man'[w].steps = man[who].steps /\ man'[w].snap = man[who].snap
        /\ man'[w].args = man[who].args
    BY <1>2, <1>3 DEF Manifests
  <1>5. /\ man[who].steps = recorded /\ man[who].snap = Records(snap, recorded)
        /\ recorded # {} => man[who].args = sudoUser
    BY <1>1 DEF Orderly
  <1>6. /\ Done(w) = recorded /\ Held(w) = snap /\ UserOf(w) = sudoUser
        /\ Done(w)' = recorded /\ Held(w)' = Records(snap, recorded)
        /\ recorded # {} => UserOf(w)' = sudoUser
    BY <1>1, <1>4, <1>5 DEF Done, Held, UserOf, Busy
  <1>7. \A k \in recorded : \A f \in Fields(k) : Records(snap, recorded)[f] = snap[f]
    BY <1>2, RecordsHold
  <1>8. Retains(w, Done(w))
    BY <1>6, <1>7 DEF Retains
  <1>9. \A i \in Instance \ {w} : Retains(i, Done(i))
    BY <1>1, <1>3, IdleRetains DEF Busy
  <1>10. QED  BY <1>8, <1>9 DEF AllRetain

LEMMA SnapshotView ==
    ASSUME TypeOK, Orderly, NEW w \in Instance, w = who, idx \in Steps, pc = "snapshot", NEW s, Snapshotted(s),
           \A f \in DOMAIN Default \ Fields(idx) : s[f] = snap[f]
    PROVE  AllRetain
  <1>1. /\ snap' = s /\ pc' = "run" /\ UNCHANGED <<man, who, recorded, sudoUser>>
    BY DEF Snapshotted
  <1>2. recorded \in SUBSET Steps /\ idx \notin recorded
    BY DEF TypeOK, ProcessType, Orderly, Steps
  <1>3. \A k \in recorded : \A f \in Fields(k) : s[f] = snap[f]
    BY <1>2, FieldsAre, FieldsApart
  <1>4. /\ Done(w) = recorded /\ Held(w) = snap /\ UserOf(w) = sudoUser
        /\ Done(w)' = recorded /\ Held(w)' = s /\ UserOf(w)' = sudoUser
    BY <1>1 DEF Done, Held, UserOf, Busy
  <1>5. Retains(w, Done(w))
    BY <1>3, <1>4 DEF Retains
  <1>6. \A i \in Instance \ {w} : Retains(i, Done(i))
    BY <1>1, IdleRetains DEF Busy
  <1>7. QED  BY <1>5, <1>6 DEF AllRetain

LEMMA RanView ==
    ASSUME TypeOK, Orderly, NEW w \in Instance, w = who, pc = "run", Ran \/ Failed
    PROVE  Joins(w)
  <1>1. who \in Instance /\ man \in [Instance -> Manifests] /\ idx \in Steps
    BY DEF TypeOK, ProcessType, Manifests
  <1>2. /\ pc' \in {"snapshot", "undo"} /\ UNCHANGED <<who, sudoUser>>
        /\ \A i \in Instance \ {w} : man'[i] = man[i]
        /\ IF pc' = "undo" THEN recorded' = recorded /\ idx' = idx ELSE recorded' = recorded \cup {idx}
    BY <1>1 DEF Ran, Failed
  <1>3. idx \notin recorded
    BY <1>1 DEF Orderly, Steps
  <1>4. /\ Done(w) = recorded /\ Held(w) = snap /\ UserOf(w) = sudoUser
        /\ Done(w)' = recorded \cup {idx} /\ Held(w)' = snap' /\ UserOf(w)' = sudoUser
    BY <1>2 DEF Done, Held, UserOf, Busy
  <1>5. \A i \in Instance \ {w} : Retains(i, Done(i))
    BY <1>2, IdleRetains DEF Busy
  <1>6. QED  BY <1>3, <1>4, <1>5 DEF Joins

\* The commands stand still while the administrators and the sessions work.
LEMMA StillView ==
    ASSUME UNCHANGED <<man, pc, who, idx, snap, recorded, sudoUser>>
    PROVE  AllRetain /\ (Orderly => Orderly')
  BY DEF AllRetain, Retains, Done, Held, UserOf, Busy, Orderly

-----------------------------------------------------------------------------
(* What is on the machine, and who knows how to give it back.                *)

\* The machine before the first command.
Before == {"absent", "theirs"}

FoundOnce ==
    /\ found.conf \in [Instance -> Before] /\ found.unit \in [Instance -> Before]
    /\ found.enabled \in [Instance -> BOOLEAN]
    /\ found.script \in [Admin -> [Instance -> Before]] /\ found.link \in [Admin -> [Instance -> Before]]
    /\ found.dirs \in [Admin -> [Dir -> Before]]
    /\ found.bashrc \in [Admin -> Bashrc]
    /\ \A u \in Admin : ~found.bashrc[u].there => found.bashrc[u].lines = {}

\* The configuration is as it was found, ours in the place of none, or the copy
\* that is recorded is of what was found.
ConfLeft(i) ==
    IF ConfigStep \notin Done(i) THEN conf[i] = found.conf[i]
    ELSE /\ Held(i).conf = "Untracked" => conf[i] = found.conf[i]
         /\ Held(i).conf = "CreatedByUs" => found.conf[i] = "absent"
         /\ Held(i).conf = "Preexisting" =>
               \/ Held(i).confBackup = {} /\ conf[i] = found.conf[i]
               \/ Held(i).confBackup = {found.conf[i]} /\ found.conf[i] \in confCopies[i]

\* A unit that came up nowhere is about to be removed.
Stuck(i) == Busy(i) /\ pc = "undo" /\ idx = UnitStep

UnitLeft(i) ==
    IF UnitStep \notin Done(i)
    THEN enabled[i] = found.enabled[i] /\ (found.unit[i] = "absent" => unit[i] = "absent" /\ ~up[i])
    ELSE /\ IF Held(i).enabled = "CreatedByUs" THEN ~found.enabled[i] ELSE enabled[i] = found.enabled[i]
         /\ found.unit[i] = "absent" =>
               /\ Held(i).unit = "CreatedByUs" \/ unit[i] = "absent"
               /\ Held(i).active = "CreatedByUs" \/ (Stuck(i) /\ ~up[i])

\* The script and the link, and which directories the record takes for theirs.
ScriptLeft(i, u) ==
    IF ScriptStep \notin Done(i) \/ UserOf(i) # u
    THEN script[u][i] = found.script[u][i] /\ link[u][i] = found.link[u][i]
    ELSE /\ Held(i).script = "Untracked" => script[u][i] = found.script[u][i]
         /\ Held(i).script = "CreatedByUs" => found.script[u][i] = "absent"
         /\ Held(i).script = "Preexisting" =>
               \/ Held(i).scriptBackup = {} /\ script[u][i] = found.script[u][i]
               \/ Held(i).scriptBackup = {found.script[u][i]} /\ found.script[u][i] \in scriptCopies[u][i]
         /\ IF Held(i).link = "CreatedByUs" THEN found.link[u][i] = "absent"
            ELSE link[u][i] = found.link[u][i]
         /\ \A d \in Dir : found.dirs[u][d] = "theirs" => d \in Held(i).existed

DirsLeft ==
    \A u \in Admin, d \in Dir :
       dirs[u][d] = found.dirs[u][d] \/ (dirs[u][d] = "ours" /\ found.dirs[u][d] = "absent")

\* The line in an administrator's .bashrc is that of one instance, whose record
\* tells what the file was, as long as the administrator wrote nothing in it.
Wrote(i, u) == BashrcStep \in Done(i) /\ UserOf(i) = u /\ Held(i).line = "CreatedByUs"

LineOf(i, u) ==
    /\ "path" \notin found.bashrc[u].lines
    /\ bashrc[u] = [there |-> TRUE, lines |-> found.bashrc[u].lines \cup {"path"}]
    /\ Held(i).bashrcExisted = found.bashrc[u].there
    /\ Held(i).backup \subseteq {found.bashrc[u].lines}
    /\ \A j \in Instance \ {i} : ~Wrote(j, u)

LinesLeft(u) ==
    "later" \notin typed[u] =>
       /\ (\A i \in Instance : ~Wrote(i, u)) => bashrc[u] = found.bashrc[u]
       /\ \A i \in Instance : Wrote(i, u) => LineOf(i, u)

AllLeft ==
    /\ DirsLeft
    /\ \A i \in Instance : ConfLeft(i) /\ UnitLeft(i)
    /\ \A i \in Instance : \A u \in Admin : ScriptLeft(i, u)
    /\ \A u \in Admin : LinesLeft(u)

\* What an installation relies on before the step it is at.
Ready ==
    /\ pc \in {"snapshot", "run"} =>
          /\ idx <= ConfigStep => snap.confBackup = {}
          /\ idx <= ScriptStep => snap.scriptBackup = {}
          /\ idx <= BashrcStep => snap.backup = {}
    /\ pc = "run" /\ idx = ConfigStep => snap.conf = Verdict(conf[who] # "absent")
    /\ pc = "run" /\ idx = UnitStep =>
          /\ snap.enabled = Verdict(enabled[who])
          /\ found.unit[who] = "absent" => snap.unit = "Untracked" /\ snap.active = "Untracked"
    /\ pc = "run" /\ idx = ScriptStep =>
          /\ snap.script = Verdict(script[sudoUser][who] # "absent")
          /\ snap.link = Verdict(link[sudoUser][who] # "absent")
          /\ snap.existed = Existing(sudoUser)
    /\ pc = "run" /\ idx = BashrcStep =>
          /\ snap.line = Verdict("path" \in bashrc[sudoUser].lines)
          /\ "later" \notin typed[sudoUser] => snap.bashrcExisted = bashrc[sudoUser].there

RestInv == TypeInv /\ FoundOnce /\ (faults = 0 => Orderly /\ AllLeft /\ Ready)

\* What i holds of each step is what it held.
ConfAlike(i) ==
    /\ 1 \in Done(i)' <=> 1 \in Done(i)
    /\ 1 \in Done(i) => Held(i)'.conf = Held(i).conf /\ Held(i)'.confBackup = Held(i).confBackup

UnitAlike(i) ==
    /\ 2 \in Done(i)' <=> 2 \in Done(i)
    /\ 2 \in Done(i) => /\ Held(i)'.unit = Held(i).unit /\ Held(i)'.enabled = Held(i).enabled
                        /\ Held(i)'.active = Held(i).active

ScriptAlike(i) ==
    /\ 3 \in Done(i)' <=> 3 \in Done(i)
    /\ 3 \in Done(i) => /\ Held(i)'.script = Held(i).script /\ Held(i)'.scriptBackup = Held(i).scriptBackup
                        /\ Held(i)'.link = Held(i).link /\ Held(i)'.existed = Held(i).existed
                        /\ UserOf(i)' = UserOf(i)

LineAlike(i) ==
    /\ 4 \in Done(i)' <=> 4 \in Done(i)
    /\ 4 \in Done(i) => /\ Held(i)'.line = Held(i).line /\ Held(i)'.bashrcExisted = Held(i).bashrcExisted
                        /\ Held(i)'.backup = Held(i).backup /\ UserOf(i)' = UserOf(i)

Alike(i) == ConfAlike(i) /\ UnitAlike(i) /\ ScriptAlike(i) /\ LineAlike(i)

LEMMA RetainsAlike ==
    ASSUME NEW i, Retains(i, Done(i))
    PROVE  Alike(i)
  BY FieldsAre DEF Retains, Alike, ConfAlike, UnitAlike, ScriptAlike, LineAlike

\* An undone step is forgotten, and the others are not.
LEMMA ForgetsAlike ==
    ASSUME NEW i, NEW k \in Steps, Retains(i, Done(i) \ {k})
    PROVE  /\ k \notin Done(i)'
           /\ k # 1 => ConfAlike(i)
           /\ k # 2 => UnitAlike(i)
           /\ k # 3 => ScriptAlike(i)
           /\ k # 4 => LineAlike(i)
  <1>1. /\ k \notin Done(i)' /\ Done(i)' = Done(i) \ {k}
        /\ \A l \in Done(i)' : UserOf(i)' = UserOf(i) /\ \A f \in Fields(l) : Held(i)'[f] = Held(i)[f]
    BY DEF Retains
  <1>2. k # 1 => ConfAlike(i)
    BY <1>1, FieldsAre DEF ConfAlike
  <1>3. k # 2 => UnitAlike(i)
    BY <1>1, FieldsAre DEF UnitAlike
  <1>4. k # 3 => ScriptAlike(i)
    BY <1>1, FieldsAre DEF ScriptAlike
  <1>5. k # 4 => LineAlike(i)
    BY <1>1, FieldsAre DEF LineAlike
  <1>6. QED  BY <1>1, <1>2, <1>3, <1>4, <1>5

\* A step that ran changes what its own snapshot says, and only that.
LEMMA JoinsAlike ==
    ASSUME NEW w \in Instance, Joins(w)
    PROVE  /\ \A i \in Instance \ {w} : Alike(i)
           /\ idx # 1 /\ snap'.conf = snap.conf /\ snap'.confBackup = snap.confBackup => ConfAlike(w)
           /\ idx # 2 /\ snap'.unit = snap.unit /\ snap'.enabled = snap.enabled /\ snap'.active = snap.active
                => UnitAlike(w)
           /\ idx # 3 /\ snap'.script = snap.script /\ snap'.scriptBackup = snap.scriptBackup
                /\ snap'.link = snap.link /\ snap'.existed = snap.existed => ScriptAlike(w)
           /\ idx # 4 /\ snap'.line = snap.line /\ snap'.bashrcExisted = snap.bashrcExisted
                /\ snap'.backup = snap.backup => LineAlike(w)
  <1>1. \A i \in Instance \ {w} : Alike(i)
    BY RetainsAlike DEF Joins
  <1>2. /\ Done(w)' = Done(w) \cup {idx} /\ Held(w) = snap /\ Held(w)' = snap'
        /\ UserOf(w)' = UserOf(w)
    BY DEF Joins
  <1>3. QED
    BY <1>1, <1>2 DEF ConfAlike, UnitAlike, ScriptAlike, LineAlike

\* Nobody says anything new and nothing is touched.
LEMMA ConfStays ==
    ASSUME NEW i \in Instance, ConfLeft(i), ConfAlike(i), UNCHANGED found,
           conf'[i] = conf[i], confCopies'[i] = confCopies[i]
    PROVE  ConfLeft(i)'
  BY DEF ConfLeft, ConfAlike

LEMMA UnitStays ==
    ASSUME NEW i \in Instance, UnitLeft(i), UnitAlike(i), UNCHANGED found, Stuck(i) => Stuck(i)',
           enabled'[i] = enabled[i], unit'[i] = unit[i],
           up'[i] => up[i] \/ (unit[i] # "absent" /\ ~Busy(i))
    PROVE  UnitLeft(i)'
  <1>1. CASE UnitStep \notin Done(i)
    BY <1>1 DEF UnitLeft, UnitAlike
  <1>2. CASE UnitStep \in Done(i)
    <2>1. /\ UnitStep \in Done(i)' /\ Held(i)'.unit = Held(i).unit /\ Held(i)'.enabled = Held(i).enabled
          /\ Held(i)'.active = Held(i).active
      BY <1>2 DEF UnitAlike
    <2>2. Stuck(i) /\ ~up[i] => Stuck(i)' /\ ~up'[i]
      BY DEF Stuck
    <2>3. QED  BY <1>2, <2>1, <2>2 DEF UnitLeft
  <1>3. QED  BY <1>1, <1>2

LEMMA ScriptStays ==
    ASSUME NEW i \in Instance, NEW u \in Admin, ScriptLeft(i, u), ScriptAlike(i), UNCHANGED found,
           script'[u][i] = script[u][i], link'[u][i] = link[u][i],
           scriptCopies'[u][i] = scriptCopies[u][i]
    PROVE  ScriptLeft(i, u)'
  BY DEF ScriptLeft, ScriptAlike

LEMMA LinesStay ==
    ASSUME NEW u \in Admin, LinesLeft(u), \A i \in Instance : LineAlike(i), UNCHANGED found,
           typed[u] \subseteq typed'[u], "later" \notin typed'[u] => bashrc'[u] = bashrc[u]
    PROVE  LinesLeft(u)'
  <1> SUFFICES ASSUME "later" \notin typed'[u]  PROVE LinesLeft(u)'
    BY DEF LinesLeft
  <1>1. /\ bashrc'[u] = bashrc[u]
        /\ (\A i \in Instance : ~Wrote(i, u)) => bashrc[u] = found.bashrc[u]
        /\ \A i \in Instance : Wrote(i, u) => LineOf(i, u)
    BY DEF LinesLeft
  <1>2. \A i \in Instance : Wrote(i, u)' <=> Wrote(i, u)
    BY DEF Wrote, LineAlike
  <1>3. ASSUME NEW i \in Instance, Wrote(i, u)  PROVE LineOf(i, u)'
    <2>1. Held(i)'.bashrcExisted = Held(i).bashrcExisted /\ Held(i)'.backup = Held(i).backup
      BY <1>3 DEF Wrote, LineAlike
    <2>2. LineOf(i, u)
      BY <1>1, <1>3
    <2>3. QED  BY <1>1, <1>2, <2>1, <2>2 DEF LineOf
  <1>4. QED  BY <1>1, <1>2, <1>3 DEF LinesLeft

LEMMA DirsStay ==
    ASSUME DirsLeft, UNCHANGED <<dirs, found>>  PROVE DirsLeft'
  BY DEF DirsLeft

\* Between the steps.
LEMMA AllLeftStays ==
    ASSUME AllLeft, AllRetain, UNCHANGED <<config, unit, enabled, helper, found>>,
           \A i \in Instance : Stuck(i) => Stuck(i)',
           \A i \in Instance : up'[i] => up[i] \/ (unit[i] # "absent" /\ ~Busy(i)),
           \A u \in Admin : typed[u] \subseteq typed'[u] /\ ("later" \notin typed'[u] => bashrc'[u] = bashrc[u])
    PROVE  AllLeft'
  <1>1. \A i \in Instance : Alike(i)
    BY RetainsAlike DEF AllRetain
  <1>2. UNCHANGED <<conf, confCopies, unit, enabled, script, scriptCopies, link, dirs>>
    BY DEF config, helper
  <1>3. \A i \in Instance : ConfLeft(i)' /\ UnitLeft(i)'
    BY <1>1, <1>2, ConfStays, UnitStays DEF Alike, AllLeft
  <1>4. \A i \in Instance : \A u \in Admin : ScriptLeft(i, u)'
    BY <1>1, <1>2, ScriptStays DEF Alike, AllLeft
  <1>5. \A u \in Admin : LinesLeft(u)'
    BY <1>1, LinesStay DEF Alike, AllLeft
  <1>6. DirsLeft'
    BY <1>2, DirsStay DEF AllLeft
  <1>7. QED  BY <1>3, <1>4, <1>5, <1>6 DEF AllLeft

-----------------------------------------------------------------------------
(* Every step.                                                             *)

\* What is known of the machine.
LEMMA Machine ==
    ASSUME TypeInv, FoundOnce
    PROVE  /\ conf \in [Instance -> Whose] /\ confCopies \in [Instance -> Copies]
           /\ unit \in [Instance -> Whose] /\ enabled \in [Instance -> BOOLEAN] /\ up \in [Instance -> BOOLEAN]
           /\ script \in [Admin -> [Instance -> Whose]] /\ link \in [Admin -> [Instance -> Whose]]
           /\ scriptCopies \in [Admin -> [Instance -> Copies]] /\ dirs \in [Admin -> [Dir -> Whose]]
           /\ bashrc \in [Admin -> Bashrc] /\ who \in Instance /\ sudoUser \in Admin /\ snap \in Snapshots
           /\ \A i \in Instance :
                 /\ found.conf[i] \in Before /\ found.unit[i] \in Before /\ found.enabled[i] \in BOOLEAN
                 /\ \A u \in Admin : found.script[u][i] \in Before /\ found.link[u][i] \in Before
           /\ \A u \in Admin : \A d \in Dir : found.dirs[u][d] \in Before
           /\ \A u \in Admin : /\ found.bashrc[u] \in Bashrc
                               /\ ~found.bashrc[u].there => found.bashrc[u].lines = {}
  BY StepTypes DEF TypeInv, WorldType, FoundOnce

\* The steps the process is not at.
LEMMA OthersStay ==
    ASSUME AllLeft, NEW w \in Instance, \A i \in Instance \ {w} : Alike(i), UNCHANGED found,
           \A i \in Instance \ {w} : ~Stuck(i)
    PROVE  /\ \A i \in Instance \ {w} : conf'[i] = conf[i] /\ confCopies'[i] = confCopies[i] => ConfLeft(i)'
           /\ \A i \in Instance \ {w} :
                 enabled'[i] = enabled[i] /\ unit'[i] = unit[i] /\ (up'[i] => up[i]) => UnitLeft(i)'
           /\ \A i \in Instance \ {w} : \A u \in Admin :
                 script'[u][i] = script[u][i] /\ link'[u][i] = link[u][i] /\ scriptCopies'[u][i] = scriptCopies[u][i]
                    => ScriptLeft(i, u)'
  <1>1. ASSUME NEW i \in Instance \ {w}, conf'[i] = conf[i], confCopies'[i] = confCopies[i]
        PROVE  ConfLeft(i)'
    BY <1>1, ConfStays DEF AllLeft, Alike
  <1>2. ASSUME NEW i \in Instance \ {w}, enabled'[i] = enabled[i], unit'[i] = unit[i], up'[i] => up[i]
        PROVE  UnitLeft(i)'
    BY <1>2, UnitStays DEF AllLeft, Alike
  <1>3. ASSUME NEW i \in Instance \ {w}, NEW u \in Admin, script'[u][i] = script[u][i],
               link'[u][i] = link[u][i], scriptCopies'[u][i] = scriptCopies[u][i]
        PROVE  ScriptLeft(i, u)'
    BY <1>3, ScriptStays DEF AllLeft, Alike
  <1>4. QED  BY <1>1, <1>2, <1>3

\* What changes in a step that is about one of the four.
ConfOnly(w) ==
    /\ UNCHANGED <<service, helper, shell, found>>
    /\ \A i \in Instance \ {w} : conf'[i] = conf[i] /\ confCopies'[i] = confCopies[i]

UnitOnly(w) ==
    /\ UNCHANGED <<config, helper, shell, found>>
    /\ \A i \in Instance \ {w} : unit'[i] = unit[i] /\ enabled'[i] = enabled[i] /\ up'[i] = up[i]

ScriptOnly(w, u) ==
    /\ UNCHANGED <<config, service, shell, found>>
    /\ \A v \in Admin : \A i \in Instance :
          v # u \/ i # w =>
             /\ script'[v][i] = script[v][i] /\ link'[v][i] = link[v][i]
             /\ scriptCopies'[v][i] = scriptCopies[v][i]

LineOnly(u) ==
    /\ UNCHANGED <<config, service, helper, typed, found>>
    /\ \A v \in Admin \ {u} : bashrc'[v] = bashrc[v]

LEMMA ConfStep ==
    ASSUME AllLeft, NEW w \in Instance, w = who, ConfOnly(w), \A i \in Instance \ {w} : Alike(i),
           UnitAlike(w), ScriptAlike(w), LineAlike(w), ConfLeft(w)', ~Stuck(w)
    PROVE  AllLeft'
  <1>1. UNCHANGED <<unit, enabled, up, script, scriptCopies, link, dirs, bashrc, typed, found>>
    BY DEF ConfOnly, service, helper, shell
  <1>2. \A i \in Instance \ {w} : ~Stuck(i)
    BY DEF Stuck, Busy
  <1>3. \A i \in Instance : ConfLeft(i)'
    BY <1>1, <1>2, OthersStay DEF ConfOnly
  <1>4. \A i \in Instance : UnitLeft(i)'
    BY <1>1, <1>2, UnitStays DEF AllLeft, Alike
  <1>5. \A i \in Instance : \A u \in Admin : ScriptLeft(i, u)'
    BY <1>1, ScriptStays DEF AllLeft, Alike
  <1>6. \A u \in Admin : LinesLeft(u)'
    BY <1>1, LinesStay DEF AllLeft, Alike
  <1>7. QED  BY <1>1, <1>3, <1>4, <1>5, <1>6, DirsStay DEF AllLeft

LEMMA UnitStepLeft ==
    ASSUME AllLeft, NEW w \in Instance, w = who, UnitOnly(w), \A i \in Instance \ {w} : Alike(i),
           ConfAlike(w), ScriptAlike(w), LineAlike(w), UnitLeft(w)'
    PROVE  AllLeft'
  <1>1. UNCHANGED <<conf, confCopies, script, scriptCopies, link, dirs, bashrc, typed, found>>
    BY DEF UnitOnly, config, helper, shell
  <1>2. \A i \in Instance \ {w} : ~Stuck(i)
    BY DEF Stuck, Busy
  <1>3. \A i \in Instance : ConfLeft(i)'
    BY <1>1, ConfStays DEF AllLeft, Alike
  <1>4. \A i \in Instance : UnitLeft(i)'
    BY <1>1, <1>2, OthersStay DEF UnitOnly
  <1>5. \A i \in Instance : \A u \in Admin : ScriptLeft(i, u)'
    BY <1>1, ScriptStays DEF AllLeft, Alike
  <1>6. \A u \in Admin : LinesLeft(u)'
    BY <1>1, LinesStay DEF AllLeft, Alike
  <1>7. QED  BY <1>1, <1>3, <1>4, <1>5, <1>6, DirsStay DEF AllLeft

LEMMA ScriptStepLeft ==
    ASSUME AllLeft, NEW w \in Instance, w = who, NEW u \in Admin, ScriptOnly(w, u),
           \A i \in Instance \ {w} : Alike(i), ConfAlike(w), UnitAlike(w), LineAlike(w), ~Stuck(w),
           \A v \in Admin : ScriptLeft(w, v)', DirsLeft'
    PROVE  AllLeft'
  <1>1. UNCHANGED <<conf, confCopies, unit, enabled, up, bashrc, typed, found>>
    BY DEF ScriptOnly, config, service, shell
  <1>2. \A i \in Instance \ {w} : ~Stuck(i)
    BY DEF Stuck, Busy
  <1>3. \A i \in Instance : ConfLeft(i)'
    BY <1>1, ConfStays DEF AllLeft, Alike
  <1>4. \A i \in Instance : UnitLeft(i)'
    BY <1>1, <1>2, UnitStays DEF AllLeft, Alike
  <1>5. \A i \in Instance : \A v \in Admin : ScriptLeft(i, v)'
    BY <1>1, <1>2, OthersStay DEF ScriptOnly
  <1>6. \A v \in Admin : LinesLeft(v)'
    BY <1>1, LinesStay DEF AllLeft, Alike
  <1>7. QED  BY <1>3, <1>4, <1>5, <1>6 DEF AllLeft

LEMMA LineStepLeft ==
    ASSUME AllLeft, NEW w \in Instance, w = who, NEW u \in Admin, LineOnly(u),
           \A i \in Instance \ {w} : Alike(i), ConfAlike(w), UnitAlike(w), ScriptAlike(w), ~Stuck(w),
           \A v \in Admin : LinesLeft(v)'
    PROVE  AllLeft'
  <1>1. UNCHANGED <<conf, confCopies, unit, enabled, up, script, scriptCopies, link, dirs, found>>
    BY DEF LineOnly, config, service, helper
  <1>2. \A i \in Instance \ {w} : ~Stuck(i)
    BY DEF Stuck, Busy
  <1>3. \A i \in Instance : ConfLeft(i)'
    BY <1>1, ConfStays DEF AllLeft, Alike
  <1>4. \A i \in Instance : UnitLeft(i)'
    BY <1>1, <1>2, UnitStays DEF AllLeft, Alike
  <1>5. \A i \in Instance : \A v \in Admin : ScriptLeft(i, v)'
    BY <1>1, ScriptStays DEF AllLeft, Alike
  <1>7. QED  BY <1>1, <1>3, <1>4, <1>5, DirsStay DEF AllLeft

\* A run, however far it gets, and what its snapshot says then.
LEMMA ConfRan ==
    ASSUME RestInv, faults = 0, pc = "run", idx = ConfigStep, NEW w \in Instance, w = who, NEW far \in 0 .. 3,
           ConfigEffect(far), snap' = ConfigClaims(far), Joins(w)
    PROVE  AllLeft'
  <1>1. TypeInv /\ FoundOnce /\ AllLeft /\ Ready
    BY DEF RestInv
  <1>2. /\ conf \in [Instance -> Whose] /\ confCopies \in [Instance -> Copies] /\ snap \in Snapshots
        /\ found.conf[w] \in Before
    BY <1>1, Machine
  <1>3. /\ snap.conf = Verdict(conf[w] # "absent") /\ snap.confBackup = {}
        /\ ConfigStep \notin Done(w) /\ ConfigStep \in Done(w)' /\ Held(w)' = snap'
    BY <1>1 DEF Ready, Joins
  <1>4. conf[w] = found.conf[w]
    BY <1>1, <1>3 DEF AllLeft, ConfLeft
  <1>5. /\ snap'.conf = MadeIf(far >= 2, snap.conf)
        /\ snap'.confBackup = IF far >= 1 /\ snap.conf = "Preexisting" THEN {conf[w]} ELSE {}
        /\ \A f \in DOMAIN Default \ {"conf", "confBackup"} : snap'[f] = snap[f]
    BY <1>2, <1>3 DEF ConfigClaims, Snapshots, Default
  <1>6. ConfOnly(w)
    BY <1>2 DEF ConfOnly, ConfigEffect
  <1>7. /\ far >= 1 /\ snap.conf = "Preexisting" => conf[w] \in confCopies'[w]
        /\ ~(far >= 2) => conf'[w] = conf[w]
    BY <1>2 DEF ConfigEffect
  <1>8. ConfLeft(w)'
    <2>1. found'.conf = found.conf
      BY DEF ConfigEffect
    <2>2. CASE snap.conf = "Preexisting"
      <3>1. snap'.conf = "Preexisting"
        BY <1>5, <2>2 DEF MadeIf, Made
      <3>2. QED  BY <1>3, <1>4, <1>5, <1>7, <2>1, <2>2, <3>1 DEF ConfLeft
    <2>3. CASE snap.conf = "Untracked"
      <3>1. conf[w] = "absent" /\ snap'.conf = IF far >= 2 THEN "CreatedByUs" ELSE "Untracked"
        BY <1>3, <1>5, <2>3 DEF MadeIf, Made, Verdict
      <3>2. QED  BY <1>3, <1>4, <1>7, <2>1, <3>1 DEF ConfLeft
    <2>4. QED  BY <1>3, <2>2, <2>3 DEF Verdict
  <1>9. /\ \A i \in Instance \ {w} : Alike(i)
        /\ UnitAlike(w) /\ ScriptAlike(w) /\ LineAlike(w)
    BY <1>5, JoinsAlike DEF Default
  <1>10. QED
    BY <1>1, <1>6, <1>8, <1>9, ConfStep DEF Stuck

LEMMA UnitRan ==
    ASSUME RestInv, faults = 0, pc = "run", idx = UnitStep, NEW w \in Instance, w = who, NEW far \in 0 .. 3,
           UnitEffect(far), snap' = UnitClaims(far), Joins(w),
           far # 3 => pc' = "undo" /\ who' = who /\ idx' = idx
    PROVE  AllLeft'
  <1>1. TypeInv /\ FoundOnce /\ AllLeft /\ Ready
    BY DEF RestInv
  <1>2. /\ unit \in [Instance -> Whose] /\ enabled \in [Instance -> BOOLEAN] /\ up \in [Instance -> BOOLEAN]
        /\ snap \in Snapshots /\ found.enabled[w] \in BOOLEAN
    BY <1>1, Machine
  <1>3. /\ snap.enabled = Verdict(enabled[w])
        /\ found.unit[w] = "absent" => snap.unit = "Untracked" /\ snap.active = "Untracked"
        /\ UnitStep \notin Done(w) /\ UnitStep \in Done(w)' /\ Held(w)' = snap'
    BY <1>1 DEF Ready, Joins
  <1>4. enabled[w] = found.enabled[w] /\ (found.unit[w] = "absent" => unit[w] = "absent" /\ ~up[w])
    BY <1>1, <1>3 DEF AllLeft, UnitLeft
  <1>5. /\ snap'.unit = MadeIf(far >= 1, snap.unit) /\ snap'.enabled = MadeIf(far >= 2, snap.enabled)
        /\ snap'.active = MadeIf(far >= 2, snap.active)
        /\ \A f \in DOMAIN Default \ {"unit", "enabled", "active"} : snap'[f] = snap[f]
    BY <1>2 DEF UnitClaims, Snapshots, Default
  <1>6. UnitOnly(w)
    BY <1>2 DEF UnitOnly, UnitEffect
  <1>7. /\ ~(far >= 1) => unit'[w] = unit[w]
        /\ enabled'[w] = IF far >= 2 THEN TRUE ELSE enabled[w]
        /\ ~(far >= 2) => up'[w] = up[w]
    BY <1>2 DEF UnitEffect
  <1>8. UnitLeft(w)'
    <2>1. found'.unit = found.unit /\ found'.enabled = found.enabled
      BY DEF UnitEffect
    <2>2. IF snap'.enabled = "CreatedByUs" THEN ~found.enabled[w] ELSE enabled'[w] = found.enabled[w]
      <3>1. CASE enabled[w]
        <4>1. snap'.enabled = "Preexisting"
          BY <1>3, <1>5, <3>1 DEF MadeIf, Made, Verdict
        <4>2. QED  BY <1>2, <1>4, <1>7, <3>1, <4>1
      <3>2. CASE ~enabled[w]
        <4>1. snap'.enabled = IF far >= 2 THEN "CreatedByUs" ELSE "Untracked"
          BY <1>3, <1>5, <3>2 DEF MadeIf, Made, Verdict
        <4>2. QED  BY <1>2, <1>4, <1>7, <3>2, <4>1
      <3>3. QED  BY <3>1, <3>2
    <2>3. ASSUME found.unit[w] = "absent"
          PROVE  /\ snap'.unit = "CreatedByUs" \/ unit'[w] = "absent"
                 /\ snap'.active = "CreatedByUs" \/ (Stuck(w)' /\ ~up'[w])
      <3>1. /\ snap'.unit = IF far >= 1 THEN "CreatedByUs" ELSE "Untracked"
            /\ snap'.active = IF far >= 2 THEN "CreatedByUs" ELSE "Untracked"
        BY <1>3, <1>5, <2>3 DEF MadeIf, Made
      <3>2. ~(far >= 2) => Stuck(w)' /\ ~up'[w]
        <4>1. ~(far >= 2) => far # 3
          OBVIOUS
        <4>2. QED  BY <1>4, <1>7, <2>3, <4>1 DEF Stuck, Busy
      <3>3. QED  BY <1>4, <1>7, <2>3, <3>1, <3>2
    <2>4. QED  BY <1>3, <2>1, <2>2, <2>3 DEF UnitLeft
  <1>9. /\ \A i \in Instance \ {w} : Alike(i)
        /\ ConfAlike(w) /\ ScriptAlike(w) /\ LineAlike(w)
    BY <1>5, JoinsAlike DEF Default
  <1>10. QED
    BY <1>1, <1>6, <1>8, <1>9, UnitStepLeft

LEMMA ScriptRan ==
    ASSUME RestInv, faults = 0, pc = "run", idx = ScriptStep, NEW w \in Instance, w = who,
           NEW u \in Admin, u = sudoUser, NEW far \in 0 .. 3,
           ScriptEffect(far), snap' = ScriptClaims(far), Joins(w)
    PROVE  AllLeft'
  <1>1. TypeInv /\ FoundOnce /\ AllLeft /\ Ready
    BY DEF RestInv
  <1>2. /\ script \in [Admin -> [Instance -> Whose]] /\ link \in [Admin -> [Instance -> Whose]]
        /\ scriptCopies \in [Admin -> [Instance -> Copies]] /\ dirs \in [Admin -> [Dir -> Whose]]
        /\ snap \in Snapshots /\ found.script[u][w] \in Before /\ found.link[u][w] \in Before
        /\ \A v \in Admin : \A d \in Dir : found.dirs[v][d] \in Before
    BY <1>1, Machine
  <1>3. /\ snap.script = Verdict(script[u][w] # "absent") /\ snap.link = Verdict(link[u][w] # "absent")
        /\ snap.existed = Existing(u) /\ snap.scriptBackup = {}
        /\ ScriptStep \notin Done(w) /\ ScriptStep \in Done(w)' /\ Held(w)' = snap' /\ UserOf(w)' = u
    BY <1>1 DEF Ready, Joins
  <1>4. \A v \in Admin : script[v][w] = found.script[v][w] /\ link[v][w] = found.link[v][w]
    BY <1>1, <1>3 DEF AllLeft, ScriptLeft
  <1>5. /\ snap'.script = MadeIf(far >= 2, snap.script) /\ snap'.link = MadeIf(far = 3, snap.link)
        /\ snap'.scriptBackup = IF far >= 1 /\ snap.script = "Preexisting" THEN {script[u][w]} ELSE {}
        /\ snap'.existed = snap.existed
        /\ \A f \in DOMAIN Default \ {"script", "scriptBackup", "link"} : snap'[f] = snap[f]
    BY <1>2, <1>3 DEF ScriptClaims, ScriptSetAside, Snapshots, Default
  <1>6. ScriptOnly(w, u)
    BY <1>2 DEF ScriptOnly, ScriptEffect
  <1>7. /\ far >= 1 /\ snap.script = "Preexisting" => script[u][w] \in scriptCopies'[u][w]
        /\ ~(far >= 2) => script'[u][w] = script[u][w]
        /\ link'[u][w] = IF far = 3 /\ snap.link # "Preexisting" THEN "ours" ELSE link[u][w]
    BY <1>2, <1>3 DEF ScriptEffect, ScriptSetAside
  <1>8. /\ \A v \in Admin \ {u} : dirs'[v] = dirs[v]
        /\ \A d \in Dir : dirs'[u][d] = dirs[u][d] \/ (dirs'[u][d] = "ours" /\ dirs[u][d] = "absent")
    BY <1>2 DEF ScriptEffect
  <1>9. found' = found
    BY DEF ScriptEffect
  <1>10. DirsLeft'
    <2>1. \A v \in Admin : \A d \in Dir : dirs[v][d] = found.dirs[v][d] \/ (dirs[v][d] = "ours" /\ found.dirs[v][d] = "absent")
      BY <1>1 DEF AllLeft, DirsLeft
    <2>2. ASSUME NEW v \in Admin, NEW d \in Dir
          PROVE  dirs'[v][d] = found.dirs[v][d] \/ (dirs'[v][d] = "ours" /\ found.dirs[v][d] = "absent")
      <3>1. CASE v = u
        BY <1>8, <2>1, <3>1
      <3>2. CASE v # u
        BY <1>8, <2>1, <3>2
      <3>3. QED  BY <3>1, <3>2
    <2>3. QED  BY <1>9, <2>2 DEF DirsLeft
  <1>11. ScriptLeft(w, u)'
    <2>1. /\ snap'.script = "Untracked" => script'[u][w] = found.script[u][w]
          /\ snap'.script = "CreatedByUs" => found.script[u][w] = "absent"
          /\ snap'.script = "Preexisting" =>
                \/ snap'.scriptBackup = {} /\ script'[u][w] = found.script[u][w]
                \/ snap'.scriptBackup = {found.script[u][w]} /\ found.script[u][w] \in scriptCopies'[u][w]
      <3>1. CASE snap.script = "Preexisting"
        <4>1. snap'.script = "Preexisting"
          BY <1>5, <3>1 DEF MadeIf, Made
        <4>2. QED  BY <1>4, <1>5, <1>7, <3>1, <4>1
      <3>2. CASE snap.script = "Untracked"
        <4>1. script[u][w] = "absent" /\ snap'.script = IF far >= 2 THEN "CreatedByUs" ELSE "Untracked"
          BY <1>3, <1>5, <3>2 DEF MadeIf, Made, Verdict
        <4>2. QED  BY <1>4, <1>7, <4>1
      <3>3. QED  BY <1>3, <3>1, <3>2 DEF Verdict
    <2>2. IF snap'.link = "CreatedByUs" THEN found.link[u][w] = "absent" ELSE link'[u][w] = found.link[u][w]
      <3>1. CASE snap.link = "Preexisting"
        <4>1. snap'.link = "Preexisting"
          BY <1>5, <3>1 DEF MadeIf, Made
        <4>2. QED  BY <1>4, <1>7, <3>1, <4>1
      <3>2. CASE snap.link = "Untracked"
        <4>1. link[u][w] = "absent" /\ snap'.link = IF far = 3 THEN "CreatedByUs" ELSE "Untracked"
          BY <1>3, <1>5, <3>2 DEF MadeIf, Made, Verdict
        <4>2. QED  BY <1>4, <1>7, <3>2, <4>1
      <3>3. QED  BY <1>3, <3>1, <3>2 DEF Verdict
    <2>3. \A d \in Dir : found.dirs[u][d] = "theirs" => d \in snap'.existed
      <3>1. \A d \in Dir : found.dirs[u][d] = "theirs" => dirs[u][d] = "theirs"
        BY <1>1 DEF AllLeft, DirsLeft
      <3>2. QED  BY <1>3, <1>5, <3>1 DEF Existing
    <2>4. QED  BY <1>3, <1>9, <2>1, <2>2, <2>3 DEF ScriptLeft
  <1>12. \A v \in Admin \ {u} : ScriptLeft(w, v)'
    BY <1>3, <1>4, <1>6, <1>9 DEF ScriptOnly, ScriptLeft
  <1>13. /\ \A i \in Instance \ {w} : Alike(i)
         /\ ConfAlike(w) /\ UnitAlike(w) /\ LineAlike(w)
    BY <1>5, JoinsAlike DEF Default
  <1>14. \A v \in Admin : ScriptLeft(w, v)'
    BY <1>11, <1>12
  <1>15. QED
    BY <1>1, <1>6, <1>10, <1>13, <1>14, ScriptStepLeft DEF Stuck

\* The lines of the administrators who are not the process's.
LEMMA OtherLines ==
    ASSUME AllLeft, NEW w \in Instance, NEW u \in Admin, \A i \in Instance \ {w} : Alike(i),
           LineOnly(u), \A v \in Admin \ {u} : ~Wrote(w, v) /\ ~Wrote(w, v)'
    PROVE  \A v \in Admin \ {u} : LinesLeft(v)'
  <1> SUFFICES ASSUME NEW v \in Admin \ {u}, "later" \notin typed'[v]  PROVE LinesLeft(v)'
    BY DEF LinesLeft
  <1>1. bashrc'[v] = bashrc[v] /\ found' = found /\ "later" \notin typed[v]
    BY DEF LineOnly
  <1>2. /\ (\A i \in Instance : ~Wrote(i, v)) => bashrc[v] = found.bashrc[v]
        /\ \A i \in Instance : Wrote(i, v) => LineOf(i, v)
    BY <1>1 DEF AllLeft, LinesLeft
  <1>3. \A i \in Instance : Wrote(i, v)' <=> Wrote(i, v)
    BY DEF Wrote, Alike, LineAlike
  <1>4. ASSUME NEW i \in Instance, Wrote(i, v)  PROVE LineOf(i, v)'
    <2>1. i # w
      BY <1>4
    <2>2. Held(i)'.bashrcExisted = Held(i).bashrcExisted /\ Held(i)'.backup = Held(i).backup
      BY <1>4, <2>1 DEF Wrote, Alike, LineAlike
    <2>3. LineOf(i, v)
      BY <1>2, <1>4
    <2>4. QED  BY <1>1, <1>3, <2>2, <2>3 DEF LineOf
  <1>5. QED  BY <1>1, <1>2, <1>3, <1>4 DEF LinesLeft

LEMMA LineRan ==
    ASSUME RestInv, faults = 0, pc = "run", idx = BashrcStep, NEW w \in Instance, w = who,
           NEW u \in Admin, u = sudoUser, NEW far \in 0 .. 3,
           BashrcEffect(far), snap' = BashrcClaims(far), Joins(w)
    PROVE  AllLeft'
  <1>1. TypeInv /\ FoundOnce /\ AllLeft /\ Ready
    BY DEF RestInv
  <1>2. /\ bashrc \in [Admin -> Bashrc] /\ snap \in Snapshots /\ found.bashrc[u] \in Bashrc
    BY <1>1, Machine
  <1>3. /\ snap.line = Verdict("path" \in bashrc[u].lines) /\ snap.backup = {}
        /\ "later" \notin typed[u] => snap.bashrcExisted = bashrc[u].there
        /\ BashrcStep \notin Done(w) /\ BashrcStep \in Done(w)' /\ Held(w)' = snap' /\ UserOf(w)' = u
    BY <1>1 DEF Ready, Joins
  <1>4. /\ \A v \in Admin : ~Wrote(w, v)
        /\ \A v \in Admin \ {u} : ~Wrote(w, v)'
        /\ \A i \in Instance \ {w} : Wrote(i, u)' <=> Wrote(i, u)
    <2>1. \A i \in Instance \ {w} : LineAlike(i)
      BY JoinsAlike DEF Alike
    <2>2. QED  BY <1>3, <2>1 DEF Wrote, LineAlike
  <1>5. /\ snap'.line = MadeIf(far >= 2, snap.line) /\ snap'.bashrcExisted = snap.bashrcExisted
        /\ snap'.backup = IF far >= 1 /\ snap.line = "Untracked" /\ snap.bashrcExisted
                          THEN {bashrc[u].lines} ELSE {}
        /\ \A f \in DOMAIN Default \ {"line", "backup"} : snap'[f] = snap[f]
    BY <1>2, <1>3 DEF BashrcClaims, Snapshots, Default
  <1>6. LineOnly(u) /\ found' = found /\ typed' = typed
    BY <1>2 DEF LineOnly, BashrcEffect
  <1>7. bashrc'[u] = IF far >= 2 /\ snap.line = "Untracked"
                     THEN [there |-> TRUE, lines |-> bashrc[u].lines \cup {"path"}] ELSE bashrc[u]
    BY <1>2 DEF BashrcEffect
  <1>8. /\ \A i \in Instance \ {w} : Alike(i)
        /\ ConfAlike(w) /\ UnitAlike(w) /\ ScriptAlike(w)
    BY <1>5, JoinsAlike DEF Default
  <1>9. LinesLeft(u)'
    <2> SUFFICES ASSUME "later" \notin typed[u]  PROVE LinesLeft(u)'
      BY <1>6 DEF LinesLeft
    <2>1. /\ (\A i \in Instance : ~Wrote(i, u)) => bashrc[u] = found.bashrc[u]
          /\ \A i \in Instance : Wrote(i, u) => LineOf(i, u)
      BY <1>1 DEF AllLeft, LinesLeft
    <2>2. CASE snap.line = "Untracked" /\ far >= 2
      <3>1. "path" \notin bashrc[u].lines
        BY <1>3, <2>2 DEF Verdict
      <3>2. \A i \in Instance : ~Wrote(i, u)
        BY <2>1, <3>1 DEF LineOf
      <3>3. bashrc[u] = found.bashrc[u]
        BY <2>1, <3>2
      <3>4. snap'.line = "CreatedByUs"
        BY <1>5, <2>2 DEF MadeIf, Made
      <3>5. \A i \in Instance : Wrote(i, u)' => i = w
        BY <1>4, <3>2
      <3>6. LineOf(w, u)'
        <4>1. /\ "path" \notin found.bashrc[u].lines
              /\ bashrc'[u] = [there |-> TRUE, lines |-> found.bashrc[u].lines \cup {"path"}]
          BY <1>7, <2>2, <3>1, <3>3
        <4>2. snap'.bashrcExisted = found.bashrc[u].there
          BY <1>3, <1>5, <3>3
        <4>3. snap'.backup \subseteq {found.bashrc[u].lines}
          BY <1>5, <3>3
        <4>4. QED  BY <1>3, <1>6, <3>5, <4>1, <4>2, <4>3 DEF LineOf
      <3>7. Wrote(w, u)'
        BY <1>3, <3>4 DEF Wrote
      <3>8. QED  BY <3>5, <3>6, <3>7 DEF LinesLeft
    <2>3. CASE ~(snap.line = "Untracked" /\ far >= 2)
      <3>1. snap'.line # "CreatedByUs" /\ bashrc'[u] = bashrc[u]
        BY <1>3, <1>5, <1>7, <2>3 DEF MadeIf, Made, Verdict
      <3>2. ~Wrote(w, u)'
        BY <1>3, <3>1 DEF Wrote
      <3>3. \A i \in Instance : Wrote(i, u)' <=> Wrote(i, u)
        BY <1>4, <3>2
      <3>4. ASSUME NEW i \in Instance, Wrote(i, u)  PROVE LineOf(i, u)'
        <4>1. i # w
          BY <1>4, <3>4
        <4>2. Held(i)'.bashrcExisted = Held(i).bashrcExisted /\ Held(i)'.backup = Held(i).backup
          BY <1>8, <3>4, <4>1 DEF Wrote, Alike, LineAlike
        <4>3. LineOf(i, u)
          BY <2>1, <3>4
        <4>4. QED  BY <1>6, <3>1, <3>3, <4>2, <4>3 DEF LineOf
      <3>5. QED  BY <1>6, <2>1, <3>1, <3>3, <3>4 DEF LinesLeft
    <2>4. QED  BY <2>2, <2>3
  <1>10. \A v \in Admin \ {u} : LinesLeft(v)'
    BY <1>1, <1>4, <1>6, <1>8, OtherLines
  <1>11. \A v \in Admin : LinesLeft(v)'
    BY <1>9, <1>10
  <1>12. QED
    BY <1>1, <1>6, <1>8, <1>11, LineStepLeft DEF Stuck

\* Without a fault an undo does all of it, and its step is forgotten.
LEMMA UndoAlike ==
    ASSUME RestInv, faults = 0, NEW w \in Instance, w = who, pc = "undo", Undone
    PROVE  /\ \A i \in Instance \ {w} : Alike(i)
           /\ idx \in Done(w) /\ Held(w) = snap /\ UserOf(w) = sudoUser /\ idx \notin Done(w)'
           /\ idx # 1 => ConfAlike(w)
           /\ idx # 2 => UnitAlike(w)
           /\ idx # 3 => ScriptAlike(w)
           /\ idx # 4 => LineAlike(w)
  <1>1. TypeOK /\ Orderly /\ idx \in Steps
    BY StepTypes DEF RestInv, TypeInv, Steps
  <1>2. /\ Retains(w, Done(w) \ {idx})
        /\ \A i \in Instance \ {w} : Retains(i, Done(i))
        /\ idx \in Done(w) /\ Held(w) = snap /\ UserOf(w) = sudoUser
    BY <1>1, UndoneView
  <1>3. QED  BY <1>1, <1>2, RetainsAlike, ForgetsAlike

LEMMA ConfUndone ==
    ASSUME RestInv, faults = 0, faults' = 0, NEW w \in Instance, w = who, UndoConfig
    PROVE  AllLeft'
  <1>1. TypeInv /\ TypeOK /\ FoundOnce /\ AllLeft /\ pc = "undo" /\ idx = ConfigStep /\ Undone
    BY DEF RestInv, TypeInv, UndoConfig, Undoing
  <1>2. /\ conf \in [Instance -> Whose] /\ confCopies \in [Instance -> Copies] /\ snap \in Snapshots
        /\ found.conf[w] \in Before
    BY <1>1, Machine
  <1>3. PICK done \in Parts({"file"}) :
          /\ IF "file" \in done /\ snap.conf = "CreatedByUs"
             THEN conf' = [conf EXCEPT ![who] = "absent"] /\ UNCHANGED confCopies
             ELSE IF "file" \in done /\ snap.conf = "Preexisting" /\ snap.confBackup \cap confCopies[who] # {}
             THEN \E c \in snap.confBackup \cap confCopies[who] :
                     /\ conf' = [conf EXCEPT ![who] = c]
                     /\ confCopies' = [confCopies EXCEPT ![who] = @ \ {c}]
             ELSE UNCHANGED config
          /\ Cost(done, {"file"})
    BY DEF UndoConfig
  <1>4. "file" \in done
    BY <1>1, <1>3, SmallSets, AllDone
  <1>5. /\ \A i \in Instance \ {w} : Alike(i)
        /\ ConfigStep \in Done(w) /\ Held(w) = snap /\ ConfigStep \notin Done(w)'
        /\ UnitAlike(w) /\ ScriptAlike(w) /\ LineAlike(w)
    BY <1>1, UndoAlike
  <1>6. /\ snap.conf = "Untracked" => conf[w] = found.conf[w]
        /\ snap.conf = "CreatedByUs" => found.conf[w] = "absent"
        /\ snap.conf = "Preexisting" =>
              \/ snap.confBackup = {} /\ conf[w] = found.conf[w]
              \/ snap.confBackup = {found.conf[w]} /\ found.conf[w] \in confCopies[w]
        /\ snap.conf \in {"Untracked", "CreatedByUs", "Preexisting"}
    BY <1>1, <1>2, <1>5 DEF AllLeft, ConfLeft, Snapshots, PreState
  <1>7. /\ conf'[w] = found.conf[w]
        /\ \A i \in Instance \ {w} : conf'[i] = conf[i] /\ confCopies'[i] = confCopies[i]
    <2>1. CASE snap.conf = "CreatedByUs"
      BY <1>2, <1>3, <1>4, <1>6, <2>1
    <2>2. CASE snap.conf = "Untracked"
      BY <1>3, <1>6, <2>2 DEF config
    <2>3. CASE snap.conf = "Preexisting" /\ snap.confBackup \cap confCopies[w] # {}
      <3>1. PICK c \in snap.confBackup \cap confCopies[w] :
               /\ conf' = [conf EXCEPT ![w] = c]
               /\ confCopies' = [confCopies EXCEPT ![w] = confCopies[w] \ {c}]
        BY <1>3, <1>4, <2>3
      <3>2. c = found.conf[w]
        BY <1>6, <2>3, <3>1
      <3>3. QED  BY <1>2, <3>1, <3>2
    <2>4. CASE snap.conf = "Preexisting" /\ snap.confBackup \cap confCopies[w] = {}
      BY <1>3, <1>6, <2>4 DEF config
    <2>5. QED  BY <1>6, <2>1, <2>2, <2>3, <2>4
  <1>8. UNCHANGED <<service, helper, shell, found>>
    BY DEF UndoConfig
  <1>9. ConfLeft(w)'
    BY <1>5, <1>7, <1>8 DEF ConfLeft
  <1>10. ConfOnly(w)
    BY <1>7, <1>8 DEF ConfOnly
  <1>11. QED
    BY <1>1, <1>5, <1>9, <1>10, ConfStep DEF Stuck

LEMMA UnitUndone ==
    ASSUME RestInv, faults = 0, faults' = 0, NEW w \in Instance, w = who, UndoUnit
    PROVE  AllLeft'
  <1>1. TypeInv /\ TypeOK /\ FoundOnce /\ AllLeft /\ pc = "undo" /\ idx = UnitStep /\ Undone
    BY DEF RestInv, TypeInv, UndoUnit, Undoing
  <1>2. /\ unit \in [Instance -> Whose] /\ enabled \in [Instance -> BOOLEAN] /\ up \in [Instance -> BOOLEAN]
        /\ snap \in Snapshots /\ found.enabled[w] \in BOOLEAN
    BY <1>1, Machine
  <1>3. PICK done \in Parts({"stop", "disable", "remove"}) :
          /\ up' = IF Stopped(done) THEN [up EXCEPT ![who] = FALSE] ELSE up
          /\ enabled' = IF "disable" \in done /\ snap.enabled = "CreatedByUs"
                        THEN [enabled EXCEPT ![who] = FALSE] ELSE enabled
          /\ unit' = IF "remove" \in done /\ snap.unit = "CreatedByUs"
                     THEN [unit EXCEPT ![who] = "absent"] ELSE unit
          /\ Cost(done, {"stop", "disable", "remove"})
    BY DEF UndoUnit
  <1>4. {"stop", "disable", "remove"} \subseteq done
    BY <1>1, <1>3, SmallSets, AllDone
  <1>5. /\ \A i \in Instance \ {w} : Alike(i)
        /\ UnitStep \in Done(w) /\ Held(w) = snap /\ UnitStep \notin Done(w)'
        /\ ConfAlike(w) /\ ScriptAlike(w) /\ LineAlike(w)
    BY <1>1, UndoAlike
  <1>6. /\ IF snap.enabled = "CreatedByUs" THEN ~found.enabled[w] ELSE enabled[w] = found.enabled[w]
        /\ found.unit[w] = "absent" =>
              /\ snap.unit = "CreatedByUs" \/ unit[w] = "absent"
              /\ snap.active = "CreatedByUs" \/ ~up[w]
    BY <1>1, <1>5 DEF AllLeft, UnitLeft
  <1>7. /\ enabled'[w] = found.enabled[w]
        /\ found.unit[w] = "absent" => unit'[w] = "absent" /\ ~up'[w]
    BY <1>2, <1>3, <1>4, <1>6 DEF Stopped
  <1>8. UNCHANGED <<config, helper, shell, found>>
    BY DEF UndoUnit
  <1>9. UnitLeft(w)'
    BY <1>5, <1>7, <1>8 DEF UnitLeft
  <1>10. UnitOnly(w)
    BY <1>2, <1>3, <1>8 DEF UnitOnly
  <1>11. QED
    BY <1>1, <1>5, <1>9, <1>10, UnitStepLeft

LEMMA ScriptUndone ==
    ASSUME RestInv, faults = 0, faults' = 0, NEW w \in Instance, w = who, NEW u \in Admin, u = sudoUser, UndoScript
    PROVE  AllLeft'
  <1>1. TypeInv /\ TypeOK /\ FoundOnce /\ AllLeft /\ pc = "undo" /\ idx = ScriptStep /\ Undone
    BY DEF RestInv, TypeInv, UndoScript, Undoing
  <1>2. /\ script \in [Admin -> [Instance -> Whose]] /\ link \in [Admin -> [Instance -> Whose]]
        /\ scriptCopies \in [Admin -> [Instance -> Copies]] /\ dirs \in [Admin -> [Dir -> Whose]]
        /\ snap \in Snapshots
        /\ \A v \in Admin : \A d \in Dir : found.dirs[v][d] \in Before
    BY <1>1, Machine
  <1>3. PICK done \in Parts({"link", "script"} \cup Dir) :
          LET emptied == {d \in Dir \cap done : MadeHere(d) /\ Empty(d, done)}
          IN  /\ link' = [link EXCEPT ![sudoUser][who] = Unlinked(done)]
              /\ script' = [script EXCEPT ![sudoUser][who] = Left(done)]
              /\ scriptCopies' = [scriptCopies EXCEPT ![sudoUser][who] = @ \ Restored(done)]
              /\ dirs' = [dirs EXCEPT ![sudoUser] =
                            [d \in Dir |-> IF d \in emptied THEN "absent" ELSE @[d]]]
              /\ Cost(done, {"link", "script"} \cup Dir)
    BY DEF UndoScript
  <1>4. "link" \in done /\ "script" \in done
    <2>1. {"link", "script"} \cup Dir \subseteq done
      BY <1>1, <1>3, SmallSets, AllDone
    <2>2. QED  BY <2>1
  <1>5. /\ \A i \in Instance \ {w} : Alike(i)
        /\ ScriptStep \in Done(w) /\ Held(w) = snap /\ UserOf(w) = u /\ ScriptStep \notin Done(w)'
        /\ ConfAlike(w) /\ UnitAlike(w) /\ LineAlike(w)
    BY <1>1, UndoAlike
  <1>6. ScriptLeft(w, u)
    BY <1>1 DEF AllLeft
  <1>7. /\ snap.script = "Untracked" => script[u][w] = found.script[u][w]
        /\ snap.script = "CreatedByUs" => found.script[u][w] = "absent"
        /\ snap.script = "Preexisting" =>
              \/ snap.scriptBackup = {} /\ script[u][w] = found.script[u][w]
              \/ snap.scriptBackup = {found.script[u][w]} /\ found.script[u][w] \in scriptCopies[u][w]
        /\ IF snap.link = "CreatedByUs" THEN found.link[u][w] = "absent" ELSE link[u][w] = found.link[u][w]
        /\ \A d \in Dir : found.dirs[u][d] = "theirs" => d \in snap.existed
        /\ snap.script \in {"Untracked", "CreatedByUs", "Preexisting"}
    BY <1>2, <1>5, <1>6 DEF ScriptLeft, Snapshots, PreState
  <1>8. Unlinked(done) = found.link[u][w]
    BY <1>4, <1>7 DEF Unlinked
  <1>9. Left(done) = found.script[u][w]
    <2>1. CASE snap.script = "CreatedByUs"
      BY <1>4, <1>7, <2>1 DEF Left
    <2>2. CASE snap.script = "Untracked"
      <3>1. Restored(done) = {}
        BY <2>2 DEF Restored
      <3>2. QED  BY <1>7, <2>2, <3>1 DEF Left
    <2>3. CASE snap.script = "Preexisting"
      <3>1. Restored(done) = snap.scriptBackup \cap scriptCopies[u][w]
        BY <1>4, <2>3 DEF Restored
      <3>2. CASE Restored(done) = {}
        <4>1. Left(done) = script[u][w]
          BY <2>3, <3>2 DEF Left
        <4>2. QED  BY <1>7, <2>3, <3>1, <3>2, <4>1
      <3>3. CASE Restored(done) # {}
        <4>1. Left(done) \in Restored(done)
          BY <2>3, <3>3 DEF Left
        <4>2. QED  BY <1>7, <2>3, <3>1, <3>3, <4>1
      <3>4. QED  BY <3>2, <3>3
    <2>4. QED  BY <1>7, <2>1, <2>2, <2>3
  <1>10. UNCHANGED <<config, service, shell, found>> /\ found' = found
    BY DEF UndoScript
  <1>11. ScriptOnly(w, u)
    BY <1>2, <1>3, <1>10 DEF ScriptOnly
  <1>12. \A v \in Admin : ScriptLeft(w, v)'
    <2>1. script'[u][w] = found.script[u][w] /\ link'[u][w] = found.link[u][w]
      BY <1>2, <1>3, <1>8, <1>9
    <2>2. \A v \in Admin \ {u} : script[v][w] = found.script[v][w] /\ link[v][w] = found.link[v][w]
      BY <1>1, <1>5 DEF AllLeft, ScriptLeft
    <2>3. \A v \in Admin : script'[v][w] = found.script[v][w] /\ link'[v][w] = found.link[v][w]
      BY <1>11, <2>1, <2>2 DEF ScriptOnly
    <2>4. QED  BY <1>5, <1>10, <2>3 DEF ScriptLeft
  <1>13. DirsLeft'
    <2>1. \A v \in Admin : \A d \in Dir : dirs[v][d] = found.dirs[v][d] \/ (dirs[v][d] = "ours" /\ found.dirs[v][d] = "absent")
      BY <1>1 DEF AllLeft, DirsLeft
    <2>2. \A v \in Admin : \A d \in Dir :
            \/ dirs'[v][d] = dirs[v][d]
            \/ v = u /\ d \notin snap.existed /\ dirs'[v][d] = "absent"
      BY <1>2, <1>3 DEF MadeHere
    <2>3. \A d \in Dir : d \notin snap.existed => found.dirs[u][d] = "absent"
      BY <1>2, <1>7 DEF Before
    <2>4. QED  BY <1>10, <2>1, <2>2, <2>3 DEF DirsLeft
  <1>14. QED
    BY <1>1, <1>5, <1>11, <1>12, <1>13, ScriptStepLeft DEF Stuck

LEMMA LineUndone ==
    ASSUME RestInv, faults = 0, faults' = 0, NEW w \in Instance, w = who, NEW u \in Admin, u = sudoUser, UndoBashrc
    PROVE  AllLeft'
  <1>1. TypeInv /\ TypeOK /\ FoundOnce /\ AllLeft /\ pc = "undo" /\ idx = BashrcStep /\ Undone
    BY DEF RestInv, TypeInv, UndoBashrc, Undoing
  <1>2. /\ bashrc \in [Admin -> Bashrc] /\ snap \in Snapshots /\ found.bashrc[u] \in Bashrc
        /\ ~found.bashrc[u].there => found.bashrc[u].lines = {}
    BY <1>1, Machine
  <1>3. PICK done \in Parts({"first", "read"}) :
          LET back == IF "first" \in done THEN snap.backup \cap copies[sudoUser] ELSE {}
          IN  /\ IF snap.line # "CreatedByUs" THEN UNCHANGED <<bashrc, copies>>
                 ELSE IF ~snap.bashrcExisted
                 THEN /\ bashrc' = IF "first" \in done THEN [bashrc EXCEPT ![sudoUser] = NoBashrc] ELSE bashrc
                      /\ UNCHANGED copies
                 ELSE IF back # {}
                 THEN \E lines \in back :
                         /\ bashrc' = [bashrc EXCEPT ![sudoUser] = [there |-> TRUE, lines |-> lines]]
                         /\ copies' = [copies EXCEPT ![sudoUser] = @ \ {lines}]
                 ELSE /\ bashrc' = IF "read" \in done THEN [bashrc EXCEPT ![sudoUser].lines = @ \ {"path"}]
                                   ELSE bashrc
                      /\ UNCHANGED copies
              /\ Cost(done, {"first", "read"})
    BY DEF UndoBashrc
  <1>4. {"first", "read"} \subseteq done
    BY <1>1, <1>3, SmallSets, AllDone
  <1>5. /\ \A i \in Instance \ {w} : Alike(i)
        /\ BashrcStep \in Done(w) /\ Held(w) = snap /\ UserOf(w) = u /\ BashrcStep \notin Done(w)'
        /\ ConfAlike(w) /\ UnitAlike(w) /\ ScriptAlike(w)
    BY <1>1, UndoAlike
  <1>6. found' = found /\ typed' = typed /\ UNCHANGED <<config, service, helper, typed, found>>
    BY DEF UndoBashrc
  <1>7. /\ snap.line # "CreatedByUs" => bashrc' = bashrc
        /\ snap.line = "CreatedByUs" =>
              \/ ~snap.bashrcExisted /\ bashrc' = [bashrc EXCEPT ![u] = NoBashrc]
              \/ snap.bashrcExisted
                 /\ \E lines \in snap.backup : bashrc' = [bashrc EXCEPT ![u] = [there |-> TRUE, lines |-> lines]]
              \/ snap.bashrcExisted /\ bashrc' = [bashrc EXCEPT ![u].lines = @ \ {"path"}]
    BY <1>3, <1>4
  <1>8. LineOnly(u)
    <2>1. \A v \in Admin \ {u} : bashrc'[v] = bashrc[v]
      BY <1>2, <1>7
    <2>2. QED  BY <1>6, <2>1 DEF LineOnly
  <1>9. /\ \A v \in Admin : ~Wrote(w, v)'
        /\ \A v \in Admin \ {u} : ~Wrote(w, v)
        /\ \A i \in Instance \ {w} : Wrote(i, u)' <=> Wrote(i, u)
        /\ Wrote(w, u) <=> snap.line = "CreatedByUs"
    BY <1>5 DEF Wrote, Alike, LineAlike
  <1>10. LinesLeft(u)'
    <2> SUFFICES ASSUME "later" \notin typed[u]  PROVE LinesLeft(u)'
      BY <1>6 DEF LinesLeft
    <2>1. /\ (\A i \in Instance : ~Wrote(i, u)) => bashrc[u] = found.bashrc[u]
          /\ \A i \in Instance : Wrote(i, u) => LineOf(i, u)
      BY <1>1 DEF AllLeft, LinesLeft
    <2>2. CASE snap.line = "CreatedByUs"
      <3>1. LineOf(w, u)
        BY <1>9, <2>1, <2>2
      <3>2. \A i \in Instance : ~Wrote(i, u)'
        BY <1>9, <3>1 DEF LineOf
      <3>3. bashrc'[u] = found.bashrc[u]
        <4>1. /\ "path" \notin found.bashrc[u].lines
              /\ bashrc[u] = [there |-> TRUE, lines |-> found.bashrc[u].lines \cup {"path"}]
              /\ snap.bashrcExisted = found.bashrc[u].there
              /\ snap.backup \subseteq {found.bashrc[u].lines}
          BY <1>5, <3>1 DEF LineOf
        <4>2. found.bashrc[u] = [there |-> found.bashrc[u].there, lines |-> found.bashrc[u].lines]
          BY <1>2 DEF Bashrc
        <4>3. CASE ~snap.bashrcExisted /\ bashrc' = [bashrc EXCEPT ![u] = NoBashrc]
          <5>1. found.bashrc[u].there = FALSE /\ found.bashrc[u].lines = {}
            BY <1>2, <4>1, <4>3 DEF Bashrc
          <5>2. bashrc'[u] = NoBashrc
            BY <1>2, <4>3
          <5>3. QED  BY <4>2, <5>1, <5>2 DEF NoBashrc
        <4>4. CASE /\ snap.bashrcExisted
                   /\ \E lines \in snap.backup : bashrc' = [bashrc EXCEPT ![u] = [there |-> TRUE, lines |-> lines]]
          <5>1. bashrc' = [bashrc EXCEPT ![u] = [there |-> TRUE, lines |-> found.bashrc[u].lines]]
            BY <4>1, <4>4
          <5>2. found.bashrc[u].there = TRUE
            BY <1>2, <4>1, <4>4 DEF Bashrc
          <5>3. QED  BY <1>2, <4>2, <5>1, <5>2
        <4>5. CASE snap.bashrcExisted /\ bashrc' = [bashrc EXCEPT ![u].lines = @ \ {"path"}]
          <5>1. bashrc'[u] = [bashrc[u] EXCEPT !.lines = bashrc[u].lines \ {"path"}]
            BY <1>2, <4>5
          <5>2. bashrc[u].there /\ bashrc[u].lines \ {"path"} = found.bashrc[u].lines
            BY <4>1
          <5>3. bashrc'[u] \in Bashrc /\ bashrc'[u].there = bashrc[u].there
                /\ bashrc'[u].lines = bashrc[u].lines \ {"path"}
            BY <1>2, <5>1 DEF Bashrc
          <5>4. bashrc'[u] = [there |-> bashrc'[u].there, lines |-> bashrc'[u].lines]
            BY <5>3 DEF Bashrc
          <5>5. bashrc[u].there = found.bashrc[u].there
            BY <1>2, <4>1, <4>5, <5>2 DEF Bashrc
          <5>6. QED  BY <4>2, <5>2, <5>3, <5>4, <5>5
        <4>6. QED  BY <1>7, <2>2, <4>3, <4>4, <4>5
      <3>4. QED  BY <1>6, <3>2, <3>3 DEF LinesLeft
    <2>3. CASE snap.line # "CreatedByUs"
      <3>1. bashrc' = bashrc
        BY <1>7, <2>3
      <3>2. \A i \in Instance : Wrote(i, u)' <=> Wrote(i, u)
        BY <1>9, <2>3
      <3>3. ASSUME NEW i \in Instance, Wrote(i, u)  PROVE LineOf(i, u)'
        <4>1. i # w
          BY <1>9, <2>3, <3>3
        <4>2. Held(i)'.bashrcExisted = Held(i).bashrcExisted /\ Held(i)'.backup = Held(i).backup
          BY <1>5, <3>3, <4>1 DEF Wrote, Alike, LineAlike
        <4>3. LineOf(i, u)
          BY <2>1, <3>3
        <4>4. QED  BY <1>6, <3>1, <3>2, <4>2, <4>3 DEF LineOf
      <3>4. QED  BY <1>6, <2>1, <3>1, <3>2, <3>3 DEF LinesLeft
    <2>4. QED  BY <2>2, <2>3
  <1>11. \A v \in Admin \ {u} : LinesLeft(v)'
    BY <1>1, <1>5, <1>8, <1>9, OtherLines
  <1>12. \A v \in Admin : LinesLeft(v)'
    BY <1>10, <1>11
  <1>13. QED
    BY <1>1, <1>5, <1>8, <1>12, LineStepLeft DEF Stuck

\* Nothing is being run.
LEMMA ReadyNot ==
    ASSUME pc' \in {"idle", "undo"}  PROVE Ready'
  BY DEF Ready

LEMMA UndoEnds ==
    ASSUME NEW k, NEW K, UndoBelow(k, K)  PROVE pc' \in {"idle", "undo"}
  BY DEF UndoBelow, Exit

LEMMA BeginRests ==
    ASSUME RestInv, faults = 0, NEW i \in Instance, Install(i) \/ Rollback(i)
    PROVE  Orderly' /\ AllLeft' /\ Ready'
  <1>1. TypeOK /\ Orderly /\ AllLeft /\ pc = "idle" /\ UNCHANGED <<config, unit, enabled, up, helper, shell, found>>
    BY DEF RestInv, TypeInv, Install, Rollback, Begin, BeginRollback, world, service
  <1>2. Orderly' /\ AllRetain
    BY <1>1, BeginOrderly, BeginView, BeginRollbackOrderly, BeginRollbackView DEF Install, Rollback
  <1>3. AllLeft'
    BY <1>1, <1>2, AllLeftStays DEF Stuck, shell
  <1>4. Ready'
    <2>1. CASE Install(i)
      <3>1. man[i].steps = {} /\ snap' = man[i].snap /\ pc' = "snapshot"
        BY <1>1, <2>1, BeginOrderly DEF Install, Begin, Take
      <3>2. snap' = Default
        BY <1>1, <3>1 DEF Orderly
      <3>3. Default.confBackup = {} /\ Default.scriptBackup = {} /\ Default.backup = {}
        BY DEF Default
      <3>4. QED  BY <3>1, <3>2, <3>3 DEF Ready
    <2>2. CASE Rollback(i)
      BY <2>2, ReadyNot DEF Rollback, BeginRollback
    <2>3. QED  BY <2>1, <2>2
  <1>5. QED  BY <1>2, <1>3, <1>4

LEMMA EngineRests ==
    ASSUME RestInv, faults = 0, Stops \/ Skip \/ Finish
    PROVE  Orderly' /\ AllLeft' /\ Ready'
  <1>1. /\ TypeOK /\ Orderly /\ AllLeft /\ pc = "snapshot" /\ who \in Instance
        /\ UNCHANGED <<config, unit, enabled, up, helper, shell, found>>
    BY StepTypes DEF RestInv, TypeInv, Stops, Skip, Finish, Finished, world, service
  <1>2. Stops \/ Finished
    BY <1>1, NoSkip DEF Finish
  <1>3. Orderly' /\ AllRetain
    BY <1>1, <1>2, StopsOrderly, FinishOrderly, StopsView, FinishView
  <1>4. AllLeft'
    BY <1>1, <1>3, AllLeftStays DEF Stuck, shell
  <1>5. pc' \in {"idle", "undo"}
    BY <1>2, UndoEnds DEF Stops, Finished, Exit
  <1>6. QED  BY <1>3, <1>4, <1>5, ReadyNot

LEMMA SnapshotRests ==
    ASSUME RestInv, faults = 0, SnapshotConfig \/ SnapshotUnit \/ SnapshotScript \/ SnapshotBashrc
    PROVE  Orderly' /\ AllLeft' /\ Ready'
  <1>1. /\ TypeInv /\ TypeOK /\ FoundOnce /\ Orderly /\ AllLeft /\ Ready /\ snap \in Snapshots
        /\ who \in Instance /\ pc = "snapshot" /\ idx \in Steps /\ idx \notin recorded
    BY StepTypes DEF RestInv, TypeInv, SnapshotConfig, SnapshotUnit, SnapshotScript, SnapshotBashrc, At, Steps
  <1>2. \E s : /\ Snapshotted(s) /\ \A f \in DOMAIN Default \ Fields(idx) : s[f] = snap[f]
               /\ s.confBackup = snap.confBackup /\ s.scriptBackup = snap.scriptBackup /\ s.backup = snap.backup
               /\ idx = ConfigStep => s.conf = Verdict(conf[who] # "absent")
               /\ idx = UnitStep => /\ s.unit = Verdict(unit[who] # "absent")
                                    /\ s.enabled = Verdict(enabled[who]) /\ s.active = Verdict(up[who])
               /\ idx = ScriptStep => /\ s.script = Verdict(script[sudoUser][who] # "absent")
                                      /\ s.link = Verdict(link[sudoUser][who] # "absent")
                                      /\ s.existed = Existing(sudoUser)
               /\ idx = BashrcStep => /\ s.line = Verdict("path" \in bashrc[sudoUser].lines)
                                      /\ s.bashrcExisted = bashrc[sudoUser].there
    <2>1. CASE SnapshotConfig
      <3>1. PICK s : /\ s = [snap EXCEPT !.conf = Verdict(conf[who] # "absent")]
                     /\ Snapshotted(s) /\ idx = 1
        BY <2>1 DEF SnapshotConfig, At
      <3>2. /\ \A f \in DOMAIN Default \ {"conf", "confBackup"} : s[f] = snap[f]
            /\ s.confBackup = snap.confBackup /\ s.scriptBackup = snap.scriptBackup /\ s.backup = snap.backup
            /\ s.conf = Verdict(conf[who] # "absent")
        BY <1>1, <3>1 DEF Snapshots, Default
      <3>3. QED  BY <3>1, <3>2, FieldsAre
    <2>2. CASE SnapshotUnit
      <3>1. PICK s : /\ s = [snap EXCEPT !.unit = Verdict(unit[who] # "absent"),
                                         !.enabled = Verdict(enabled[who]), !.active = Verdict(up[who])]
                     /\ Snapshotted(s) /\ idx = 2
        BY <2>2 DEF SnapshotUnit, At
      <3>2. /\ \A f \in DOMAIN Default \ {"unit", "enabled", "active"} : s[f] = snap[f]
            /\ s.confBackup = snap.confBackup /\ s.scriptBackup = snap.scriptBackup /\ s.backup = snap.backup
            /\ s.unit = Verdict(unit[who] # "absent")
            /\ s.enabled = Verdict(enabled[who]) /\ s.active = Verdict(up[who])
        BY <1>1, <3>1 DEF Snapshots, Default
      <3>3. QED  BY <3>1, <3>2, FieldsAre
    <2>3. CASE SnapshotScript
      <3>1. PICK s : /\ s = [snap EXCEPT !.script = Verdict(script[sudoUser][who] # "absent"),
                                         !.link = Verdict(link[sudoUser][who] # "absent"),
                                         !.existed = Existing(sudoUser)]
                     /\ Snapshotted(s) /\ idx = 3
        BY <2>3 DEF SnapshotScript, At
      <3>2. /\ \A f \in DOMAIN Default \ {"script", "scriptBackup", "link", "existed"} : s[f] = snap[f]
            /\ s.confBackup = snap.confBackup /\ s.scriptBackup = snap.scriptBackup /\ s.backup = snap.backup
            /\ s.script = Verdict(script[sudoUser][who] # "absent")
            /\ s.link = Verdict(link[sudoUser][who] # "absent") /\ s.existed = Existing(sudoUser)
        BY <1>1, <3>1 DEF Snapshots, Default
      <3>3. QED  BY <3>1, <3>2, FieldsAre
    <2>4. CASE SnapshotBashrc
      <3>1. PICK s : /\ s = [snap EXCEPT !.line = Verdict("path" \in bashrc[sudoUser].lines),
                                         !.bashrcExisted = bashrc[sudoUser].there]
                     /\ Snapshotted(s) /\ idx = 4
        BY <2>4 DEF SnapshotBashrc, At
      <3>2. /\ \A f \in DOMAIN Default \ {"line", "bashrcExisted", "backup"} : s[f] = snap[f]
            /\ s.confBackup = snap.confBackup /\ s.scriptBackup = snap.scriptBackup /\ s.backup = snap.backup
            /\ s.line = Verdict("path" \in bashrc[sudoUser].lines)
            /\ s.bashrcExisted = bashrc[sudoUser].there
        BY <1>1, <3>1 DEF Snapshots, Default
      <3>3. QED  BY <3>1, <3>2, FieldsAre
    <2>5. QED  BY <2>1, <2>2, <2>3, <2>4
  <1>3. PICK s : /\ Snapshotted(s) /\ \A f \in DOMAIN Default \ Fields(idx) : s[f] = snap[f]
                 /\ s.confBackup = snap.confBackup /\ s.scriptBackup = snap.scriptBackup /\ s.backup = snap.backup
                 /\ idx = ConfigStep => s.conf = Verdict(conf[who] # "absent")
                 /\ idx = UnitStep => /\ s.unit = Verdict(unit[who] # "absent")
                                      /\ s.enabled = Verdict(enabled[who]) /\ s.active = Verdict(up[who])
                 /\ idx = ScriptStep => /\ s.script = Verdict(script[sudoUser][who] # "absent")
                                        /\ s.link = Verdict(link[sudoUser][who] # "absent")
                                        /\ s.existed = Existing(sudoUser)
                 /\ idx = BashrcStep => /\ s.line = Verdict("path" \in bashrc[sudoUser].lines)
                                        /\ s.bashrcExisted = bashrc[sudoUser].there
    BY <1>2
  <1>4. /\ snap' = s /\ pc' = "run" /\ UNCHANGED <<who, idx, sudoUser>>
        /\ UNCHANGED <<conf, confCopies, unit, enabled, up, script, scriptCopies, link, dirs, bashrc, typed, found>>
    BY <1>3 DEF Snapshotted, world, config, service, helper, shell
  <1>5. Orderly' /\ AllRetain
    BY <1>1, <1>3, SnapshotOrderly, SnapshotView
  <1>6. AllLeft'
    BY <1>1, <1>4, <1>5, AllLeftStays DEF Stuck, config, helper
  <1>7. idx = UnitStep /\ found.unit[who] = "absent" => unit[who] = "absent" /\ ~up[who]
    <2>1. idx = UnitStep => UnitStep \notin Done(who)
      BY <1>1 DEF Done, Busy
    <2>2. QED  BY <1>1, <2>1 DEF AllLeft, UnitLeft
  <1>8. Ready'
    <2>1. /\ idx <= ConfigStep => s.confBackup = {}
          /\ idx <= ScriptStep => s.scriptBackup = {}
          /\ idx <= BashrcStep => s.backup = {}
      BY <1>1, <1>3 DEF Ready
    <2>2. idx = UnitStep /\ found.unit[who] = "absent" => s.unit = "Untracked" /\ s.active = "Untracked"
      BY <1>3, <1>7 DEF Verdict
    <2>3. Existing(sudoUser)' = Existing(sudoUser)
      BY <1>4 DEF Existing
    <2>4. QED  BY <1>3, <1>4, <2>1, <2>2, <2>3 DEF Ready
  <1>9. QED  BY <1>5, <1>6, <1>8

LEMMA RunRests ==
    ASSUME RestInv, faults = 0, RunStep \/ RunFails
    PROVE  Orderly' /\ AllLeft' /\ Ready'
  <1>1. /\ TypeInv /\ TypeOK /\ FoundOnce /\ Orderly /\ Ready /\ pc = "run" /\ idx \in Steps
        /\ who \in Instance /\ sudoUser \in Admin /\ snap \in Snapshots
    BY StepTypes DEF RestInv, TypeInv, RunStep, RunFails, Steps
  <1>2. PICK far \in 0 .. 3 : Effect(far) /\ snap' = Claims(far) /\ (far # 3 => Failed)
    <2>1. 3 \in 0 .. 3
      OBVIOUS
    <2>2. QED  BY <2>1 DEF RunStep, RunFails
  <1>3. Ran \/ Failed
    BY DEF RunStep, RunFails
  <1>4. Orderly' /\ Joins(who)
    BY <1>1, <1>3, RanOrderly, FailedOrderly, RanView
  <1>5. far # 3 => pc' = "undo" /\ who' = who /\ idx' = idx
    BY <1>2 DEF Failed
  <1>6. AllLeft'
    <2>1. CASE idx = ConfigStep
      <3>1. ConfigEffect(far) /\ snap' = ConfigClaims(far)
        BY <1>2, <2>1 DEF Effect, Claims
      <3>2. QED  BY <1>1, <1>4, <2>1, <3>1, ConfRan
    <2>2. CASE idx = UnitStep
      <3>1. UnitEffect(far) /\ snap' = UnitClaims(far)
        BY <1>2, <2>2 DEF Effect, Claims
      <3>2. QED  BY <1>1, <1>4, <1>5, <2>2, <3>1, UnitRan
    <2>3. CASE idx = ScriptStep
      <3>1. ScriptEffect(far) /\ snap' = ScriptClaims(far)
        BY <1>2, <2>3 DEF Effect, Claims
      <3>2. QED  BY <1>1, <1>4, <2>3, <3>1, ScriptRan
    <2>4. CASE idx = BashrcStep
      <3>1. BashrcEffect(far) /\ snap' = BashrcClaims(far)
        BY <1>2, <2>4 DEF Effect, Claims
      <3>2. QED  BY <1>1, <1>4, <2>4, <3>1, LineRan
    <2>5. QED  BY <1>1, <2>1, <2>2, <2>3, <2>4 DEF Steps
  <1>7. Ready'
    <2>1. CASE Failed
      BY <2>1, ReadyNot DEF Failed
    <2>2. CASE Ran
      <3>1. pc' = "snapshot" /\ idx' = idx + 1 /\ idx \in {1, 2, 3, 4}
        BY <1>1, <2>2 DEF Ran, Steps
      <3>2. /\ idx # 3 => snap'.scriptBackup = snap.scriptBackup
            /\ idx # 4 => snap'.backup = snap.backup
        <4>1. CASE idx = 1
          <5>1. snap' = ConfigClaims(far)
            BY <1>2, <4>1 DEF Claims, ConfigStep, UnitStep, ScriptStep, BashrcStep
          <5>2. QED  BY <1>1, <4>1, <5>1 DEF ConfigClaims, Snapshots
        <4>2. CASE idx = 2
          <5>1. snap' = UnitClaims(far)
            BY <1>2, <4>2 DEF Claims, ConfigStep, UnitStep, ScriptStep, BashrcStep
          <5>2. QED  BY <1>1, <4>2, <5>1 DEF UnitClaims, Snapshots
        <4>3. CASE idx = 3
          <5>1. snap' = ScriptClaims(far)
            BY <1>2, <4>3 DEF Claims, ConfigStep, UnitStep, ScriptStep, BashrcStep
          <5>2. QED  BY <1>1, <4>3, <5>1 DEF ScriptClaims, Snapshots
        <4>4. CASE idx = 4
          <5>1. snap' = BashrcClaims(far)
            BY <1>2, <4>4 DEF Claims, ConfigStep, UnitStep, ScriptStep, BashrcStep
          <5>2. QED  BY <1>1, <4>4, <5>1 DEF BashrcClaims, Snapshots
        <4>5. QED  BY <3>1, <4>1, <4>2, <4>3, <4>4
      <3>3. /\ idx <= ScriptStep => snap.scriptBackup = {}
            /\ idx <= BashrcStep => snap.backup = {}
        BY <1>1 DEF Ready
      <3>4. ~(idx' <= 1)
        BY <3>1
      <3>5. idx' <= 3 => idx # 3 /\ idx <= 3
        BY <3>1
      <3>6. idx' <= 4 => idx # 4 /\ idx <= 4
        BY <3>1
      <3>7. QED  BY <3>1, <3>2, <3>3, <3>4, <3>5, <3>6 DEF Ready
    <2>3. QED  BY <1>3, <2>1, <2>2
  <1>8. QED  BY <1>4, <1>6, <1>7

LEMMA UndoRests ==
    ASSUME RestInv, faults = 0, faults' = 0, UndoConfig \/ UndoUnit \/ UndoScript \/ UndoBashrc
    PROVE  Orderly' /\ AllLeft' /\ Ready'
  <1>1. TypeOK /\ Orderly /\ who \in Instance /\ sudoUser \in Admin /\ pc = "undo" /\ Undone
    BY StepTypes DEF RestInv, TypeInv, UndoConfig, UndoUnit, UndoScript, UndoBashrc, Undoing
  <1>2. Orderly'
    BY <1>1, UndoneOrderly
  <1>3. AllLeft'
    BY <1>1, ConfUndone, UnitUndone, ScriptUndone, LineUndone
  <1>4. Ready'
    BY <1>1, UndoneBelow, UndoEnds, ReadyNot
  <1>5. QED  BY <1>2, <1>3, <1>4

\* A unit that is not there is not started, and nobody starts one under a command.
LEMMA SessionUp ==
    ASSUME TypeOK, ~Fault, SessionStep, NEW i \in Instance, up'[i]
    PROVE  up[i] \/ (unit[i] # "absent" /\ ~Busy(i))
  <1>1. up \in [Instance -> BOOLEAN] /\ \A s \in Session : WorksOn[s] \in Instance
    BY SessionAssumption DEF TypeOK, WorldType
  <1>2. CASE \E j \in Instance : Control(j)
    BY <1>1, <1>2 DEF Control, InTheMiddle, Busy
  <1>3. CASE \E s \in Session : Unanswered(s)
    BY <1>1, <1>3 DEF Unanswered, Starts, InTheMiddle, Busy
  <1>4. CASE \E s \in Session : Answered(s)
    BY <1>1, <1>4 DEF Answered, Starts, InTheMiddle, Busy
  <1>5. CASE \E s \in Session : Enter(s) \/ Leave(s) \/ Interrupted(s) \/ Lost(s)
    BY <1>5 DEF Enter, Leave, Interrupted, Lost
  <1>6. CASE \E s \in Session : StopIt(s)
    BY <1>1, <1>6 DEF StopIt
  <1>7. QED  BY <1>2, <1>3, <1>4, <1>5, <1>6 DEF SessionStep

LEMMA SessionRests ==
    ASSUME RestInv, faults = 0, ~Fault, SessionStep
    PROVE  Orderly' /\ AllLeft' /\ Ready'
  <1>1. TypeOK /\ Orderly /\ AllLeft /\ Ready
    BY DEF RestInv, TypeInv
  <1>2. Beside
    BY DEF SessionStep, Control, Enter, StopIt, Leave, Gone, Unanswered, Answered, Interrupted, Lost
  <1>3. /\ UNCHANGED <<man, pc, who, idx, snap, recorded, sudoUser>>
        /\ UNCHANGED <<conf, confCopies, unit, enabled, script, scriptCopies, link, dirs, bashrc, typed, found>>
    BY <1>2 DEF Beside, config, helper, shell
  <1>4. Orderly' /\ AllRetain
    BY <1>1, <1>3, StillView
  <1>5. \A i \in Instance : up'[i] => up[i] \/ (unit[i] # "absent" /\ ~Busy(i))
    BY <1>1, SessionUp
  <1>6. AllLeft'
    BY <1>1, <1>3, <1>4, <1>5, AllLeftStays DEF Stuck, Busy, config, helper
  <1>7. Ready'
    BY <1>1, <1>3 DEF Ready, Existing
  <1>8. QED  BY <1>4, <1>6, <1>7

LEMMA AdminRests ==
    ASSUME RestInv, faults = 0, NEW u \in Admin, Types(u) \/ Tidies(u)
    PROVE  Orderly' /\ AllLeft' /\ Ready'
  <1>1. TypeInv /\ TypeOK /\ FoundOnce /\ Orderly /\ AllLeft /\ Ready
    BY DEF RestInv, TypeInv
  <1>2. /\ UNCHANGED <<man, pc, who, idx, snap, recorded, sudoUser>>
        /\ UNCHANGED <<conf, confCopies, unit, enabled, up, script, scriptCopies, link, dirs, found>>
    BY DEF Types, Tidies, config, service, helper
  <1>3. Orderly' /\ AllRetain
    BY <1>1, <1>2, StillView
  <1>4. /\ bashrc \in [Admin -> Bashrc] /\ typed \in [Admin -> SUBSET Line] /\ sudoUser \in Admin
    BY <1>1, StepTypes DEF TypeOK, WorldType
  <1>5. \A v \in Admin : typed[v] \subseteq typed'[v] /\ ("later" \notin typed'[v] => bashrc'[v] = bashrc[v])
    BY <1>4 DEF Types, Tidies
  <1>6. \A v \in Admin : "path" \in bashrc'[v].lines <=> "path" \in bashrc[v].lines
    <2>1. CASE Types(u)
      <3>1. bashrc' = [bashrc EXCEPT ![u] = [there |-> TRUE, lines |-> bashrc[u].lines \cup {"later"}]]
        BY <2>1 DEF Types
      <3>2. QED  BY <1>4, <3>1
    <2>2. CASE Tidies(u)
      BY <2>2 DEF Tidies
    <2>3. QED  BY <2>1, <2>2
  <1>7. AllLeft'
    BY <1>1, <1>2, <1>3, <1>5, AllLeftStays DEF Stuck, Busy, config, helper
  <1>8. Ready'
    <2>1. Verdict("path" \in bashrc'[sudoUser].lines) = Verdict("path" \in bashrc[sudoUser].lines)
      BY <1>4, <1>6 DEF Verdict
    <2>2. "later" \notin typed'[sudoUser] => "later" \notin typed[sudoUser] /\ bashrc'[sudoUser] = bashrc[sudoUser]
      BY <1>4, <1>5
    <2>3. QED  BY <1>1, <1>2, <2>1, <2>2 DEF Ready, Existing
  <1>9. QED  BY <1>3, <1>7, <1>8

LEMMA FoundIsFixed ==
    ASSUME Next  PROVE UNCHANGED found
  <1>1. CASE SessionStep
    BY <1>1 DEF SessionStep, Control, Enter, StopIt, Leave, Gone, Unanswered, Answered, Interrupted, Lost, Beside
  <1>2. CASE \E far \in 0 .. 3 : Effect(far)
    BY <1>2 DEF Effect, ConfigEffect, UnitEffect, ScriptEffect, BashrcEffect
  <1>3. CASE ~SessionStep /\ ~\E far \in 0 .. 3 : Effect(far)
    <2>1. 3 \in 0 .. 3 /\ 0 .. 2 \subseteq 0 .. 3
      OBVIOUS
    <2>2. ~RunStep /\ ~RunFails
      BY <1>3, <2>1 DEF RunStep, RunFails
    <2>3. Die => UNCHANGED found
      BY <1>3 DEF Die, WrittenShort, world
    <2>4. CASE UndoConfig \/ UndoUnit \/ UndoScript \/ UndoBashrc \/ UndoBashrcFails
      BY <2>4 DEF UndoConfig, UndoUnit, UndoScript, UndoBashrc, UndoBashrcFails, WrittenShort
    <2>5. CASE ~(UndoConfig \/ UndoUnit \/ UndoScript \/ UndoBashrc \/ UndoBashrcFails)
      BY <1>3, <2>2, <2>3, <2>5 DEF Next, SessionStep, Install, Rollback, Begin, BeginRollback, Stops, Skip,
         Finish, SnapshotConfig, SnapshotUnit, SnapshotScript, SnapshotBashrc, Snapshotted, Types, Tidies, world
    <2>6. QED  BY <2>4, <2>5
  <1>4. QED  BY <1>1, <1>2, <1>3

LEMMA InitRests == Init => RestInv
  <1> SUFFICES ASSUME Init  PROVE RestInv
    OBVIOUS
  <1>1. TypeInv /\ Start
    BY InitType DEF Init
  <1>2. found = [conf |-> conf, unit |-> unit, enabled |-> enabled, up |-> up, dirs |-> dirs,
                 script |-> script, link |-> link, bashrc |-> bashrc]
    BY DEF Init
  <1>3. /\ found.conf = conf /\ found.unit = unit /\ found.enabled = enabled /\ found.dirs = dirs
        /\ found.script = script /\ found.link = link /\ found.bashrc = bashrc
    BY <1>2
  <1>4. FoundOnce
    <2>1. /\ conf \in [Instance -> Before] /\ unit \in [Instance -> Before] /\ enabled \in [Instance -> BOOLEAN]
          /\ script \in [Admin -> [Instance -> Before]] /\ link \in [Admin -> [Instance -> Before]]
          /\ dirs \in [Admin -> [Dir -> Before]]
      BY DEF Init, Before
    <2>2. bashrc \in [Admin -> Bashrc]
      BY <1>1 DEF TypeInv, TypeOK, WorldType
    <2>3. \A u \in Admin : ~bashrc[u].there => bashrc[u].lines = {}
      <3> TAKE u \in Admin
      <3>1. bashrc[u] = NoBashrc \/ bashrc[u] \in [there : {TRUE}, lines : {{"own"}, {"own", "path"}}]
        BY DEF Init
      <3>2. bashrc[u] \in [there : {TRUE}, lines : {{"own"}, {"own", "path"}}] => bashrc[u].there
        OBVIOUS
      <3>3. NoBashrc.lines = {}
        BY DEF NoBashrc
      <3>4. QED  BY <3>1, <3>2, <3>3
    <2>4. QED  BY <1>3, <2>1, <2>2, <2>3 DEF FoundOnce
  <1>5. /\ pc = "idle" /\ \A i \in Instance : man[i] = NoManifest
        /\ NoManifest.steps = {} /\ NoManifest.snap = Default /\ NoManifest.finished = FALSE
    BY <1>1 DEF Start, NoManifest
  <1>6. Orderly
    BY <1>5 DEF Orderly
  <1>7. \A i \in Instance : Done(i) = {}
    BY <1>5 DEF Done, Busy
  <1>8. \A i \in Instance : found.unit[i] = "absent" => ~up[i]
    BY <1>3 DEF Init
  <1>9. AllLeft
    <2>1. DirsLeft
      BY <1>3 DEF DirsLeft
    <2>2. \A i \in Instance : ConfLeft(i) /\ UnitLeft(i)
      BY <1>3, <1>7, <1>8 DEF ConfLeft, UnitLeft
    <2>3. \A i \in Instance : \A u \in Admin : ScriptLeft(i, u)
      BY <1>3, <1>7 DEF ScriptLeft
    <2>4. \A u \in Admin : LinesLeft(u)
      BY <1>3, <1>7 DEF LinesLeft, Wrote
    <2>5. QED  BY <2>1, <2>2, <2>3, <2>4 DEF AllLeft
  <1>10. Ready
    BY <1>5 DEF Ready
  <1>11. QED  BY <1>1, <1>4, <1>6, <1>9, <1>10 DEF RestInv

LEMMA NextRests == RestInv /\ [Next]_vars => RestInv'
  <1> SUFFICES ASSUME RestInv, [Next]_vars  PROVE RestInv'
    OBVIOUS
  <1>1. TypeInv'
    BY NextType DEF RestInv
  <1>2. CASE UNCHANGED vars
    <2>1. /\ UNCHANGED <<man, pc, who, idx, snap, recorded, sudoUser, faults>>
          /\ UNCHANGED <<conf, confCopies, unit, enabled, up, script, scriptCopies, link, dirs, bashrc, typed, found>>
      BY <1>2 DEF vars, world, config, service, helper, shell
    <2>2. FoundOnce'
      BY <2>1 DEF RestInv, FoundOnce
    <2>3. faults = 0 => Orderly' /\ AllLeft' /\ Ready'
      <3> HAVE faults = 0
      <3>1. Orderly /\ AllLeft /\ Ready
        BY DEF RestInv
      <3>2. Orderly' /\ AllRetain
        BY <2>1, <3>1, StillView
      <3>3. AllLeft'
        BY <2>1, <3>1, <3>2, AllLeftStays DEF Stuck, Busy, config, helper
      <3>4. Ready'
        BY <2>1, <3>1 DEF Ready, Existing
      <3>5. QED  BY <3>2, <3>3, <3>4
    <2>4. QED  BY <1>1, <2>1, <2>2, <2>3 DEF RestInv
  <1>3. CASE Next
    <2>1. FoundOnce'
      BY <1>3, FoundIsFixed DEF RestInv, FoundOnce
    <2>2. ASSUME faults' = 0
          PROVE  Orderly' /\ AllLeft' /\ Ready'
      <3>1. faults = 0 /\ ~Fault
        BY <1>3, <2>2, QuietBefore DEF RestInv, TypeInv
      <3>2. ~Die /\ ~UndoBashrcFails
        BY <3>1 DEF Die, Dies, UndoBashrcFails
      <3>3. QED
        BY <1>3, <2>2, <3>1, <3>2, BeginRests, EngineRests, SnapshotRests, RunRests, UndoRests,
           SessionRests, AdminRests DEF Next, SessionStep
    <2>3. QED  BY <1>1, <2>1, <2>2 DEF RestInv
  <1>4. QED  BY <1>2, <1>3

\* With no manifest left nothing is, whoever installed what beside whom.
LEMMA RestGivesBack ==
    ASSUME RestInv  PROVE RemovedMeansRestored
  <1> SUFFICES ASSUME pc = "idle", faults = 0, \A i \in Instance : man[i].steps = {}
               PROVE  /\ conf = found.conf /\ script = found.script /\ link = found.link
                      /\ enabled = found.enabled
                      /\ \A i \in Instance : found.unit[i] = "absent" => unit[i] = "absent" /\ ~up[i]
                      /\ \A u \in Admin :
                            /\ "later" \notin typed[u] => bashrc[u] = found.bashrc[u]
                            /\ \A d \in Dir : dirs[u][d] \in {found.dirs[u][d], "ours"}
    BY DEF RemovedMeansRestored
  <1>1. TypeInv /\ FoundOnce /\ AllLeft
    BY DEF RestInv
  <1>2. \A i \in Instance : Done(i) = {}
    BY DEF Done, Busy
  <1>3. /\ conf \in [Instance -> Whose] /\ enabled \in [Instance -> BOOLEAN]
        /\ script \in [Admin -> [Instance -> Whose]] /\ link \in [Admin -> [Instance -> Whose]]
    BY <1>1, Machine
  <1>4. /\ found.conf \in [Instance -> Before] /\ found.enabled \in [Instance -> BOOLEAN]
        /\ found.script \in [Admin -> [Instance -> Before]] /\ found.link \in [Admin -> [Instance -> Before]]
    BY <1>1 DEF FoundOnce
  <1>5. \A i \in Instance : /\ conf[i] = found.conf[i] /\ enabled[i] = found.enabled[i]
                            /\ found.unit[i] = "absent" => unit[i] = "absent" /\ ~up[i]
    BY <1>1, <1>2 DEF AllLeft, ConfLeft, UnitLeft
  <1>6. \A u \in Admin : \A i \in Instance : script[u][i] = found.script[u][i] /\ link[u][i] = found.link[u][i]
    BY <1>1, <1>2 DEF AllLeft, ScriptLeft
  <1>7. conf = found.conf /\ enabled = found.enabled
    BY <1>3, <1>4, <1>5
  <1>8. script = found.script /\ link = found.link
    <2>1. \A u \in Admin : script[u] = found.script[u]
      <3> TAKE u \in Admin
      <3>1. script[u] \in [Instance -> Whose] /\ found.script[u] \in [Instance -> Before]
        BY <1>3, <1>4
      <3>2. QED  BY <1>6, <3>1
    <2>2. \A u \in Admin : link[u] = found.link[u]
      <3> TAKE u \in Admin
      <3>1. link[u] \in [Instance -> Whose] /\ found.link[u] \in [Instance -> Before]
        BY <1>3, <1>4
      <3>2. QED  BY <1>6, <3>1
    <2>3. QED  BY <1>3, <1>4, <2>1, <2>2
  <1>9. \A u \in Admin : "later" \notin typed[u] => bashrc[u] = found.bashrc[u]
    BY <1>1, <1>2 DEF AllLeft, LinesLeft, Wrote
  <1>10. \A u \in Admin : \A d \in Dir : dirs[u][d] \in {found.dirs[u][d], "ours"}
    BY <1>1 DEF AllLeft, DirsLeft
  <1>11. QED  BY <1>5, <1>7, <1>8, <1>9, <1>10

\* When the last manifest is gone, and nothing failed or died, every file is back
\* as it was found and no service runs whose unit is gone, in whatever order the
\* instances came and left, however far the installations that failed had got,
\* whoever installed them, and whatever the sessions and the administrators did
\* beside them.
THEOREM ServiceRemovedMeansRestored == Spec => []RemovedMeansRestored
  <1>1. RestInv => RemovedMeansRestored
    BY RestGivesBack
  <1>2. QED  BY <1>1, InitRests, NextRests, PTL DEF Spec

-----------------------------------------------------------------------------
(* What the sessions owe the service.                                      *)

\* A service that was down is down, and no session will start it; one that was up
\* is up, or there is still a session that found it so and has a unit to start.
Owing(i) ==
    /\ owed[i] = "down" => ~up[i] /\ \A s \in SessionsOf(i) : ~entry[s]
    /\ owed[i] = "up" => up[i] \/ (unit[i] # "absent" /\ \E s \in SessionsOf(i) : entry[s])

OwedInv == TypeInv /\ \A i \in Instance : Owing(i)

\* What stands still, or is no longer owed, is owed as before.
LEMMA OwingStays ==
    ASSUME NEW i \in Instance, Owing(i), UNCHANGED <<at, entry>>,
           \/ owed'[i] = "nothing"
           \/ owed'[i] = owed[i] /\ up'[i] = up[i] /\ unit'[i] = unit[i]
    PROVE  Owing(i)'
  <1>1. CASE owed'[i] = "nothing"
    BY <1>1 DEF Owing
  <1>2. CASE owed'[i] = owed[i] /\ up'[i] = up[i] /\ unit'[i] = unit[i]
    <2>1. SessionsOf(i)' = SessionsOf(i)
      BY DEF SessionsOf
    <2>2. QED  BY <1>2, <2>1 DEF Owing
  <1>3. QED  BY <1>1, <1>2

\* A command that touches a service settles what was owed to it.
LEMMA UnitsOwe ==
    ASSUME OwedInv, (\E far \in 0 .. 3 : UnitEffect(far)) \/ UndoUnit
    PROVE  \A i \in Instance : Owing(i)'
  <1>1. /\ who \in Instance /\ unit \in [Instance -> Whose] /\ up \in [Instance -> BOOLEAN]
        /\ owed \in [Instance -> {"nothing", "up", "down", "unmet"}]
    BY StepTypes DEF OwedInv, TypeInv, WorldType
  <1>2. Changed(who) /\ UNCHANGED <<at, entry>>
    BY DEF UnitEffect, UndoUnit
  <1>3. \A i \in Instance \ {who} : up'[i] = up[i] /\ unit'[i] = unit[i]
    <2>1. CASE \E far \in 0 .. 3 : UnitEffect(far)
      BY <1>1, <2>1 DEF UnitEffect
    <2>2. CASE UndoUnit
      BY <1>1, <2>2 DEF UndoUnit
    <2>3. QED  BY <2>1, <2>2
  <1>4. owed'[who] = "nothing" /\ \A i \in Instance \ {who} : owed'[i] = owed[i]
    BY <1>1, <1>2 DEF Changed
  <1>5. QED  BY <1>2, <1>3, <1>4, OwingStays DEF OwedInv

\* So do the people who start and stop it, answer, or are killed: of these each
\* settles with one instance and touches no other.
LEMMA Settled ==
    ASSUME OwedInv, NEW j \in Instance,
           \/ Control(j)
           \/ \E s \in Session : WorksOn[s] = j /\ (Answered(s) \/ Lost(s))
    PROVE  \A i \in Instance : Owing(i)'
  <1>1. /\ up \in [Instance -> BOOLEAN] /\ owed \in [Instance -> {"nothing", "up", "down", "unmet"}]
        /\ at \in [Session -> {"none", "trapped", "shell", "asked"}] /\ entry \in [Session -> BOOLEAN]
    BY StepTypes DEF OwedInv, TypeInv, WorldType
  <1>2. Changed(j) /\ UNCHANGED unit
    BY DEF Control, Answered, Lost, Beside
  <1>3. owed'[j] = "nothing" /\ \A i \in Instance \ {j} : owed'[i] = owed[i]
    BY <1>1, <1>2 DEF Changed
  <1>4. \A i \in Instance \ {j} : up'[i] = up[i]
    BY <1>1 DEF Control, Answered, Lost, Starts
  <1>5. \A s \in Session : WorksOn[s] # j => at'[s] = at[s] /\ entry'[s] = entry[s]
    BY <1>1 DEF Control, Answered, Lost
  <1>6. ASSUME NEW i \in Instance  PROVE Owing(i)'
    <2>1. CASE i = j
      BY <1>3, <2>1 DEF Owing
    <2>2. CASE i # j
      <3>1. SessionsOf(i)' = SessionsOf(i)
        BY <1>5, <2>2 DEF SessionsOf
      <3>2. \A s \in SessionsOf(i) : entry'[s] = entry[s]
        BY <1>5, <2>2 DEF SessionsOf
      <3>3. QED  BY <1>2, <1>3, <1>4, <2>2, <3>1, <3>2 DEF OwedInv, Owing
    <2>3. QED  BY <2>1, <2>2
  <1>7. QED  BY <1>6

\* What one session does is nothing to another instance.
LEMMA OthersOwe ==
    ASSUME OwedInv, NEW s \in Session, Enter(s) \/ StopIt(s) \/ Leave(s) \/ Unanswered(s) \/ Interrupted(s),
           NEW i \in Instance, i # WorksOn[s]
    PROVE  Owing(i)'
  <1>1. /\ up \in [Instance -> BOOLEAN] /\ owed \in [Instance -> {"nothing", "up", "down", "unmet"}]
        /\ at \in [Session -> {"none", "trapped", "shell", "asked"}] /\ entry \in [Session -> BOOLEAN]
    BY StepTypes DEF OwedInv, TypeInv, WorldType
  <1>2. UNCHANGED unit
    BY DEF Enter, StopIt, Leave, Unanswered, Interrupted, Gone, Beside
  <1>3. owed'[i] = owed[i] /\ up'[i] = up[i]
    BY <1>1 DEF Enter, StopIt, Leave, Unanswered, Interrupted, Gone, Starts
  <1>4. \A z \in Session \ {s} : at'[z] = at[z] /\ entry'[z] = entry[z]
    BY <1>1 DEF Enter, StopIt, Leave, Unanswered, Interrupted, Gone
  <1>5. SessionsOf(i)' = SessionsOf(i) /\ \A z \in SessionsOf(i) : entry'[z] = entry[z]
    BY <1>4 DEF SessionsOf
  <1>6. QED  BY <1>2, <1>3, <1>5 DEF OwedInv, Owing

LEMMA EnterOwes ==
    ASSUME OwedInv, NEW s \in Session, Enter(s)
    PROVE  Owing(WorksOn[s])'
  <1> DEFINE i == WorksOn[s]
  <1>1. /\ i \in Instance /\ Owing(i)
        /\ up \in [Instance -> BOOLEAN] /\ owed \in [Instance -> {"nothing", "up", "down", "unmet"}]
        /\ at \in [Session -> {"none", "trapped", "shell", "asked"}] /\ entry \in [Session -> BOOLEAN]
    BY StepTypes, SessionAssumption DEF OwedInv, TypeInv, WorldType
  <1>2. /\ at[s] = "none" /\ at' = [at EXCEPT ![s] = "trapped"] /\ entry' = [entry EXCEPT ![s] = up[i]]
        /\ UNCHANGED <<unit, up>>
        /\ owed' = IF SessionsOf(i) = {} THEN [owed EXCEPT ![i] = Service(i)] ELSE owed
    BY DEF Enter, Beside
  <1>3. /\ s \notin SessionsOf(i) /\ SessionsOf(i)' = SessionsOf(i) \cup {s}
        /\ entry'[s] = up[i] /\ \A z \in SessionsOf(i) : entry'[z] = entry[z]
    BY <1>1, <1>2 DEF SessionsOf
  <1>4. CASE SessionsOf(i) = {}
    <2>1. owed'[i] = Service(i)
      BY <1>1, <1>2, <1>4
    <2>2. (up[i] => owed'[i] = "up") /\ (~up[i] => owed'[i] = "down")
      BY <2>1 DEF Service
    <2>3. QED  BY <1>2, <1>3, <1>4, <2>2 DEF Owing
  <1>5. CASE SessionsOf(i) # {}
    BY <1>1, <1>2, <1>3, <1>5 DEF Owing
  <1>6. QED  BY <1>4, <1>5

LEMMA StopOwes ==
    ASSUME OwedInv, NEW s \in Session, StopIt(s)
    PROVE  Owing(WorksOn[s])'
  <1> DEFINE i == WorksOn[s]
  <1>1. /\ i \in Instance /\ Owing(i)
        /\ up \in [Instance -> BOOLEAN] /\ owed \in [Instance -> {"nothing", "up", "down", "unmet"}]
        /\ at \in [Session -> {"none", "trapped", "shell", "asked"}]
    BY StepTypes, SessionAssumption DEF OwedInv, TypeInv, WorldType
  <1>2. /\ at[s] = "trapped" /\ at' = [at EXCEPT ![s] = "shell"] /\ unit[i] # "absent"
        /\ up' = [up EXCEPT ![i] = FALSE] /\ UNCHANGED <<unit, entry>>
        /\ owed' = IF up[i] /\ ~entry[s] THEN [owed EXCEPT ![i] = "nothing"] ELSE owed
    BY DEF StopIt, Beside
  <1>3. SessionsOf(i)' = SessionsOf(i) /\ s \in SessionsOf(i) /\ ~up'[i]
    BY <1>1, <1>2 DEF SessionsOf
  <1>4. CASE up[i] /\ ~entry[s]
    BY <1>1, <1>2, <1>4 DEF Owing
  <1>5. CASE ~(up[i] /\ ~entry[s])
    BY <1>1, <1>2, <1>3, <1>5 DEF Owing
  <1>6. QED  BY <1>4, <1>5

\* One that goes leaves the service up, or leaves it to those that found it so.
LEMMA GoneOwes ==
    ASSUME OwedInv, NEW s \in Session, Leave(s) \/ Unanswered(s)
    PROVE  Owing(WorksOn[s])'
  <1> DEFINE i == WorksOn[s]
  <1>1. /\ i \in Instance /\ Owing(i)
        /\ up \in [Instance -> BOOLEAN] /\ owed \in [Instance -> {"nothing", "up", "down", "unmet"}]
        /\ at \in [Session -> {"none", "trapped", "shell", "asked"}] /\ entry \in [Session -> BOOLEAN]
    BY StepTypes, SessionAssumption DEF OwedInv, TypeInv, WorldType
  <1>2. at[s] # "none" /\ UNCHANGED unit
    BY DEF Leave, Unanswered, Gone, Beside
  <1>3. CASE Leave(s) /\ ~up[i]
    <2>1. at' = [at EXCEPT ![s] = "asked"] /\ UNCHANGED <<entry, owed, up>>
      BY <1>3 DEF Leave
    <2>2. SessionsOf(i)' = SessionsOf(i)
      BY <1>1, <1>2, <2>1 DEF SessionsOf
    <2>3. QED  BY <1>1, <1>2, <2>1, <2>2 DEF Owing
  <1>4. CASE (Leave(s) /\ up[i]) \/ Unanswered(s)
    <2>1. /\ at' = [at EXCEPT ![s] = "none"] /\ entry' = [entry EXCEPT ![s] = FALSE]
          /\ owed' = IF OnlyOne(s) THEN [owed EXCEPT ![i] = "nothing"] ELSE owed
      BY <1>4 DEF Leave, Unanswered, Gone
    <2>2. /\ s \in SessionsOf(i) /\ SessionsOf(i)' = SessionsOf(i) \ {s}
          /\ \A z \in SessionsOf(i) \ {s} : entry'[z] = entry[z]
      BY <1>1, <1>2, <2>1 DEF SessionsOf
    <2>3. CASE OnlyOne(s)
      BY <1>1, <2>1, <2>3 DEF Owing
    <2>4. CASE ~OnlyOne(s)
      <3>1. owed' = owed
        BY <2>1, <2>4
      <3>2. /\ up[i] => up'[i]
            /\ up'[i] /\ ~up[i] => entry[s]
            /\ entry[s] /\ unit[i] # "absent" => up'[i]
        <4>1. CASE Leave(s) /\ up[i]
          BY <4>1 DEF Leave
        <4>2. CASE Unanswered(s)
          BY <1>1, <4>2 DEF Unanswered, Starts, StartsUnanswered
        <4>3. QED  BY <1>4, <4>1, <4>2
      <3>3. QED  BY <1>1, <1>2, <2>2, <3>1, <3>2 DEF Owing
    <2>5. QED  BY <2>3, <2>4
  <1>5. QED  BY <1>3, <1>4

\* A signal at the question leaves what is owed to those, or unmet.
LEMMA InterruptedOwes ==
    ASSUME OwedInv, NEW s \in Session, Interrupted(s)
    PROVE  Owing(WorksOn[s])'
  <1> DEFINE i == WorksOn[s]
             heirs == {z \in SessionsOf(i) \ {s} : entry[z]}
  <1>1. /\ i \in Instance /\ Owing(i)
        /\ owed \in [Instance -> {"nothing", "up", "down", "unmet"}]
        /\ at \in [Session -> {"none", "trapped", "shell", "asked"}] /\ entry \in [Session -> BOOLEAN]
    BY StepTypes, SessionAssumption DEF OwedInv, TypeInv, WorldType
  <1>2. /\ at[s] = "asked" /\ UNCHANGED <<unit, up>>
        /\ at' = [at EXCEPT ![s] = "none"] /\ entry' = [entry EXCEPT ![s] = FALSE]
        /\ owed' = IF owed[i] = "up" /\ ~up[i] /\ heirs = {} THEN [owed EXCEPT ![i] = "unmet"]
                   ELSE IF OnlyOne(s) THEN [owed EXCEPT ![i] = "nothing"] ELSE owed
    BY DEF Interrupted, Beside
  <1>3. /\ SessionsOf(i)' = SessionsOf(i) \ {s}
        /\ \A z \in SessionsOf(i) \ {s} : entry'[z] = entry[z]
    BY <1>1, <1>2 DEF SessionsOf
  <1>4. CASE owed' # owed
    <2>1. owed'[i] \in {"nothing", "unmet"}
      BY <1>1, <1>2, <1>4
    <2>2. QED  BY <2>1 DEF Owing
  <1>5. CASE owed' = owed
    <2>1. owed[i] = "up" /\ ~up[i] => heirs # {}
      BY <1>1, <1>2, <1>5
    <2>2. QED  BY <1>1, <1>2, <1>3, <1>5, <2>1 DEF Owing
  <1>6. QED  BY <1>4, <1>5

LEMMA SessionOwes ==
    ASSUME OwedInv, SessionStep
    PROVE  \A i \in Instance : Owing(i)'
  <1>1. \A s \in Session : WorksOn[s] \in Instance
    BY SessionAssumption
  <1>2. CASE \E j \in Instance : Control(j)
    BY <1>2, Settled
  <1>3. CASE \E s \in Session : Answered(s) \/ Lost(s)
    BY <1>1, <1>3, Settled
  <1>4. CASE \E s \in Session : Enter(s) \/ StopIt(s) \/ Leave(s) \/ Unanswered(s) \/ Interrupted(s)
    <2>1. PICK s \in Session : Enter(s) \/ StopIt(s) \/ Leave(s) \/ Unanswered(s) \/ Interrupted(s)
      BY <1>4
    <2>2. Owing(WorksOn[s])'
      BY <2>1, EnterOwes, StopOwes, GoneOwes, InterruptedOwes
    <2>3. \A i \in Instance : i # WorksOn[s] => Owing(i)'
      BY <2>1, OthersOwe
    <2>4. QED  BY <2>2, <2>3
  <1>5. QED  BY <1>2, <1>3, <1>4 DEF SessionStep

LEMMA NextOwes == OwedInv /\ [Next]_vars => OwedInv'
  <1> SUFFICES ASSUME OwedInv, [Next]_vars  PROVE OwedInv'
    OBVIOUS
  <1>1. TypeInv'
    BY NextType DEF OwedInv
  <1>2. ASSUME UNCHANGED <<service, sessions>>  PROVE \A i \in Instance : Owing(i)'
    BY <1>2, OwingStays DEF OwedInv, service, sessions
  <1>3. CASE UNCHANGED vars
    BY <1>1, <1>2, <1>3 DEF OwedInv, vars, world
  <1>4. CASE SessionStep
    BY <1>1, <1>4, SessionOwes DEF OwedInv
  <1>5. CASE \E far \in 0 .. 3 : Effect(far)
    <2>1. PICK far \in 0 .. 3 : Effect(far)
      BY <1>5
    <2>2. UnitEffect(far) \/ UNCHANGED <<service, sessions>>
      BY <2>1 DEF Effect, ConfigEffect, ScriptEffect, BashrcEffect
    <2>3. QED  BY <1>1, <1>2, <2>2, UnitsOwe DEF OwedInv
  <1>6. CASE UndoUnit
    BY <1>1, <1>6, UnitsOwe DEF OwedInv
  <1>7. CASE Next /\ ~SessionStep /\ ~UndoUnit /\ ~\E far \in 0 .. 3 : Effect(far)
    <2>1. 3 \in 0 .. 3 /\ 0 .. 2 \subseteq 0 .. 3
      OBVIOUS
    <2>2. ~RunStep /\ ~RunFails
      BY <1>7, <2>1 DEF RunStep, RunFails
    <2>3. Die => UNCHANGED <<service, sessions>>
      BY <1>7 DEF Die, WrittenShort, world
    <2>4. UNCHANGED <<service, sessions>>
      <3>1. CASE UndoConfig \/ UndoScript \/ UndoBashrc \/ UndoBashrcFails
        BY <3>1 DEF UndoConfig, UndoScript, UndoBashrc, UndoBashrcFails, WrittenShort
      <3>2. CASE ~(UndoConfig \/ UndoScript \/ UndoBashrc \/ UndoBashrcFails)
        BY <1>7, <2>2, <2>3, <3>2 DEF Next, SessionStep, Install, Rollback, Begin, BeginRollback, Stops, Skip,
           Finish, SnapshotConfig, SnapshotUnit, SnapshotScript, SnapshotBashrc, Snapshotted, Types, Tidies, world
      <3>3. QED  BY <3>1, <3>2
    <2>5. QED  BY <1>1, <1>2, <2>4 DEF OwedInv
  <1>8. QED  BY <1>3, <1>4, <1>5, <1>6, <1>7

\* The last of the sessions finds what is owed, or starts it.
LEMMA LastPutsBack ==
    ASSUME OwedInv, NEW s \in Session, (Leave(s) /\ at'[s] = "none") \/ Unanswered(s),
           OnlyOne(s), owed[WorksOn[s]] \in {"up", "down"}
    PROVE  up'[WorksOn[s]] = (owed[WorksOn[s]] = "up")
  <1> DEFINE i == WorksOn[s]
  <1>1. /\ i \in Instance /\ Owing(i)
        /\ up \in [Instance -> BOOLEAN] /\ owed \in [Instance -> {"nothing", "up", "down", "unmet"}]
        /\ at \in [Session -> {"none", "trapped", "shell", "asked"}] /\ entry \in [Session -> BOOLEAN]
    BY StepTypes, SessionAssumption DEF OwedInv, TypeInv, WorldType
  <1>2. owed[i] \in {"up", "down"} /\ up[i] \in BOOLEAN /\ SessionsOf(i) = {s}
    BY <1>1 DEF OnlyOne
  <1>3. /\ owed[i] = "down" => ~up[i] /\ ~entry[s]
        /\ owed[i] = "up" => up[i] \/ (unit[i] # "absent" /\ entry[s])
    BY <1>1, <1>2 DEF Owing
  <1>4. CASE Leave(s) /\ at'[s] = "none"
    <2>1. up[i]
      <3>1. ~up[i] => at' = [at EXCEPT ![s] = "asked"]
        BY <1>4 DEF Leave
      <3>2. ~up[i] => at'[s] = "asked"
        BY <1>1, <3>1
      <3>3. QED  BY <1>4, <3>2
    <2>2. up' = up
      BY <1>4 DEF Leave
    <2>3. owed[i] = "up" /\ up'[i] = TRUE
      BY <1>1, <1>2, <1>3, <2>1, <2>2
    <2>4. QED  BY <2>3
  <1>5. CASE Unanswered(s)
    <2>1. up' = IF entry[s] /\ unit[i] # "absent" THEN [up EXCEPT ![i] = TRUE] ELSE up
      BY <1>5 DEF Unanswered, Starts, StartsUnanswered
    <2>2. CASE owed[i] = "up"
      <3>1. up'[i] = TRUE
        BY <1>1, <1>3, <2>1, <2>2
      <3>2. QED  BY <2>2, <3>1
    <2>3. CASE owed[i] = "down"
      <3>1. up'[i] = FALSE
        BY <1>2, <1>3, <2>1, <2>3
      <3>2. QED  BY <2>3, <3>1
    <2>4. QED  BY <1>2, <2>2, <2>3
  <1>6. QED  BY <1>4, <1>5

\* When the last of any number of sessions goes with its question unanswered, or
\* not asked, and nothing else has touched the service, it is up if and only if it
\* was before the first came, in whatever order they came, stopped it, left and were
\* asked, and whatever the commands and the sessions of other instances did
\* meanwhile; a session that a signal ends at its question puts nothing back, and
\* then only another that found the service up does.
THEOREM ServiceIsPutBack == Spec => ServicePutBack
  <1>1. Init => OwedInv
    BY InitType DEF Init, OwedInv, Owing
  <1>2. OwedInv /\ [Next]_vars
        => [\A s \in Session : (Leave(s) /\ at'[s] = "none") \/ Unanswered(s) => PutsBack(s)]_vars
    BY LastPutsBack DEF PutsBack
  <1>3. QED  BY <1>1, <1>2, NextOwes, PTL DEF Spec, ServicePutBack

=============================================================================
