--------------------------- MODULE DatabaseProofs ---------------------------
(***************************************************************************)
(* The database steps, for every family, depth, bound and choice of deaths *)
(* and of what the administrator does: types; what is never dropped; that  *)
(* what finishes is initialized; and that a rollback gives all back.       *)
(***************************************************************************)
EXTENDS Database, TLAPS

-----------------------------------------------------------------------------
\* The two undos of Next that do nothing.
NoUndo == NotOurs(DatabaseStep, snap.db) \/ NotOurs(Role, snap.role)

\* The undo of setup-postgres, up to its last call.
PostgresCall == ListDatabases \/ StopServer \/ DisableServer \/ PurgePackages

\* The verdict of a snapshot and the claim of a run are verdicts.
LEMMA VerdictType ==
    /\ \A b : Verdict(b) \in PreState
    /\ \A p \in PreState : Made(p) \in PreState
  BY DEF Verdict, Made, PreState

\* A process starts with, and no manifest holds, the default snapshots.
LEMMA DefaultType ==
    /\ Default \in Snapshots
    /\ NoManifest \in [recorded : 0 .. 5, snap : Snapshots, finished : BOOLEAN]
    /\ NoPurge \in [call : Calls, safe : BOOLEAN, late : BOOLEAN]
<1>1. [x \in Axis |-> "Untracked"] \in [Axis -> PreState]
  BY DEF PreState
<1>2. Default \in Snapshots
  BY <1>1, DepthAssumption DEF Default, Snapshots, PreState
<1>3. NoPurge \in [call : Calls, safe : BOOLEAN, late : BOOLEAN]
  BY DEF NoPurge, Calls
<1>. QED
  BY <1>2, <1>3 DEF NoManifest

-----------------------------------------------------------------------------
\* The machine, and what the installation found, in the first state.
LEMMA InitType == Init => TypeOK
<1>. SUFFICES ASSUME Init PROVE TypeOK
  OBVIOUS
<1>1. family \in Families /\ server \in [Axis -> BOOLEAN] /\ level \in 0 .. Depth /\ other \in BOOLEAN
  BY DEF Init, ServerMay
<1>2. role \in Owner /\ db \in Owner /\ schema \in {"none", "partial", "whole"}
  BY DEF Init, Owner
<1>3. found \in [server : [Axis -> BOOLEAN], level : 0 .. Depth]
  BY <1>1 DEF Init
<1>4. dbOurs \in BOOLEAN /\ aggressive \in BOOLEAN /\ cut \in BOOLEAN
  BY DEF Init
<1>5. pc = "idle" /\ idx \in 1 .. 6 /\ faults \in 0 .. MaxFaults
  BY MaxFaultsAssumption DEF Init
<1>6. disk = NoManifest /\ snap = Default /\ purge = NoPurge
  BY DEF Init
<1>7. ProcessType
  BY <1>4, <1>5, <1>6, DefaultType DEF ProcessType
<1>. QED
  BY <1>1, <1>2, <1>3, <1>7 DEF TypeOK, WorldType

\* A fault is counted up to the bound.
LEMMA FaultType ==
    ASSUME ProcessType, Fault \/ UNCHANGED faults
    PROVE  faults' \in 0 .. MaxFaults
  BY MaxFaultsAssumption DEF ProcessType, Fault

\* A process that ends leaves the state of no process.
LEMMA ExitType ==
    ASSUME ProcessType, Exit, cut' \in BOOLEAN, faults' \in 0 .. MaxFaults,
           disk' \in [recorded : 0 .. 5, snap : Snapshots, finished : BOOLEAN]
    PROVE  ProcessType'
<1>1. dbOurs' \in BOOLEAN /\ aggressive' \in BOOLEAN
  BY DEF Exit
<1>2. /\ pc' = "idle" /\ idx' \in 1 .. 6 /\ snap' \in Snapshots
      /\ purge' \in [call : Calls, safe : BOOLEAN, late : BOOLEAN]
  BY DefaultType DEF Exit
<1>. QED
  BY <1>1, <1>2 DEF ProcessType

\* Undoing the steps up to k starts at k, or ends the process.
LEMMA UndoFromType ==
    ASSUME ProcessType, NEW k \in 0 .. 5, UndoFrom(k), UNCHANGED <<disk, cut, faults>>
    PROVE  ProcessType'
<1>1. CASE k = 0
  BY <1>1, ExitType DEF UndoFrom, ProcessType
<1>2. CASE k # 0
  BY <1>2 DEF UndoFrom, ProcessType, Steps
<1>. QED
  BY <1>1, <1>2

\* The next undo is that of the step before, or the manifest is cleared.
LEMMA NextUndoType ==
    ASSUME ProcessType, pc = "undo", NextUndo, faults' \in 0 .. MaxFaults
    PROVE  ProcessType'
<1>1. CASE idx = 1
  BY <1>1, ExitType, DefaultType DEF NextUndo
<1>2. CASE idx # 1
  BY <1>2 DEF NextUndo, ProcessType, Steps
<1>. QED
  BY <1>1, <1>2

\* A run that succeeded goes to the next step with its snapshots on disk.
LEMMA RanType ==
    ASSUME ProcessType, pc = "run", Ran, snap' \in Snapshots
    PROVE  ProcessType'
  BY DEF ProcessType, Ran, Steps

\* A run that failed is undone from its own step.
LEMMA FailedType ==
    ASSUME ProcessType, pc = "run", Failed, snap' \in Snapshots, faults' \in 0 .. MaxFaults
    PROVE  ProcessType'
  BY DEF ProcessType, Failed

\* A snapshot is followed by the run of its step.
LEMMA SnapshottedType ==
    ASSUME ProcessType, Snapshotted, NEW k \in Steps, At(k), snap' \in Snapshots, dbOurs' \in BOOLEAN
    PROVE  ProcessType'
  BY DEF ProcessType, Snapshotted, At

\* The numbers of the steps.
LEMMA StepNumbers ==
    /\ Postgres \in Steps /\ Role \in Steps /\ DatabaseStep \in Steps
    /\ DataDir \in Steps /\ Schema \in Steps
  BY DEF Postgres, Role, DatabaseStep, DataDir, Schema, Steps

\* Whatever axes a run did, the server has four.
LEMMA WithType == \A done : With(done) \in [Axis -> BOOLEAN]
  BY DEF With

\* What setup-data-dir takes down: a verdict and one of the directories.
LEMMA DataDirSnapshotType ==
    ASSUME WorldType
    PROVE  /\ (IF level = Depth THEN 0 ELSE level + 1) \in 0 .. Depth
           /\ Verdict(level = Depth) \in PreState
<1>1. (IF level = Depth THEN 0 ELSE level + 1) \in 0 .. Depth
  BY DepthAssumption DEF WorldType
<1>2. Verdict(level = Depth) \in PreState
  BY DEF Verdict, PreState
<1>. QED
  BY <1>1, <1>2

-----------------------------------------------------------------------------
\* A snapshot leaves the machine alone and takes down verdicts.
LEMMA SnapshotStepType ==
    ASSUME TypeOK,
           SnapshotPostgres \/ SnapshotRole \/ SnapshotDatabase \/ SnapshotDataDir \/ SnapshotSchema
    PROVE  TypeOK'
<1>. USE StepNumbers, SnapshottedType, VerdictType DEF TypeOK
<1>1. WorldType'
  BY DEF SnapshotPostgres, SnapshotRole, SnapshotDatabase, SnapshotDataDir, SnapshotSchema,
         Snapshotted, world, WorldType
<1>2. CASE SnapshotPostgres
  <2>1. PICK P : snap' = [snap EXCEPT !.pg = P] /\ P \in [Axis -> PreState]
    <3>1. [x \in Axis |-> Verdict(server[x] /\ (x = "cluster" => family = "fedora"))] \in [Axis -> PreState]
      BY VerdictType
    <3>. QED
      BY <1>2, <3>1 DEF SnapshotPostgres
  <2>2. snap \in Snapshots /\ dbOurs \in BOOLEAN
    BY DEF ProcessType
  <2>3. snap' \in Snapshots
    BY <2>1, <2>2 DEF Snapshots
  <2>. QED
    BY <1>1, <1>2, <2>2, <2>3 DEF SnapshotPostgres
<1>3. CASE SnapshotRole
  BY <1>1, <1>3 DEF SnapshotRole, ProcessType, Snapshots
<1>4. CASE SnapshotDatabase
  BY <1>1, <1>4 DEF SnapshotDatabase, ProcessType, Snapshots
<1>5. CASE SnapshotDataDir
  <2>1. snap \in Snapshots /\ dbOurs \in BOOLEAN
    BY DEF ProcessType
  <2>2. PICK r \in 0 .. Depth, p \in PreState :
          snap' = [snap EXCEPT !.dir = p, !.root = r, !.dbWasOurs = dbOurs]
    BY <1>5, DataDirSnapshotType DEF SnapshotDataDir
  <2>3. snap' \in Snapshots
    BY <2>1, <2>2 DEF Snapshots
  <2>. QED
    BY <1>1, <1>5, <2>1, <2>3 DEF SnapshotDataDir
<1>6. CASE SnapshotSchema
  <2>1. snap \in Snapshots /\ dbOurs' \in BOOLEAN
    BY <1>6 DEF SnapshotSchema, ProcessType
  <2>2. Verdict(Initialized) \in PreState
    BY VerdictType
  <2>3. snap' \in Snapshots
    BY <1>6, <2>1, <2>2 DEF SnapshotSchema, Snapshots
  <2>. QED
    BY <1>1, <1>6, <2>1, <2>3 DEF SnapshotSchema
<1>. QED
  BY <1>2, <1>3, <1>4, <1>5, <1>6

\* A run that succeeds makes one thing of the machine and claims it.
LEMMA RunStepType ==
    ASSUME TypeOK, RunPostgres \/ RunRole \/ RunDatabase \/ RunDataDir \/ RunSchema
    PROVE  TypeOK'
<1>. USE RanType, VerdictType DEF TypeOK
<1>1. CASE RunPostgres
  <2>1. WorldType'
    BY <1>1, WithType DEF RunPostgres, Ran, WorldType
  <2>2. [x \in Axis |-> IF x \in ToDo THEN "CreatedByUs" ELSE snap.pg[x]] \in [Axis -> PreState]
    BY DEF ProcessType, Snapshots, PreState
  <2>3. snap' \in Snapshots
    <3>1. PICK P \in [Axis -> PreState] : snap' = [snap EXCEPT !.pg = P]
      BY <1>1, <2>2 DEF RunPostgres
    <3>. QED
      BY <3>1 DEF ProcessType, Snapshots
  <2>. QED
    BY <1>1, <2>1, <2>3 DEF RunPostgres, Running
<1>2. CASE RunRole
  BY <1>2 DEF RunRole, Running, Ran, WorldType, Owner, ProcessType, Snapshots
<1>3. CASE RunDatabase
  BY <1>3 DEF RunDatabase, Running, Ran, WorldType, Owner, ProcessType, Snapshots
<1>4. CASE RunDataDir
  <2>1. WorldType'
    BY <1>4, DepthAssumption DEF RunDataDir, Ran, WorldType
  <2>. QED
    BY <1>4, <2>1 DEF RunDataDir, Running, ProcessType, Snapshots
<1>5. CASE RunSchema
  BY <1>5 DEF RunSchema, Running, Ran, WorldType, ProcessType, Snapshots
<1>. QED
  BY <1>1, <1>2, <1>3, <1>4, <1>5

\* A run that fails leaves a part of it.
LEMMA RunFailsType ==
    ASSUME TypeOK, RunPostgresFails \/ RunFails \/ RunDataDirFails \/ RunSchemaFails
    PROVE  TypeOK'
<1>. USE FailedType, FaultType DEF TypeOK
<1>1. CASE RunPostgresFails
  <2>1. PICK n \in 0 .. 4 :
          LET done == {x \in ToDo : Order[x] <= n}
          IN  /\ server' = [With(done) EXCEPT !["active"] = @ /\ n < 4]
              /\ snap' = [snap EXCEPT !.pg = [x \in Axis |-> IF x \in done THEN "CreatedByUs" ELSE @[x]]]
    BY <1>1 DEF RunPostgresFails
  <2>. DEFINE done == {x \in ToDo : Order[x] <= n}
  <2>2. server' \in [Axis -> BOOLEAN]
    <3>1. With(done) \in [Axis -> BOOLEAN]
      BY WithType
    <3>. HIDE DEF done
    <3>2. server' = [With(done) EXCEPT !["active"] = @ /\ n < 4]
      BY <2>1 DEF done
    <3>. QED
      BY <3>1, <3>2
  <2>3. snap' \in Snapshots
    <3>1. [x \in Axis |-> IF x \in done THEN "CreatedByUs" ELSE snap.pg[x]] \in [Axis -> PreState]
      BY DEF ProcessType, Snapshots, PreState
    <3>2. PICK P \in [Axis -> PreState] : snap' = [snap EXCEPT !.pg = P]
      BY <2>1, <3>1
    <3>. QED
      BY <3>2 DEF ProcessType, Snapshots
  <2>4. WorldType'
    BY <1>1, <2>2 DEF RunPostgresFails, Failed, WorldType
  <2>. QED
    BY <1>1, <2>3, <2>4 DEF RunPostgresFails, Running
<1>2. CASE RunFails
  BY <1>2 DEF RunFails, Failed, world, WorldType, ProcessType
<1>3. CASE RunDataDirFails
  BY <1>3, DepthAssumption DEF RunDataDirFails, Running, Failed, WorldType, ProcessType
<1>4. CASE RunSchemaFails
  BY <1>4 DEF RunSchemaFails, Running, Failed, WorldType, ProcessType
<1>. QED
  BY <1>1, <1>2, <1>3, <1>4

\* What an undo takes away leaves a machine.
LEMMA UndoStepType ==
    ASSUME TypeOK,
           \/ UndoSchema \/ UndoDataDir \/ UndoDatabase \/ UndoRole \/ RemoveCluster
           \/ NoUndo
    PROVE  TypeOK'
<1>. USE NextUndoType, FaultType DEF TypeOK, Undoing
<1>1. UNCHANGED <<family, found>> /\ pc = "undo" /\ NextUndo
  BY DEF UndoSchema, UndoDataDir, UndoDatabase, UndoRole, RemoveCluster, AtCall, NoUndo, NotOurs,
     NextUndo
<1>2. CASE UndoSchema \/ NoUndo
  BY <1>1, <1>2 DEF UndoSchema, NoUndo, NotOurs, world, WorldType
<1>3. CASE UndoDataDir
  <2>1. level' \in 0 .. Depth
    <3>1. Target \in 1 .. Depth
      <4>1. snap.root \in 0 .. Depth
        BY DEF ProcessType, Snapshots
      <4>. QED
        BY <4>1, DepthAssumption DEF Target
    <3>2. level \in 0 .. Depth
      BY DEF WorldType
    <3>3. CASE level' = Target - 1
      BY <3>1, <3>3, DepthAssumption
    <3>4. CASE level' \in Target - 1 .. level
      BY <3>1, <3>2, <3>4, DepthAssumption
    <3>. QED
      BY <1>3, <3>2, <3>3, <3>4 DEF UndoDataDir
  <2>. QED
    BY <1>1, <1>3, <2>1 DEF UndoDataDir, WorldType
<1>4. CASE UndoDatabase
  BY <1>1, <1>4 DEF UndoDatabase, WorldType, Owner
<1>5. CASE UndoRole
  BY <1>1, <1>5 DEF UndoRole, WorldType, Owner
<1>6. CASE RemoveCluster
  BY <1>1, <1>6 DEF RemoveCluster, WorldType, Owner
<1>. QED
  BY <1>2, <1>3, <1>4, <1>5, <1>6

\* What the calls of the undo of setup-postgres leave alone.
LEMMA CallKeeps ==
    ASSUME PostgresCall
    PROVE  /\ UNCHANGED <<role, db, schema, other, level, family, found, disk, pc, idx, snap,
                          dbOurs, aggressive, cut>>
           /\ pc = "undo" /\ idx = Postgres /\ (Fault \/ UNCHANGED faults)
<1>1. CASE ListDatabases
  BY <1>1 DEF ListDatabases, AtCall, Undoing, world
<1>2. CASE StopServer
  BY <1>2 DEF StopServer, AtCall, Undoing, TurnsOff, GoesOn
<1>3. CASE DisableServer
  BY <1>3 DEF DisableServer, AtCall, Undoing, TurnsOff, GoesOn
<1>4. CASE PurgePackages
  BY <1>4 DEF PurgePackages, AtCall, Undoing, TurnsOff, GoesOn
<1>. QED
  BY <1>1, <1>2, <1>3, <1>4 DEF PostgresCall

\* Where the undo of setup-postgres goes next, with what it decided.
LEMMA CallGoesOn ==
    ASSUME TypeOK, PostgresCall, ~ListDatabases
    PROVE  /\ purge' \in [call : Calls, safe : BOOLEAN, late : BOOLEAN]
           /\ purge'.safe = purge.safe /\ purge'.late = purge.late
           /\ purge.call # "check" /\ purge'.call # "check"
<1>1. purge \in [call : Calls, safe : BOOLEAN, late : BOOLEAN]
  BY DEF TypeOK, ProcessType
<1>2. PICK c \in Calls \ {"check"} : purge' = [purge EXCEPT !.call = c]
  BY DEF PostgresCall, StopServer, DisableServer, PurgePackages, GoesOn, Calls
<1>3. purge.call # "check"
  BY DEF PostgresCall, StopServer, DisableServer, PurgePackages, AtCall
<1>. QED
  BY <1>1, <1>2, <1>3

\* A call leaves a server, and goes on.
LEMMA CallType == TypeOK /\ PostgresCall => TypeOK'
<1>. SUFFICES ASSUME TypeOK, PostgresCall PROVE TypeOK'
  OBVIOUS
<1>. USE DEF TypeOK
<1>1. server' \in [Axis -> BOOLEAN]
  BY DEF PostgresCall, ListDatabases, StopServer, DisableServer, PurgePackages, TurnsOff, world, WorldType
<1>2. purge' \in [call : Calls, safe : BOOLEAN, late : BOOLEAN]
  <2>1. CASE ListDatabases
    <3>1. PurgeSafe \in BOOLEAN
      BY DEF PurgeSafe
    <3>. QED
      BY <2>1, <3>1 DEF ListDatabases, Calls
  <2>. QED
    BY <2>1, CallGoesOn
<1>3. WorldType'
  BY <1>1, CallKeeps DEF WorldType
<1>4. faults' \in 0 .. MaxFaults
  BY CallKeeps, FaultType
<1>. QED
  BY <1>2, <1>3, <1>4, CallKeeps DEF ProcessType

\* A death leaves a part of a run on the machine, and the state of no process.
LEMMA DieType == TypeOK /\ Die => TypeOK'
<1>. SUFFICES ASSUME TypeOK, Die PROVE TypeOK'
  OBVIOUS
<1>. USE DEF TypeOK
<1>1. ProcessType'
  <2>1. cut' \in BOOLEAN
    BY DEF Die
  <2>2. faults' \in 0 .. MaxFaults
    BY FaultType DEF Die
  <2>3. Exit /\ UNCHANGED disk
    BY DEF Die
  <2>. QED
    BY <2>1, <2>2, <2>3, ExitType DEF ProcessType
<1>2. UNCHANGED <<family, found>>
  BY DEF Die
<1>3. CASE UNCHANGED world
  BY <1>1, <1>2, <1>3 DEF world, WorldType
<1>4. CASE DieRunning
  <2>1. server' \in [Axis -> BOOLEAN]
    BY <1>4, WithType DEF DieRunning, WorldType
  <2>2. role' \in Owner /\ db' \in Owner /\ schema' \in {"none", "partial", "whole"} /\ UNCHANGED other
    BY <1>4 DEF DieRunning, WorldType, Owner
  <2>3. level' \in 0 .. Depth
    <3>1. level \in 0 .. Depth
      BY DEF WorldType
    <3>2. UNCHANGED level \/ level' \in level .. Depth
      BY <1>4 DEF DieRunning
    <3>. QED
      BY <3>1, <3>2, DepthAssumption
  <2>. QED
    BY <1>1, <1>2, <2>1, <2>2, <2>3 DEF WorldType
<1>. QED
  BY <1>3, <1>4 DEF Die

\* The steps that start, stop and finish a command, and the administrator's.
LEMMA CommandType ==
    ASSUME TypeOK, AdminCreates \/ Install \/ Rollback \/ Stops \/ Finish
    PROVE  TypeOK'
<1>. USE DEF TypeOK
<1>1. CASE AdminCreates
  <2>1. db' \in Owner /\ schema' \in {"none", "partial", "whole"} /\ other' \in BOOLEAN
    BY <1>1 DEF AdminCreates, WorldType, Owner
  <2>2. WorldType'
    BY <1>1, <2>1 DEF AdminCreates, WorldType
  <2>3. purge' \in [call : Calls, safe : BOOLEAN, late : BOOLEAN]
    <3>1. PICK b \in BOOLEAN : purge' = purge \/ purge' = [purge EXCEPT !.late = b]
      <4>1. (purge.late \/ (purge.call # "check" /\ ~other)) \in BOOLEAN
        BY DEF ProcessType
      <4>. QED
        BY <1>1, <4>1 DEF AdminCreates
    <3>. QED
      BY <3>1 DEF ProcessType
  <2>4. ProcessType'
    BY <1>1, <2>3 DEF AdminCreates, ProcessType
  <2>. QED
    BY <2>2, <2>4
<1>2. CASE Install
  <2>1. WorldType'
    BY <1>2 DEF Install, world, WorldType
  <2>2. idx' \in 1 .. 6
    BY <1>2 DEF Install, ProcessType
  <2>. QED
    BY <1>2, <2>1, <2>2 DEF Install, ProcessType
<1>3. CASE Rollback
  <2>1. WorldType'
    BY <1>3 DEF Rollback, world, WorldType
  <2>2. idx' \in Steps /\ idx' \in 1 .. 6
    BY <1>3 DEF Rollback, ProcessType, Steps
  <2>. QED
    BY <1>3, <2>1, <2>2 DEF Rollback, ProcessType
<1>4. CASE Stops
  <2>1. WorldType'
    BY <1>4 DEF Stops, world, WorldType
  <2>2. idx - 1 \in 0 .. 5
    BY DEF ProcessType
  <2>. QED
    BY <1>4, <2>1, <2>2, UndoFromType DEF Stops
<1>5. CASE Finish
  <2>1. WorldType'
    BY <1>5 DEF Finish, world, WorldType
  <2>2. disk' \in [recorded : 0 .. 5, snap : Snapshots, finished : BOOLEAN]
    BY <1>5 DEF Finish, ProcessType
  <2>3. Exit /\ cut' \in BOOLEAN /\ faults' \in 0 .. MaxFaults
    BY <1>5 DEF Finish, ProcessType
  <2>. QED
    BY <2>1, <2>2, <2>3, ExitType
<1>. QED
  BY <1>1, <1>2, <1>3, <1>4, <1>5

\* The actions, grouped as the lemmas are.
LEMMA NextCases ==
    ASSUME Next
    PROVE  \/ AdminCreates \/ Install \/ Rollback \/ Stops \/ Finish
           \/ SnapshotPostgres \/ SnapshotRole \/ SnapshotDatabase \/ SnapshotDataDir \/ SnapshotSchema
           \/ RunPostgres \/ RunRole \/ RunDatabase \/ RunDataDir \/ RunSchema
           \/ RunPostgresFails \/ RunFails \/ RunDataDirFails \/ RunSchemaFails
           \/ UndoSchema \/ UndoDataDir \/ UndoDatabase \/ UndoRole \/ RemoveCluster
           \/ PostgresCall \/ NoUndo
           \/ Die
  BY DEF Next, NoUndo, PostgresCall

\* No step leaves the types.
LEMMA TypeStep == TypeOK /\ [Next]_vars => TypeOK'
<1>. SUFFICES ASSUME TypeOK, [Next]_vars PROVE TypeOK'
  OBVIOUS
<1>1. CASE Next
  BY <1>1, NextCases, CommandType, SnapshotStepType, RunStepType, RunFailsType, UndoStepType, CallType,
     DieType
<1>2. CASE UNCHANGED vars
  BY <1>2 DEF vars, world, TypeOK, WorldType, ProcessType
<1>. QED
  BY <1>1, <1>2

\* Every variable stays in its range: no step index leaves the sequence, and a
\* manifest never records more than the five steps.
THEOREM DatabaseTypeOK == Spec => []TypeOK
  BY InitType, TypeStep, PTL DEF Spec

-----------------------------------------------------------------------------
\* A verdict never calls ours what a snapshot has only seen.
LEMMA VerdictIsNoClaim == \A b : Verdict(b) # "CreatedByUs"
  BY DEF Verdict

\* What memory or the manifest claims is not the administrator's.
ClaimIsOurs ==
    /\ snap.db = "CreatedByUs" => db # "theirs"
    /\ disk.snap.db = "CreatedByUs" => db # "theirs"

\* The verdict of create-database, as it reaches the steps after it: what the
\* context calls ours is claimed once create-database has run, and a schema is
\* written only into a database that is claimed.
VerdictIsPassedOn ==
    /\ pc = "run" /\ idx = DatabaseStep /\ dbOurs => snap.db = "Untracked"
    /\ pc \in {"snapshot", "run"} /\ idx > DatabaseStep /\ dbOurs => snap.db = "CreatedByUs"
    /\ pc = "run" /\ idx = Schema => snap.schema = "Preexisting" \/ snap.db = "CreatedByUs"

\* A call of the undo of setup-postgres is made by that undo only; and what it
\* decided to purge is ours, was asked for, and no database stood in the way.
PurgeInv ==
    /\ purge.call # "check" => pc = "undo" /\ idx = Postgres
    /\ purge.safe => /\ purge.call # "check" /\ aggressive
                     /\ snap.pg["installed"] = "CreatedByUs"
                     /\ other => purge.late

\* Outside that undo there is nothing to purge.
LEMMA NoPurgeOutside ==
    ASSUME PurgeInv, UNCHANGED purge, pc # "undo" \/ idx # Postgres
    PROVE  PurgeInv'
  BY DEF PurgeInv

LEMMA ExitPurge == Exit => PurgeInv'
  BY DEF Exit, NoPurge, PurgeInv

\* The last undo ends the process.
LEMMA NextUndoPurge ==
    ASSUME PurgeInv, pc = "undo", NextUndo
    PROVE  PurgeInv'
<1>1. CASE idx = 1
  BY <1>1, ExitPurge DEF NextUndo
<1>2. CASE idx # 1
  BY <1>2, NoPurgeOutside DEF NextUndo, Postgres
<1>. QED
  BY <1>1, <1>2

\* What was decided stays true: the administrator's databases come late.
LEMMA PurgeInvStep == TypeOK /\ PurgeInv /\ [Next]_vars => PurgeInv'
<1>. SUFFICES ASSUME TypeOK, PurgeInv, [Next]_vars PROVE PurgeInv'
  OBVIOUS
<1>1. purge \in [call : Calls, safe : BOOLEAN, late : BOOLEAN] /\ other \in BOOLEAN
  BY DEF TypeOK, WorldType, ProcessType
<1>2. CASE AdminCreates
  <2>1. UNCHANGED <<pc, idx, snap, aggressive>>
    BY <1>2 DEF AdminCreates
  <2>2. CASE UNCHANGED <<other, purge>>
    BY <2>1, <2>2 DEF PurgeInv
  <2>3. CASE ~UNCHANGED <<other, purge>>
    <3>1. purge' = [purge EXCEPT !.late = @ \/ (purge.call # "check" /\ ~other)]
      BY <1>2, <2>3 DEF AdminCreates
    <3>2. purge'.call = purge.call /\ purge'.safe = purge.safe
      BY <1>1, <3>1
    <3>3. purge'.late <=> purge.late \/ (purge.call # "check" /\ ~other)
      BY <1>1, <3>1
    <3>. QED
      BY <2>1, <3>2, <3>3 DEF PurgeInv
  <2>. QED
    BY <2>2, <2>3
<1>3. CASE Install \/ Rollback
  BY <1>3, NoPurgeOutside DEF Install, Rollback
<1>4. CASE Stops \/ Finish
  BY <1>4, NoPurgeOutside, ExitPurge DEF Stops, Finish, UndoFrom
<1>5. CASE SnapshotPostgres \/ SnapshotRole \/ SnapshotDatabase \/ SnapshotDataDir \/ SnapshotSchema
  BY <1>5, NoPurgeOutside DEF SnapshotPostgres, SnapshotRole, SnapshotDatabase, SnapshotDataDir,
     SnapshotSchema, Snapshotted, At
<1>6. CASE RunPostgres \/ RunRole \/ RunDatabase \/ RunDataDir \/ RunSchema
  BY <1>6, NoPurgeOutside DEF RunPostgres, RunRole, RunDatabase, RunDataDir, RunSchema, Running, Ran
<1>7. CASE RunPostgresFails \/ RunFails \/ RunDataDirFails \/ RunSchemaFails
  BY <1>7, NoPurgeOutside DEF RunPostgresFails, RunFails, RunDataDirFails, RunSchemaFails, Running, Failed
<1>8. CASE UndoSchema \/ UndoDataDir \/ UndoDatabase \/ UndoRole \/ RemoveCluster \/ NoUndo
  BY <1>8, NextUndoPurge DEF UndoSchema, UndoDataDir, UndoDatabase, UndoRole, RemoveCluster, NoUndo,
     NotOurs, AtCall, Undoing
<1>9. CASE PostgresCall
  <2>1. pc' = "undo" /\ idx' = Postgres /\ UNCHANGED <<snap, aggressive, other>>
    BY <1>9, CallKeeps
  <2>2. CASE ListDatabases
    <3>1. purge'.call = "stop" /\ purge'.safe = PurgeSafe
      BY <2>2 DEF ListDatabases
    <3>. QED
      BY <2>1, <3>1 DEF PurgeInv, PurgeSafe, ClusterSafeToPurge
  <2>3. CASE ~ListDatabases
    BY <1>9, <2>1, <2>3, CallGoesOn DEF PurgeInv
  <2>. QED
    BY <2>2, <2>3
<1>10. CASE Die
  BY <1>10, ExitPurge DEF Die
<1>11. CASE UNCHANGED vars
  BY <1>11 DEF vars, world, PurgeInv
<1>. QED
  BY <1>2, <1>3, <1>4, <1>5, <1>6, <1>7, <1>8, <1>9, <1>10, <1>11, NextCases

SafeInv == TypeOK /\ ClaimIsOurs /\ VerdictIsPassedOn /\ PurgeInv

\* A process that ends claims nothing in memory.
LEMMA ExitSafe ==
    ASSUME SafeInv, Exit, UNCHANGED db, UNCHANGED disk \/ disk' = NoManifest
    PROVE  ClaimIsOurs' /\ VerdictIsPassedOn'
<1>1. snap'.db = "Untracked" /\ pc' = "idle"
  BY DEF Exit, Default
<1>2. disk'.snap.db = disk.snap.db \/ disk'.snap.db = "Untracked"
  BY DEF NoManifest, Default
<1>. QED
  BY <1>1, <1>2 DEF SafeInv, ClaimIsOurs, VerdictIsPassedOn

\* An undo, and the end of the rollback, claim nothing new.
LEMMA NextUndoSafe ==
    ASSUME SafeInv, pc = "undo", NextUndo, db' # "theirs" \/ UNCHANGED db
    PROVE  ClaimIsOurs' /\ VerdictIsPassedOn'
<1>1. CASE idx = 1
  <2>1. snap'.db = "Untracked" /\ pc' = "idle" /\ disk'.snap.db = "Untracked"
    BY <1>1 DEF NextUndo, Exit, NoManifest, Default
  <2>. QED
    BY <2>1 DEF ClaimIsOurs, VerdictIsPassedOn
<1>2. CASE idx # 1
  BY <1>2 DEF NextUndo, SafeInv, ClaimIsOurs, VerdictIsPassedOn
<1>. QED
  BY <1>1, <1>2

\* A run that fails leaves its snapshots to the rollback.
LEMMA FailedSafe ==
    ASSUME SafeInv, Failed, snap'.db = snap.db, UNCHANGED db
    PROVE  ClaimIsOurs' /\ VerdictIsPassedOn'
  BY DEF Failed, SafeInv, ClaimIsOurs, VerdictIsPassedOn

\* A run that succeeds, and is not that of create-database.
LEMMA RanSafe ==
    ASSUME SafeInv, NEW k \in Steps, Running(k), Ran, k # DatabaseStep,
           snap'.db = snap.db, UNCHANGED db
    PROVE  ClaimIsOurs' /\ VerdictIsPassedOn'
  BY DEF Ran, Running, SafeInv, TypeOK, ProcessType, ClaimIsOurs, VerdictIsPassedOn,
         DatabaseStep, Schema, Steps

\* A command starts from the manifest, and its context without a verdict.
LEMMA CommandSafe ==
    ASSUME SafeInv, AdminCreates \/ Install \/ Rollback \/ Stops \/ Finish
    PROVE  ClaimIsOurs' /\ VerdictIsPassedOn'
<1>1. CASE AdminCreates
  BY <1>1 DEF AdminCreates, Claimed, SafeInv, ClaimIsOurs, VerdictIsPassedOn
<1>2. CASE Install
  BY <1>2 DEF Install, world, SafeInv, ClaimIsOurs, VerdictIsPassedOn
<1>3. CASE Rollback
  BY <1>3 DEF Rollback, world, SafeInv, ClaimIsOurs, VerdictIsPassedOn
<1>4. CASE Stops
  <2>1. UNCHANGED db /\ UNCHANGED disk
    BY <1>4 DEF Stops, world
  <2>2. CASE Exit
    BY <2>1, <2>2, ExitSafe
  <2>3. CASE ~Exit
    BY <1>4, <2>1, <2>3 DEF Stops, UndoFrom, SafeInv, ClaimIsOurs, VerdictIsPassedOn
  <2>. QED
    BY <2>2, <2>3
<1>5. CASE Finish
  <2>1. snap'.db = "Untracked" /\ pc' = "idle"
    BY <1>5 DEF Finish, Exit, Default
  <2>2. disk'.snap = disk.snap /\ UNCHANGED db
    BY <1>5 DEF Finish, world, SafeInv, TypeOK, ProcessType
  <2>. QED
    BY <2>1, <2>2 DEF SafeInv, ClaimIsOurs, VerdictIsPassedOn
<1>. QED
  BY <1>1, <1>2, <1>3, <1>4, <1>5

\* A snapshot never claims; that of create-database says what it saw, and that
\* of initialize-odoo-database refuses to go on without a schema or a claim.
LEMMA SnapshotSafe ==
    ASSUME SafeInv,
           SnapshotPostgres \/ SnapshotRole \/ SnapshotDatabase \/ SnapshotDataDir \/ SnapshotSchema
    PROVE  ClaimIsOurs' /\ VerdictIsPassedOn'
<1>1. snap \in Snapshots /\ UNCHANGED <<db, disk, idx>> /\ pc = "snapshot" /\ pc' = "run"
  BY DEF SafeInv, TypeOK, ProcessType, SnapshotPostgres, SnapshotRole, SnapshotDatabase,
         SnapshotDataDir, SnapshotSchema, Snapshotted, world, At
<1>2. CASE SnapshotPostgres \/ SnapshotRole \/ SnapshotDataDir
  <2>1. snap'.db = snap.db /\ UNCHANGED dbOurs /\ idx \in {Postgres, Role, DataDir}
    BY <1>1, <1>2 DEF SnapshotPostgres, SnapshotRole, SnapshotDataDir, Snapshots, At
  <2>. QED
    BY <1>1, <2>1 DEF SafeInv, ClaimIsOurs, VerdictIsPassedOn, Postgres, Role, DatabaseStep, DataDir, Schema
<1>3. CASE SnapshotDatabase
  <2>1. snap'.db = Verdict(db # "absent") /\ dbOurs' = (db = "absent") /\ idx = DatabaseStep
    BY <1>1, <1>3 DEF SnapshotDatabase, Snapshots, At
  <2>2. snap'.db # "CreatedByUs" /\ (dbOurs' => snap'.db = "Untracked")
    BY <2>1 DEF Verdict
  <2>. QED
    BY <1>1, <2>1, <2>2 DEF SafeInv, ClaimIsOurs, VerdictIsPassedOn, DatabaseStep, Schema
<1>4. CASE SnapshotSchema
  <2>1. snap'.db = snap.db /\ UNCHANGED dbOurs /\ idx = Schema
    BY <1>1, <1>4 DEF SnapshotSchema, Snapshots, At
  <2>2. snap'.schema = Verdict(Initialized) /\ (Initialized \/ dbOurs)
    BY <1>1, <1>4 DEF SnapshotSchema, Snapshots
  <2>3. snap'.schema = "Preexisting" \/ dbOurs
    BY <2>2 DEF Verdict
  <2>. QED
    BY <1>1, <2>1, <2>3 DEF SafeInv, ClaimIsOurs, VerdictIsPassedOn, DatabaseStep, Schema
<1>. QED
  BY <1>2, <1>3, <1>4

\* createdb makes a database that was not there, and claims that one.
LEMMA RunSafe ==
    ASSUME SafeInv, RunPostgres \/ RunRole \/ RunDatabase \/ RunDataDir \/ RunSchema
    PROVE  ClaimIsOurs' /\ VerdictIsPassedOn'
<1>1. snap \in Snapshots
  BY DEF SafeInv, TypeOK, ProcessType
<1>2. CASE RunPostgres
  BY <1>1, <1>2, RanSafe, StepNumbers DEF RunPostgres, Snapshots, Postgres, DatabaseStep
<1>3. CASE RunRole
  BY <1>1, <1>3, RanSafe, StepNumbers DEF RunRole, Snapshots, Role, DatabaseStep
<1>4. CASE RunDataDir
  BY <1>1, <1>4, RanSafe, StepNumbers DEF RunDataDir, Snapshots, DataDir, DatabaseStep
<1>5. CASE RunSchema
  BY <1>1, <1>5, RanSafe, StepNumbers DEF RunSchema, Snapshots, Schema, DatabaseStep
<1>6. CASE RunDatabase
  <2>1. snap'.db = Made(snap.db) /\ disk'.snap.db = snap'.db
    BY <1>1, <1>6 DEF RunDatabase, Ran, Snapshots
  <2>2. CASE snap.db = "Preexisting"
    <3>1. snap'.db = "Preexisting"
      BY <2>1, <2>2 DEF Made
    <3>2. ~dbOurs /\ ~dbOurs'
      BY <1>6, <2>2 DEF RunDatabase, Running, Ran, SafeInv, VerdictIsPassedOn
    <3>. QED
      BY <1>6, <2>1, <3>1, <3>2 DEF RunDatabase, Ran, ClaimIsOurs, VerdictIsPassedOn
  <2>3. CASE snap.db # "Preexisting"
    <3>1. snap'.db = "CreatedByUs" /\ db' = "ours"
      BY <1>6, <2>1, <2>3 DEF Made, RunDatabase
    <3>. QED
      BY <1>6, <2>1, <3>1 DEF RunDatabase, Ran, ClaimIsOurs, VerdictIsPassedOn
  <2>. QED
    BY <2>2, <2>3
<1>. QED
  BY <1>2, <1>3, <1>4, <1>5, <1>6

\* A run that fails makes no database.
LEMMA RunFailsSafe ==
    ASSUME SafeInv, RunPostgresFails \/ RunFails \/ RunDataDirFails \/ RunSchemaFails
    PROVE  ClaimIsOurs' /\ VerdictIsPassedOn'
<1>1. snap \in Snapshots
  BY DEF SafeInv, TypeOK, ProcessType
<1>2. snap'.db = snap.db /\ UNCHANGED db /\ Failed
  BY <1>1 DEF RunPostgresFails, RunFails, RunDataDirFails, RunSchemaFails, Snapshots, world
<1>. QED
  BY <1>2, FailedSafe

\* An undo makes no database.
LEMMA UndoSafe ==
    ASSUME SafeInv,
           \/ UndoSchema \/ UndoDataDir \/ UndoDatabase \/ UndoRole \/ RemoveCluster
           \/ NoUndo
    PROVE  ClaimIsOurs' /\ VerdictIsPassedOn'
<1>1. pc = "undo" /\ NextUndo
  BY DEF UndoSchema, UndoDataDir, UndoDatabase, UndoRole, RemoveCluster, AtCall, NoUndo, NotOurs,
     Undoing
<1>2. db' # "theirs" \/ UNCHANGED db
  BY DEF UndoSchema, UndoDataDir, UndoDatabase, UndoRole, RemoveCluster, NoUndo, NotOurs, world
<1>. QED
  BY <1>1, <1>2, NextUndoSafe

\* A death makes at most a database of ours.
LEMMA DieSafe == SafeInv /\ Die => ClaimIsOurs' /\ VerdictIsPassedOn'
<1>. SUFFICES ASSUME SafeInv, Die PROVE ClaimIsOurs' /\ VerdictIsPassedOn'
  OBVIOUS
<1>1. Exit /\ UNCHANGED disk
  BY DEF Die
<1>2. db' = "ours" \/ UNCHANGED db
  BY DEF Die, DieRunning, world
<1>3. snap'.db = "Untracked" /\ pc' = "idle"
  BY <1>1 DEF Exit, Default
<1>. QED
  BY <1>1, <1>2, <1>3 DEF SafeInv, ClaimIsOurs, VerdictIsPassedOn

\* The calls before the cluster goes touch no database.
LEMMA CallSafe == SafeInv /\ PostgresCall => ClaimIsOurs' /\ VerdictIsPassedOn'
  BY CallKeeps DEF SafeInv, ClaimIsOurs, VerdictIsPassedOn

\* The invariant is inductive.
LEMMA SafeInvStep == SafeInv /\ [Next]_vars => SafeInv'
<1>. SUFFICES ASSUME SafeInv, [Next]_vars PROVE SafeInv'
  OBVIOUS
<1>1. TypeOK' /\ PurgeInv'
  BY TypeStep, PurgeInvStep DEF SafeInv
<1>2. CASE Next
  <2>1. CASE PostgresCall
    BY <1>1, <2>1, CallSafe DEF SafeInv
  <2>. QED
    BY <1>1, <1>2, <2>1, NextCases, CommandSafe, SnapshotSafe, RunSafe, RunFailsSafe, UndoSafe, DieSafe
    DEF SafeInv
<1>3. CASE UNCHANGED vars
  BY <1>1, <1>3 DEF vars, world, SafeInv, ClaimIsOurs, VerdictIsPassedOn
<1>. QED
  BY <1>2, <1>3

\* Without --aggressive-rollback the cluster stays, and with it the database.
LEMMA ClusterStays ==
    ASSUME SafeInv, ~aggressive, RemoveCluster
    PROVE  UNCHANGED <<db, schema>>
<1>1. ~purge.safe
  BY DEF SafeInv, PurgeInv
<1>. QED
  BY <1>1 DEF RemoveCluster

\* What a run or a death in a run does to a database of theirs: nothing.
LEMMA RunningIsSafe ==
    ASSUME SafeInv, db = "theirs",
           \/ RunPostgres \/ RunRole \/ RunDatabase \/ RunDataDir \/ RunSchema
           \/ RunPostgresFails \/ RunFails \/ RunDataDirFails \/ RunSchemaFails
           \/ DieRunning
    PROVE  UNCHANGED <<db, schema>>
<1>1. snap.db # "CreatedByUs"
  BY DEF SafeInv, ClaimIsOurs
<1>2. CASE RunDatabase
  BY <1>2 DEF RunDatabase
<1>3. CASE RunSchema \/ RunSchemaFails
  <2>1. snap.schema = "Preexisting"
    BY <1>1, <1>3 DEF RunSchema, RunSchemaFails, Running, SafeInv, VerdictIsPassedOn
  <2>. QED
    BY <1>3, <2>1 DEF RunSchema, RunSchemaFails
<1>4. CASE DieRunning
  <2>1. pc = "run" /\ idx = Schema => snap.schema = "Preexisting"
    BY <1>1 DEF SafeInv, VerdictIsPassedOn
  <2>. QED
    BY <1>4, <2>1 DEF DieRunning
<1>5. CASE RunPostgres \/ RunRole \/ RunDataDir \/ RunPostgresFails \/ RunFails \/ RunDataDirFails
  BY <1>5 DEF RunPostgres, RunRole, RunDataDir, RunPostgresFails, RunFails, RunDataDirFails, world
<1>. QED
  BY <1>2, <1>3, <1>4, <1>5

LEMMA InitSafe == Init => SafeInv
  BY InitType DEF SafeInv, Init, ClaimIsOurs, VerdictIsPassedOn, PurgeInv, NoPurge, NoManifest, Default

\* A database of our name that we did not create is neither dropped nor written
\* into (the hard stops of create_database.rs and initialize_odoo_database.rs).
THEOREM DatabaseSafe == Spec => TheirDatabaseIsSafe
<1>1. Init => SafeInv
  BY InitSafe
<1>2. SafeInv /\ [Next]_vars => [db = "theirs" /\ ~aggressive => db' = "theirs" /\ schema' = schema]_vars
  <2>. SUFFICES ASSUME SafeInv, Next, db = "theirs", ~aggressive
                PROVE  UNCHANGED <<db, schema>>
    BY DEF vars
  <2>1. CASE AdminCreates \/ Install \/ Rollback \/ Stops \/ Finish
    BY <2>1 DEF AdminCreates, Install, Rollback, Stops, Finish, world
  <2>2. CASE SnapshotPostgres \/ SnapshotRole \/ SnapshotDatabase \/ SnapshotDataDir \/ SnapshotSchema
    BY <2>2 DEF SnapshotPostgres, SnapshotRole, SnapshotDatabase, SnapshotDataDir, SnapshotSchema,
                Snapshotted, world
  <2>3. CASE RemoveCluster
    BY <2>3, ClusterStays
  <2>4. CASE UndoDatabase
    BY <2>4 DEF UndoDatabase, SafeInv, ClaimIsOurs
  <2>5. CASE UndoSchema \/ UndoDataDir \/ UndoRole \/ NoUndo
    BY <2>5 DEF UndoSchema, UndoDataDir, UndoRole, NoUndo, NotOurs, world
  <2>6. CASE Die
    BY <2>6, RunningIsSafe DEF Die, world
  <2>7. CASE PostgresCall
    BY <2>7, CallKeeps
  <2>. QED
    BY <2>1, <2>2, <2>3, <2>4, <2>5, <2>6, <2>7, NextCases, RunningIsSafe
<1>. QED
  BY <1>1, <1>2, SafeInvStep, PTL DEF Spec, TheirDatabaseIsSafe

-----------------------------------------------------------------------------
\* A snapshot's root is below what the installation found, and its gate is open
\* only for a database that is claimed.
RootIsNew(s) == s.dir = "CreatedByUs" => s.root > found.level
GateIsOurs(s) == s.dbWasOurs => s.db = "CreatedByUs"
NoDataDir(s) == s.dir # "CreatedByUs" /\ ~s.dbWasOurs

\* Whatever the filestore's undo reads, from memory or from the manifest, was
\* taken down by this installation.
FilestoreInv ==
    /\ level >= found.level
    /\ RootIsNew(snap) /\ RootIsNew(disk.snap)
    /\ GateIsOurs(snap) /\ GateIsOurs(disk.snap)
    /\ pc = "run" /\ idx = DataDir => snap.dir = "Preexisting" \/ snap.root > found.level
    /\ disk.recorded < DataDir => NoDataDir(disk.snap)
    /\ pc \in {"snapshot", "run"} /\ idx < DataDir => NoDataDir(snap)

Inv == SafeInv /\ FilestoreInv

\* The default snapshots claim no directory.
LEMMA DefaultFilestore ==
    /\ NoDataDir(Default)
    /\ \A s : NoDataDir(s) => RootIsNew(s) /\ GateIsOurs(s)
  BY DEF Default, NoDataDir, RootIsNew, GateIsOurs

\* A process that ends leaves only what the manifest says.
LEMMA ExitFilestore ==
    ASSUME Inv, Exit, UNCHANGED found, level' >= found.level,
           UNCHANGED <<disk>> \/ disk' = NoManifest \/ disk' = [disk EXCEPT !.finished = TRUE]
    PROVE  FilestoreInv'
<1>1. snap' = Default /\ pc' = "idle"
  BY DEF Exit
<1>2. NoDataDir(snap') /\ RootIsNew(snap') /\ GateIsOurs(snap')
  BY <1>1, DefaultFilestore
<1>3. CASE disk' = NoManifest
  <2>1. disk'.snap = Default
    BY <1>3 DEF NoManifest
  <2>2. NoDataDir(disk'.snap) /\ RootIsNew(disk'.snap) /\ GateIsOurs(disk'.snap)
    BY <2>1, DefaultFilestore
  <2>. QED
    BY <1>1, <1>2, <2>2 DEF FilestoreInv, RootIsNew, GateIsOurs, NoDataDir
<1>4. CASE disk'.snap = disk.snap /\ disk'.recorded = disk.recorded
  BY <1>1, <1>2, <1>4 DEF Inv, FilestoreInv, RootIsNew, GateIsOurs, NoDataDir
<1>. QED
  BY <1>3, <1>4 DEF Inv, SafeInv, TypeOK, ProcessType

\* Every snapshot that is taken up again, or kept, keeps its meaning as long as
\* what the installation found stays the same.
LEMMA CommandFilestore ==
    ASSUME Inv, AdminCreates \/ Install \/ Rollback \/ Stops \/ Finish
    PROVE  FilestoreInv'
<1>1. CASE AdminCreates
  BY <1>1 DEF AdminCreates, Inv, FilestoreInv, RootIsNew, GateIsOurs, NoDataDir
<1>2. CASE Install
  <2>1. snap' = disk.snap /\ UNCHANGED <<disk, level>> /\ pc' = "snapshot" /\ idx' = disk.recorded + 1
    BY <1>2 DEF Install, world
  <2>2. GateIsOurs(disk.snap) /\ (disk.recorded < DataDir => NoDataDir(disk.snap))
    BY DEF Inv, FilestoreInv
  <2>3. idx' < DataDir => disk.recorded < DataDir
    BY <2>1 DEF Inv, SafeInv, TypeOK, ProcessType, DataDir
  <2>4. CASE disk.recorded = 0
    <3>1. NoDataDir(disk.snap) /\ found' = [server |-> server, level |-> level]
      BY <1>2, <2>2, <2>4 DEF Install, DataDir
    <3>. QED
      BY <2>1, <3>1 DEF FilestoreInv, RootIsNew, GateIsOurs, NoDataDir, Inv, SafeInv, TypeOK, WorldType
  <2>5. CASE disk.recorded # 0
    <3>1. UNCHANGED found
      BY <1>2, <2>5 DEF Install
    <3>. QED
      BY <2>1, <2>2, <2>3, <3>1 DEF Inv, FilestoreInv, RootIsNew, GateIsOurs, NoDataDir
  <2>. QED
    BY <2>4, <2>5
<1>3. CASE Rollback
  BY <1>3 DEF Rollback, world, Inv, FilestoreInv, RootIsNew, GateIsOurs, NoDataDir
<1>4. CASE Stops
  <2>1. UNCHANGED <<level, found, disk>>
    BY <1>4 DEF Stops, world
  <2>2. CASE Exit
    BY <2>1, <2>2, ExitFilestore DEF Inv, FilestoreInv
  <2>3. CASE ~Exit
    BY <1>4, <2>1, <2>3 DEF Stops, UndoFrom, Inv, FilestoreInv, RootIsNew, GateIsOurs, NoDataDir
  <2>. QED
    BY <2>2, <2>3
<1>5. CASE Finish
  <2>1. UNCHANGED <<level, found>> /\ Exit /\ disk' = [disk EXCEPT !.finished = TRUE]
    BY <1>5 DEF Finish, world
  <2>. QED
    BY <2>1, ExitFilestore DEF Inv, FilestoreInv
<1>. QED
  BY <1>1, <1>2, <1>3, <1>4, <1>5

\* A snapshot before setup-data-dir changes nothing of it; its own takes down
\* the first missing directory and the verdict.
LEMMA SnapshotFilestore ==
    ASSUME Inv,
           SnapshotPostgres \/ SnapshotRole \/ SnapshotDatabase \/ SnapshotDataDir \/ SnapshotSchema
    PROVE  FilestoreInv'
<1>1. /\ snap \in Snapshots /\ UNCHANGED <<level, found, disk, idx>>
      /\ pc = "snapshot" /\ pc' = "run" /\ level \in 0 .. Depth
  BY DEF Inv, SafeInv, TypeOK, ProcessType, WorldType, SnapshotPostgres, SnapshotRole,
         SnapshotDatabase, SnapshotDataDir, SnapshotSchema, Snapshotted, world, At
<1>2. CASE SnapshotPostgres \/ SnapshotRole \/ SnapshotSchema
  <2>1. /\ snap'.dir = snap.dir /\ snap'.root = snap.root
        /\ snap'.dbWasOurs = snap.dbWasOurs /\ snap'.db = snap.db
    BY <1>1, <1>2 DEF SnapshotPostgres, SnapshotRole, SnapshotSchema, Snapshots
  <2>2. idx # DataDir
    BY <1>2 DEF SnapshotPostgres, SnapshotRole, SnapshotSchema, At, Postgres, Role, Schema, DataDir
  <2>. QED
    BY <1>1, <2>1, <2>2 DEF Inv, FilestoreInv, RootIsNew, GateIsOurs, NoDataDir
<1>3. CASE SnapshotDatabase
  <2>1. /\ snap'.dir = snap.dir /\ snap'.root = snap.root
        /\ snap'.dbWasOurs = snap.dbWasOurs /\ idx = DatabaseStep
    BY <1>1, <1>3 DEF SnapshotDatabase, Snapshots, At
  <2>2. NoDataDir(snap)
    BY <1>1, <2>1 DEF Inv, FilestoreInv, DatabaseStep, DataDir
  <2>. QED
    BY <1>1, <2>1, <2>2 DEF Inv, FilestoreInv, RootIsNew, GateIsOurs, NoDataDir, DatabaseStep, DataDir
<1>4. CASE SnapshotDataDir
  <2>1. /\ snap'.dir = Verdict(level = Depth) /\ snap'.root = IF level = Depth THEN 0 ELSE level + 1
        /\ snap'.dbWasOurs = dbOurs /\ snap'.db = snap.db /\ idx = DataDir
    BY <1>1, <1>4 DEF SnapshotDataDir, Snapshots, At
  <2>2. snap'.dir # "CreatedByUs"
    BY <2>1 DEF Verdict
  <2>3. snap'.dir = "Preexisting" \/ snap'.root > found.level
    <3>1. CASE level = Depth
      BY <2>1, <3>1 DEF Verdict
    <3>2. CASE level # Depth
      BY <1>1, <2>1, <3>2 DEF Inv, FilestoreInv, SafeInv, TypeOK, WorldType
    <3>. QED
      BY <3>1, <3>2
  <2>4. dbOurs => snap.db = "CreatedByUs"
    BY <1>1, <2>1 DEF Inv, SafeInv, VerdictIsPassedOn, DataDir, DatabaseStep
  <2>. QED
    BY <1>1, <2>1, <2>2, <2>3, <2>4 DEF Inv, FilestoreInv, RootIsNew, GateIsOurs, NoDataDir, DataDir
<1>. QED
  BY <1>2, <1>3, <1>4

\* A run saves its snapshots with its record: what memory means the manifest means.
LEMMA RunFilestore ==
    ASSUME Inv, RunPostgres \/ RunRole \/ RunDatabase \/ RunDataDir \/ RunSchema
    PROVE  FilestoreInv'
<1>1. /\ snap \in Snapshots /\ UNCHANGED found /\ pc = "run" /\ pc' = "snapshot"
      /\ disk'.snap = snap' /\ disk'.recorded = idx /\ idx' = idx + 1 /\ idx \in Steps
  BY DEF Inv, SafeInv, TypeOK, ProcessType, RunPostgres, RunRole, RunDatabase, RunDataDir, RunSchema,
         Ran, Running
<1>2. level' >= found.level
  BY <1>1, DepthAssumption DEF RunPostgres, RunRole, RunDatabase, RunDataDir, RunSchema, Inv,
     FilestoreInv, SafeInv, TypeOK, WorldType
<1>3. CASE ~RunDataDir
  <2>1. snap'.dir = snap.dir /\ snap'.root = snap.root /\ snap'.dbWasOurs = snap.dbWasOurs
    BY <1>1, <1>3 DEF RunPostgres, RunRole, RunDatabase, RunSchema, Snapshots
  <2>2. snap.db = "CreatedByUs" => snap'.db = "CreatedByUs"
    BY <1>1, <1>3 DEF RunPostgres, RunRole, RunDatabase, RunSchema, Snapshots, Made
  <2>3. idx # DataDir
    BY <1>3 DEF RunPostgres, RunRole, RunDatabase, RunSchema, Running,
       Postgres, Role, DatabaseStep, DataDir, Schema
  <2>. QED
    BY <1>1, <1>2, <2>1, <2>2, <2>3
    DEF Inv, FilestoreInv, RootIsNew, GateIsOurs, NoDataDir, DataDir, Steps
<1>4. CASE RunDataDir
  <2>1. /\ snap'.dir = Made(snap.dir) /\ snap'.root = snap.root /\ idx = DataDir
        /\ snap'.dbWasOurs = snap.dbWasOurs /\ snap'.db = snap.db
    BY <1>1, <1>4 DEF RunDataDir, Running, Snapshots
  <2>2. snap'.dir = "CreatedByUs" => snap.root > found.level
    BY <1>1, <2>1 DEF Made, Inv, FilestoreInv, RootIsNew
  <2>. QED
    BY <1>1, <1>2, <2>1, <2>2 DEF Inv, FilestoreInv, RootIsNew, GateIsOurs, NoDataDir, DataDir, Steps
<1>. QED
  BY <1>3, <1>4

\* A run that fails, and what it made, leaves the snapshots of setup-data-dir.
LEMMA RunFailsFilestore ==
    ASSUME Inv, RunPostgresFails \/ RunFails \/ RunDataDirFails \/ RunSchemaFails
    PROVE  FilestoreInv'
<1>1. snap \in Snapshots /\ UNCHANGED <<found, disk>> /\ pc' = "undo"
  BY DEF Inv, SafeInv, TypeOK, ProcessType, RunPostgresFails, RunFails, RunDataDirFails,
         RunSchemaFails, Failed
<1>2. level' >= found.level
  BY DEF RunPostgresFails, RunFails, RunDataDirFails, RunSchemaFails, world, Inv, FilestoreInv,
         SafeInv, TypeOK, WorldType
<1>3. /\ snap'.dir = snap.dir /\ snap'.root = snap.root
      /\ snap'.dbWasOurs = snap.dbWasOurs /\ snap'.db = snap.db
  BY <1>1 DEF RunPostgresFails, RunFails, RunDataDirFails, RunSchemaFails, Snapshots
<1>. QED
  BY <1>1, <1>2, <1>3 DEF Inv, FilestoreInv, RootIsNew, GateIsOurs, NoDataDir

\* The undo of setup-data-dir never goes above what it created.
LEMMA TargetIsNew ==
    ASSUME Inv, UndoDataDir
    PROVE  level' >= found.level
<1>1. level \in 0 .. Depth /\ found.level \in 0 .. Depth /\ snap.root \in 0 .. Depth
  BY DEF Inv, SafeInv, TypeOK, WorldType, ProcessType, Snapshots
<1>2. level >= found.level
  BY DEF Inv, FilestoreInv
<1>3. CASE DataDirIsOurs
  <2>1. snap.root > found.level
    BY <1>3 DEF DataDirIsOurs, Inv, FilestoreInv, RootIsNew
  <2>2. Target - 1 >= found.level /\ Target \in 1 .. Depth
    BY <1>1, <2>1, DepthAssumption DEF Target
  <2>. QED
    BY <1>1, <1>3, <2>2, DepthAssumption DEF UndoDataDir
<1>4. CASE ~DataDirIsOurs
  BY <1>2, <1>4 DEF UndoDataDir
<1>. QED
  BY <1>3, <1>4

\* An undo takes up nothing, and the last one clears the manifest.
LEMMA UndoFilestore ==
    ASSUME Inv,
           \/ UndoSchema \/ UndoDataDir \/ UndoDatabase \/ UndoRole \/ RemoveCluster
           \/ NoUndo
    PROVE  FilestoreInv'
<1>1. UNCHANGED found /\ NextUndo /\ pc = "undo"
  BY DEF UndoSchema, UndoDataDir, UndoDatabase, UndoRole, RemoveCluster, AtCall, NoUndo, NotOurs,
     NextUndo, Undoing
<1>2. level' >= found.level
  <2>1. CASE UndoDataDir
    BY <2>1, TargetIsNew
  <2>2. CASE UNCHANGED level
    BY <2>2 DEF Inv, FilestoreInv
  <2>. QED
    BY <2>1, <2>2 DEF UndoSchema, UndoDatabase, UndoRole, RemoveCluster, NoUndo, NotOurs, world
<1>3. CASE idx = 1
  BY <1>1, <1>2, <1>3, ExitFilestore DEF NextUndo
<1>4. CASE idx # 1
  BY <1>1, <1>2, <1>4 DEF NextUndo, Inv, FilestoreInv, RootIsNew, GateIsOurs, NoDataDir
<1>. QED
  BY <1>3, <1>4

\* A death makes directories and removes none.
LEMMA DieFilestore == Inv /\ Die => FilestoreInv'
<1>. SUFFICES ASSUME Inv, Die PROVE FilestoreInv'
  OBVIOUS
<1>1. UNCHANGED <<found, disk>> /\ Exit
  BY DEF Die
<1>2. level' >= found.level
  <2>1. UNCHANGED level \/ level' \in level .. Depth
    BY DEF Die, DieRunning, world
  <2>. QED
    BY <2>1, DepthAssumption DEF Inv, FilestoreInv, SafeInv, TypeOK, WorldType
<1>. QED
  BY <1>1, <1>2, ExitFilestore

\* The invariant with the filestore's part is inductive.
LEMMA InvStep == Inv /\ [Next]_vars => Inv'
<1>. SUFFICES ASSUME Inv, [Next]_vars PROVE Inv'
  OBVIOUS
<1>1. SafeInv'
  BY SafeInvStep DEF Inv
<1>2. CASE Next
  <2>1. CASE PostgresCall
    BY <1>1, <2>1, CallKeeps DEF Inv, FilestoreInv, RootIsNew, GateIsOurs, NoDataDir
  <2>. QED
    BY <1>1, <1>2, <2>1, NextCases, CommandFilestore, SnapshotFilestore, RunFilestore,
       RunFailsFilestore, UndoFilestore, DieFilestore DEF Inv
<1>3. CASE UNCHANGED vars
  BY <1>1, <1>3 DEF vars, world, Inv, FilestoreInv, RootIsNew, GateIsOurs, NoDataDir
<1>. QED
  BY <1>2, <1>3

\* No directory is removed that the installation found, and none at all while
\* the database is the customer's (the anti-drop rule of setup_data_dir.rs).
THEOREM FilestoreSafe == Spec => FilestoreIsSafe
<1>1. Init => Inv
  <2>. SUFFICES ASSUME Init PROVE Inv
    OBVIOUS
  <2>1. SafeInv
    BY InitSafe
  <2>2. snap = Default /\ disk.snap = Default /\ pc = "idle" /\ found.level = level /\ level \in 0 .. Depth
    BY DEF Init, NoManifest
  <2>. QED
    BY <2>1, <2>2, DefaultFilestore, DepthAssumption DEF Inv, FilestoreInv
<1>2. Inv /\ [Next]_vars => [level' < level => db # "theirs" /\ level' >= found.level]_vars
  <2>. SUFFICES ASSUME Inv, Next, level' < level
                PROVE  db # "theirs" /\ level' >= found.level
    BY DEF vars
  <2>1. level \in 0 .. Depth
    BY DEF Inv, SafeInv, TypeOK, WorldType
  <2>2. UndoDataDir
    <3>1. CASE AdminCreates \/ Install \/ Rollback \/ Stops \/ Finish
      BY <2>1, <3>1 DEF AdminCreates, Install, Rollback, Stops, Finish, world
    <3>2. CASE SnapshotPostgres \/ SnapshotRole \/ SnapshotDatabase \/ SnapshotDataDir \/ SnapshotSchema
      BY <2>1, <3>2 DEF SnapshotPostgres, SnapshotRole, SnapshotDatabase, SnapshotDataDir, SnapshotSchema,
                        Snapshotted, world
    <3>3. CASE RunPostgres \/ RunRole \/ RunDatabase \/ RunDataDir \/ RunSchema
      BY <2>1, <3>3, DepthAssumption DEF RunPostgres, RunRole, RunDatabase, RunDataDir, RunSchema
    <3>4. CASE RunPostgresFails \/ RunFails \/ RunDataDirFails \/ RunSchemaFails
      BY <2>1, <3>4, DepthAssumption DEF RunPostgresFails, RunFails, RunDataDirFails, RunSchemaFails, world
    <3>5. CASE UndoSchema \/ UndoDatabase \/ UndoRole \/ RemoveCluster \/ NoUndo
      BY <2>1, <3>5 DEF UndoSchema, UndoDatabase, UndoRole, RemoveCluster, NoUndo, NotOurs, world
    <3>6. CASE Die
      <4>1. UNCHANGED level \/ level' \in level .. Depth
        BY <3>6 DEF Die, DieRunning, world
      <4>. QED
        BY <2>1, <4>1, DepthAssumption
    <3>7. CASE PostgresCall
      BY <2>1, <3>7, CallKeeps
    <3>. QED
      BY <3>1, <3>2, <3>3, <3>4, <3>5, <3>6, <3>7, NextCases
  <2>3. DataDirIsOurs
    BY <2>1, <2>2 DEF UndoDataDir
  <2>4. snap.db = "CreatedByUs"
    BY <2>3 DEF DataDirIsOurs, Inv, FilestoreInv, GateIsOurs
  <2>. QED
    BY <2>2, <2>4, TargetIsNew DEF Inv, SafeInv, ClaimIsOurs
<1>. QED
  BY <1>1, <1>2, InvStep, PTL DEF Spec, FilestoreIsSafe

-----------------------------------------------------------------------------
(* What a purge spares, and what an installation that finishes has.          *)

\* A database of another name that stood there when the undo asked keeps its
\* cluster: the one removal of a cluster comes calls after the question, which
\* no other process and no memory of a dead one answers.
THEOREM OtherDatabases == Spec => OtherDatabasesSurvive
<1>1. Init => TypeOK /\ PurgeInv
  BY InitSafe DEF SafeInv
<1>2. TypeOK /\ PurgeInv /\ [Next]_vars => (TypeOK /\ PurgeInv)'
  BY TypeStep, PurgeInvStep
<1>3. TypeOK /\ PurgeInv /\ [Next]_vars => [other /\ ~purge.late => other']_vars
  <2>. SUFFICES ASSUME PurgeInv, Next, other, ~purge.late  PROVE other'
    BY DEF vars
  <2>1. CASE RemoveCluster
    BY <2>1 DEF RemoveCluster, PurgeInv
  <2>2. CASE PostgresCall
    BY <2>2, CallKeeps
  <2>3. CASE ~RemoveCluster /\ ~PostgresCall
    BY <2>3 DEF PostgresCall, Next, AdminCreates, Install, Rollback, Stops, Finish, SnapshotPostgres,
       SnapshotRole, SnapshotDatabase, SnapshotDataDir, SnapshotSchema, Snapshotted, RunPostgres, RunRole,
       RunDatabase, RunDataDir, RunSchema, RunPostgresFails, RunFails, RunDataDirFails,
       RunSchemaFails, UndoSchema, UndoDataDir, UndoDatabase, UndoRole, NotOurs, Die, DieRunning, world
  <2>. QED
    BY <2>1, <2>2, <2>3
<1>. QED
  BY <1>1, <1>2, <1>3, PTL DEF Spec, OtherDatabasesSurvive

\* What is recorded is there, as long as no rollback was cut short; only a
\* rollback takes it away again.
SchemaInv ==
    /\ TypeOK
    /\ pc \in {"snapshot", "run"} => disk.recorded = idx - 1
    /\ pc # "undo" /\ ~cut =>
          /\ disk.recorded >= DatabaseStep => db # "absent"
          /\ disk.recorded >= Schema => schema # "none"
    /\ pc = "run" /\ ~cut =>
          /\ idx = DatabaseStep /\ snap.db = "Preexisting" => db # "absent"
          /\ idx = Schema /\ snap.schema = "Preexisting" => schema # "none"

LEMMA CommandSchema ==
    ASSUME SchemaInv, TypeOK', AdminCreates \/ Install \/ Rollback \/ Stops \/ Finish
    PROVE  SchemaInv'
<1>. USE DEF DatabaseStep, Schema
<1>1. /\ disk \in [recorded : 0 .. 5, snap : Snapshots, finished : BOOLEAN] /\ idx \in 1 .. 6
  BY DEF SchemaInv, TypeOK, ProcessType
<1>2. CASE AdminCreates
  BY <1>1, <1>2 DEF AdminCreates, SchemaInv
<1>3. CASE Install
  BY <1>1, <1>3 DEF Install, SchemaInv, world
<1>4. CASE Rollback
  BY <1>1, <1>4 DEF Rollback, SchemaInv, world
<1>5. CASE Stops
  BY <1>1, <1>5 DEF Stops, UndoFrom, Exit, SchemaInv, world
<1>6. CASE Finish
  <2>1. disk'.recorded = disk.recorded
    BY <1>1, <1>6 DEF Finish
  <2>. QED
    BY <1>1, <1>6, <2>1 DEF Finish, Exit, SchemaInv, world
<1>. QED
  BY <1>2, <1>3, <1>4, <1>5, <1>6

LEMMA SnapshotSchemaInv ==
    ASSUME SchemaInv, TypeOK',
           SnapshotPostgres \/ SnapshotRole \/ SnapshotDatabase \/ SnapshotDataDir \/ SnapshotSchema
    PROVE  SchemaInv'
<1>. USE DEF Postgres, Role, DatabaseStep, DataDir, Schema
<1>1. /\ snap \in Snapshots /\ pc = "snapshot" /\ pc' = "run"
      /\ UNCHANGED <<db, schema, disk, idx, cut>>
  BY DEF SchemaInv, TypeOK, ProcessType, SnapshotPostgres, SnapshotRole, SnapshotDatabase,
         SnapshotDataDir, SnapshotSchema, Snapshotted, world, At
<1>2. idx = DatabaseStep /\ snap'.db = "Preexisting" => db # "absent"
  <2>1. CASE SnapshotDatabase
    BY <1>1, <2>1 DEF SnapshotDatabase, Snapshots, Verdict
  <2>. QED
    BY <2>1 DEF SnapshotPostgres, SnapshotRole, SnapshotDataDir, SnapshotSchema, At
<1>3. idx = Schema /\ snap'.schema = "Preexisting" => schema # "none"
  <2>1. CASE SnapshotSchema
    BY <1>1, <2>1 DEF SnapshotSchema, Snapshots, Verdict, Initialized
  <2>. QED
    BY <2>1 DEF SnapshotPostgres, SnapshotRole, SnapshotDatabase, SnapshotDataDir, At
<1>. QED
  BY <1>1, <1>2, <1>3 DEF SchemaInv

LEMMA RunSchemaInv ==
    ASSUME SchemaInv, TypeOK', RunPostgres \/ RunRole \/ RunDatabase \/ RunDataDir \/ RunSchema
    PROVE  SchemaInv'
<1>. USE DEF Postgres, Role, DatabaseStep, DataDir, Schema
<1>1. /\ pc = "run" /\ pc' = "snapshot" /\ disk'.recorded = idx /\ idx' = idx + 1 /\ idx \in 1 .. 5
      /\ UNCHANGED cut /\ disk.recorded = idx - 1 /\ db \in Owner
  BY DEF SchemaInv, TypeOK, ProcessType, WorldType, RunPostgres, RunRole, RunDatabase, RunDataDir,
         RunSchema, Ran, Running, Steps
<1>2. CASE RunDatabase
  BY <1>1, <1>2 DEF RunDatabase, Running, SchemaInv
<1>3. CASE RunSchema
  BY <1>1, <1>3 DEF RunSchema, Running, SchemaInv
<1>4. CASE RunPostgres \/ RunRole \/ RunDataDir
  <2>1. UNCHANGED <<db, schema>> /\ idx \in {1, 2, 4}
    BY <1>4 DEF RunPostgres, RunRole, RunDataDir, Running
  <2>. QED
    BY <1>1, <2>1 DEF SchemaInv
<1>. QED
  BY <1>2, <1>3, <1>4

\* What ends a rollback clears the manifest, and what cuts it short is noted.
LEMMA RestSchemaInv ==
    ASSUME SchemaInv, TypeOK',
           \/ RunPostgresFails \/ RunFails \/ RunDataDirFails \/ RunSchemaFails
           \/ UndoSchema \/ UndoDataDir \/ UndoDatabase \/ UndoRole \/ RemoveCluster
           \/ PostgresCall \/ NoUndo
           \/ Die
    PROVE  SchemaInv'
<1>. USE DEF Postgres, Role, DatabaseStep, DataDir, Schema
<1>1. CASE RunPostgresFails \/ RunFails \/ RunDataDirFails \/ RunSchemaFails
  BY <1>1 DEF RunPostgresFails, RunFails, RunDataDirFails, RunSchemaFails, Failed, SchemaInv
<1>2. CASE \/ UndoSchema \/ UndoDataDir \/ UndoDatabase \/ UndoRole \/ RemoveCluster \/ NoUndo
  <2>1. NextUndo /\ pc = "undo"
    BY <1>2 DEF UndoSchema, UndoDataDir, UndoDatabase, UndoRole, RemoveCluster, AtCall, NoUndo, NotOurs,
     Undoing
  <2>2. pc' = "undo" \/ (pc' = "idle" /\ disk'.recorded = 0)
    BY <2>1 DEF NextUndo, Exit, NoManifest
  <2>. QED
    BY <2>2 DEF SchemaInv
<1>3. CASE PostgresCall
  BY <1>3, CallKeeps DEF SchemaInv
<1>4. CASE Die
  <2>1. pc' = "idle" /\ UNCHANGED disk /\ (pc = "undo" => cut') /\ (cut => cut')
    BY <1>4 DEF Die, Exit
  <2>2. CASE UNCHANGED <<db, schema>>
    BY <2>1, <2>2 DEF SchemaInv
  <2>3. CASE pc = "run" /\ idx = DatabaseStep /\ db = "absent" /\ db' = "ours" /\ UNCHANGED schema
    BY <2>1, <2>3 DEF SchemaInv
  <2>4. CASE pc = "run" /\ idx = Schema /\ UNCHANGED db
    <3>1. disk.recorded = 4
      BY <2>4 DEF SchemaInv
    <3>. QED
      BY <2>1, <2>4, <3>1 DEF SchemaInv
  <2>. QED
    BY <1>4, <2>2, <2>3, <2>4 DEF Die, DieRunning, world
<1>. QED
  BY <1>1, <1>2, <1>3, <1>4

LEMMA SchemaInvStep == SchemaInv /\ [Next]_vars => SchemaInv'
<1>. SUFFICES ASSUME SchemaInv, [Next]_vars PROVE SchemaInv'
  OBVIOUS
<1>1. TypeOK'
  BY TypeStep DEF SchemaInv
<1>2. CASE Next
  BY <1>1, <1>2, NextCases, CommandSchema, SnapshotSchemaInv, RunSchemaInv, RestSchemaInv
<1>3. CASE UNCHANGED vars
  BY <1>1, <1>3 DEF vars, world, SchemaInv
<1>. QED
  BY <1>2, <1>3

\* An installation that finishes has a database with what the init looks for in
\* it, after whatever interruption of an installation.
THEOREM FinishedSchema == Spec => FinishedHasSchema
<1>1. Init => SchemaInv
  BY InitType DEF Init, SchemaInv, NoManifest, DatabaseStep, Schema
<1>2. SchemaInv /\ [Next]_vars
        => [disk'.finished /\ ~disk.finished /\ ~cut => db # "absent" /\ Initialized]_vars
  <2>. SUFFICES ASSUME SchemaInv, Next, disk'.finished, ~disk.finished, ~cut
                PROVE  db # "absent" /\ Initialized
    BY DEF vars
  <2>1. Finish
    <3>1. CASE UNCHANGED disk
      BY <3>1
    <3>2. CASE disk' = NoManifest
      BY <3>2 DEF NoManifest
    <3>3. CASE Ran
      BY <3>3 DEF Ran
    <3>4. PostgresCall => UNCHANGED disk
      BY CallKeeps
    <3>. QED
      BY <3>1, <3>2, <3>3, <3>4 DEF PostgresCall, Next, AdminCreates, Install, Rollback, Stops, SnapshotPostgres,
         SnapshotRole, SnapshotDatabase, SnapshotDataDir, SnapshotSchema, Snapshotted, RunPostgres,
         RunRole, RunDatabase, RunDataDir, RunSchema, RunPostgresFails, RunFails, RunDataDirFails,
         RunSchemaFails, Failed, UndoSchema, UndoDataDir, UndoDatabase, UndoRole, RemoveCluster,
         NotOurs, NextUndo, Die
  <2>. QED
    BY <2>1 DEF Finish, SchemaInv, DatabaseStep, Schema, Initialized
<1>. QED
  BY <1>1, <1>2, SchemaInvStep, PTL DEF Spec, FinishedHasSchema

-----------------------------------------------------------------------------
(* A rollback in which nothing failed, after commands in which nothing did.  *)

\* The snapshots of the installation, and how many steps it has done: they are
\* in the process, or in the manifest.
Held == IF pc = "idle" THEN disk.snap ELSE snap
Upto == IF pc = "idle" THEN disk.recorded ELSE IF pc = "undo" THEN idx ELSE idx - 1

Service == {"installed", "enabled", "active"}

NeedsPackage(s) == s["enabled"] \/ s["active"] => s["installed"]

\* Without faults an installation is whole or has left nothing.
Whole ==
    /\ pc = "idle" => disk.finished \/ disk.recorded = 0
    /\ pc = "snapshot" /\ disk.recorded > 0 => disk.snap = snap
    /\ pc \in {"snapshot", "run"} => disk.recorded = idx - 1

\* The service runs until the last undo, which gives it back axis by axis.
Turned ==
    /\ purge.call \in {"check", "stop"} => \A x \in Service : server[x]
    /\ purge.call = "disable" => server["enabled"] /\ server["active"] = found.server["active"]
    /\ purge.call \in {"purge", "remove"} =>
          \A x \in {"enabled", "active"} : server[x] = found.server[x]

\* What is ours is claimed by a step that is done; the directories are back, or
\* will be, unless the database is theirs; and the last undo knows what was
\* there of the service.
Left ==
    /\ db = "ours" => Upto >= DatabaseStep /\ Held.db = "CreatedByUs"
    /\ role = "ours" => Upto >= Role /\ Held.role = "CreatedByUs"
    /\ Upto >= DataDir /\ Held.dir = "CreatedByUs" => Held.root = found.level + 1
    /\ Upto > 0 => \/ level = found.level \/ db = "theirs"
                   \/ Upto >= DataDir /\ Held.dir = "CreatedByUs" /\ Held.dbWasOurs
    /\ Upto > 0 => Turned /\ \A x \in Service : Held.pg[x] = "CreatedByUs" <=> ~found.server[x]
    /\ NeedsPackage(server) /\ NeedsPackage(found.server)

\* What an installation relies on before the step it is at.
Ready ==
    /\ pc \in {"snapshot", "run"} /\ idx <= DataDir => level = found.level
    /\ pc \in {"snapshot", "run"} /\ idx = Postgres => server = found.server
    /\ pc = "run" /\ idx = Postgres => \A x \in Service : snap.pg[x] = Verdict(server[x])
    /\ pc = "run" /\ idx = DatabaseStep => dbOurs \/ (snap.db = "Preexisting" /\ db = "theirs")
    /\ pc \in {"snapshot", "run"} /\ idx > DatabaseStep => dbOurs \/ db = "theirs"
    /\ pc = "run" /\ idx = DataDir =>
          /\ snap.dbWasOurs = dbOurs
          /\ \/ snap.dir = "Preexisting" /\ level = Depth
             \/ snap.dir = "Untracked" /\ snap.root = level + 1

RestInv == SafeInv /\ (faults = 0 => Whole /\ Left /\ Ready)

\* What the proofs below begin with.
LEMMA RestTypes ==
    ASSUME SafeInv
    PROVE  /\ server \in [Axis -> BOOLEAN] /\ role \in Owner /\ db \in Owner /\ level \in 0 .. Depth
           /\ found.server \in [Axis -> BOOLEAN] /\ found.level \in 0 .. Depth
           /\ disk \in [recorded : 0 .. 5, snap : Snapshots, finished : BOOLEAN]
           /\ idx \in 1 .. 6 /\ snap \in Snapshots /\ faults \in Nat
           /\ Service \subseteq Axis /\ Depth \in Nat
  BY DepthAssumption, MaxFaultsAssumption DEF SafeInv, TypeOK, WorldType, ProcessType, Service, Axis

LEMMA RestNoFault ==
    ASSUME SafeInv, faults' = 0
    PROVE  ~Fault
  BY RestTypes DEF Fault

\* The steps that are done, and what is held of them, say the same as before.
LEMMA LeftStays ==
    ASSUME SafeInv, Left, UNCHANGED <<role, level, server, found>>,
           db' = db \/ (db = "absent" /\ db' = "theirs"),
           Upto' = Upto, Upto \in Nat, purge'.call = purge.call,
           Upto >= Postgres => Held'.pg = Held.pg,
           Upto >= Role => Held'.role = Held.role,
           Upto >= DatabaseStep => Held'.db = Held.db,
           Upto >= DataDir => /\ Held'.dir = Held.dir /\ Held'.root = Held.root
                              /\ Held'.dbWasOurs = Held.dbWasOurs
    PROVE  Left'
<1>1. db' = "ours" => db = "ours"
  OBVIOUS
<1>2. db = "theirs" => db' = "theirs"
  OBVIOUS
<1>. QED
  BY <1>1, <1>2 DEF Left, Turned, NeedsPackage, Postgres, Role, DatabaseStep, DataDir

\* Before the last undo the service runs.
LEMMA ServiceRuns ==
    ASSUME SafeInv, Left, Upto > 0, pc # "undo" \/ idx # Postgres
    PROVE  purge.call = "check" /\ (\A x \in Service : server[x]) /\ Up
  BY DEF SafeInv, PurgeInv, Left, Turned, Service, Up

LEMMA CommandRest ==
    ASSUME SafeInv, faults = 0, Whole, Left, Ready,
           AdminCreates \/ Install \/ Rollback \/ Stops \/ Finish
    PROVE  Whole' /\ Left' /\ Ready'
<1>. USE DEF Postgres, Role, DatabaseStep, DataDir, Schema
<1>1. CASE AdminCreates
  <2>1. /\ UNCHANGED <<server, role, level, found, disk, pc, idx, snap, dbOurs>>
        /\ db' = db \/ (db = "absent" /\ db' = "theirs")
        /\ purge'.call = purge.call
    BY <1>1 DEF AdminCreates, SafeInv, TypeOK, ProcessType
  <2>2. Upto' = Upto /\ Held' = Held /\ Upto \in Nat
    BY <2>1, RestTypes DEF Upto, Held
  <2>3. Left'
    BY <2>1, <2>2, LeftStays
  <2>. QED
    BY <2>1, <2>3 DEF Whole, Ready
<1>2. CASE Install
  <2>1. /\ pc = "idle" /\ disk.recorded = 0 /\ pc' = "snapshot" /\ idx' = 1 /\ UNCHANGED <<world, disk>>
        /\ found' = [server |-> server, level |-> level]
    BY <1>2 DEF Install, Whole
  <2>2. Upto = 0 /\ Upto' = 0
    BY <2>1 DEF Upto
  <2>3. Left'
    BY <2>1, <2>2 DEF Left, world, NeedsPackage
  <2>. QED
    BY <2>1, <2>3 DEF Whole, Ready, world
<1>3. CASE Rollback
  <2>1. /\ pc = "idle" /\ pc' = "undo" /\ idx' = disk.recorded /\ snap' = disk.snap
        /\ UNCHANGED <<world, found, disk, purge>>
    BY <1>3 DEF Rollback
  <2>2. Upto' = Upto /\ Held' = Held /\ Upto \in Nat
    BY <2>1, RestTypes DEF Upto, Held
  <2>3. Left'
    BY <2>1, <2>2, LeftStays DEF world
  <2>. QED
    BY <2>1, <2>3 DEF Whole, Ready
<1>4. CASE Stops
  <2>1. pc = "snapshot" /\ UNCHANGED <<world, found, disk>> /\ disk.recorded = idx - 1
    BY <1>4 DEF Stops, Whole
  <2>2. CASE idx = 1
    <3>1. pc' = "idle"
      BY <1>4, <2>2 DEF Stops, UndoFrom, Exit
    <3>2. Upto = 0 /\ Upto' = 0
      BY <2>1, <2>2, <3>1 DEF Upto
    <3>3. Left'
      BY <2>1, <3>2 DEF Left, NeedsPackage, world
    <3>. QED
      BY <2>1, <2>2, <3>1, <3>3 DEF Whole, Ready
  <2>3. CASE idx # 1
    <3>1. pc' = "undo" /\ idx' = idx - 1 /\ UNCHANGED <<snap, purge>>
      BY <1>4, <2>3, RestTypes DEF Stops, UndoFrom
    <3>2. Upto' = Upto /\ Held' = Held /\ Upto \in Nat
      BY <2>1, <3>1, RestTypes DEF Upto, Held
    <3>3. Left'
      BY <2>1, <3>1, <3>2, LeftStays DEF world
    <3>. QED
      BY <3>1, <3>3 DEF Whole, Ready
  <2>. QED
    BY <2>2, <2>3
<1>5. CASE Finish
  <2>1. /\ pc = "snapshot" /\ idx = 6 /\ pc' = "idle" /\ UNCHANGED <<world, found>>
        /\ disk' = [disk EXCEPT !.finished = TRUE] /\ purge'.call = purge.call
    BY <1>5 DEF Finish, Exit, NoPurge, SafeInv, PurgeInv
  <2>2. disk'.recorded = 5 /\ disk'.snap = snap /\ disk'.finished
    BY <2>1, RestTypes DEF Whole
  <2>3. Upto' = Upto /\ Held' = Held /\ Upto \in Nat
    BY <2>1, <2>2 DEF Upto, Held
  <2>4. Left'
    BY <2>1, <2>3, LeftStays DEF world
  <2>. QED
    BY <2>1, <2>2, <2>4 DEF Whole, Ready
<1>. QED
  BY <1>1, <1>2, <1>3, <1>4, <1>5

\* A snapshot says nothing new about a step that is done.
LEMMA SnapshotRest ==
    ASSUME SafeInv, faults = 0, Whole, Left, Ready,
           SnapshotPostgres \/ SnapshotRole \/ SnapshotDatabase \/ SnapshotDataDir \/ SnapshotSchema
    PROVE  Whole' /\ Left' /\ Ready'
<1>. USE DEF Postgres, Role, DatabaseStep, DataDir, Schema
<1>1. /\ snap \in Snapshots /\ pc = "snapshot" /\ pc' = "run" /\ idx \in 1 .. 6
      /\ UNCHANGED <<server, role, db, level, found, disk, idx, purge>>
  BY RestTypes DEF SnapshotPostgres, SnapshotRole, SnapshotDatabase, SnapshotDataDir, SnapshotSchema,
     Snapshotted, world, At
<1>2. Upto' = Upto /\ Upto = idx - 1 /\ Held = snap /\ Held' = snap'
  BY <1>1 DEF Upto, Held
<1>3. Whole'
  BY <1>1 DEF Whole
<1>4. CASE SnapshotPostgres
  <2>1. idx = 1 /\ \A x \in Axis : snap'.pg[x] = Verdict(server[x] /\ (x = "cluster" => family = "fedora"))
    BY <1>1, <1>4 DEF SnapshotPostgres, At, Snapshots
  <2>2. \A x \in Service : snap'.pg[x] = Verdict(server[x])
    BY <2>1, RestTypes DEF Service
  <2>3. Left'
    BY <1>1, <1>2, <2>1, LeftStays
  <2>. QED
    BY <1>1, <1>3, <2>1, <2>2, <2>3 DEF Ready
<1>5. CASE SnapshotRole
  <2>1. idx = 2 /\ UNCHANGED dbOurs /\ snap'.pg = snap.pg
    BY <1>1, <1>5 DEF SnapshotRole, At, Snapshots
  <2>2. Left'
    BY <1>1, <1>2, <2>1, LeftStays
  <2>. QED
    BY <1>1, <1>3, <2>1, <2>2 DEF Ready
<1>6. CASE SnapshotDatabase
  <2>1. /\ idx = 3 /\ snap'.db = Verdict(db # "absent") /\ dbOurs' = (db = "absent")
        /\ snap'.pg = snap.pg /\ snap'.role = snap.role
    BY <1>1, <1>6 DEF SnapshotDatabase, At, Snapshots
  <2>2. db # "ours"
    BY <1>2, <2>1 DEF Left
  <2>3. dbOurs' \/ (snap'.db = "Preexisting" /\ db = "theirs")
    BY <2>1, <2>2, RestTypes DEF Owner, Verdict
  <2>4. Left'
    BY <1>1, <1>2, <2>1, LeftStays
  <2>. QED
    BY <1>1, <1>3, <2>1, <2>3, <2>4 DEF Ready
<1>7. CASE SnapshotDataDir
  <2>1. /\ idx = 4 /\ UNCHANGED dbOurs
        /\ snap'.dir = Verdict(level = Depth) /\ snap'.root = (IF level = Depth THEN 0 ELSE level + 1)
        /\ snap'.dbWasOurs = dbOurs
        /\ snap'.pg = snap.pg /\ snap'.role = snap.role /\ snap'.db = snap.db
    BY <1>1, <1>7 DEF SnapshotDataDir, At, Snapshots
  <2>2. Left'
    BY <1>1, <1>2, <2>1, LeftStays
  <2>. QED
    BY <1>1, <1>3, <2>1, <2>2 DEF Ready, Verdict
<1>8. CASE SnapshotSchema
  <2>1. /\ idx = 5 /\ UNCHANGED dbOurs
        /\ snap'.dir = snap.dir /\ snap'.root = snap.root /\ snap'.dbWasOurs = snap.dbWasOurs
        /\ snap'.pg = snap.pg /\ snap'.role = snap.role /\ snap'.db = snap.db
    BY <1>1, <1>8 DEF SnapshotSchema, At, Snapshots
  <2>2. Left'
    BY <1>1, <1>2, <2>1, LeftStays
  <2>. QED
    BY <1>1, <1>3, <2>1, <2>2 DEF Ready
<1>. QED
  BY <1>4, <1>5, <1>6, <1>7, <1>8

\* The run of setup-postgres leaves a service that runs, and claims of it what
\* was not there.
LEMMA PostgresRest ==
    ASSUME SafeInv, faults = 0, Whole, Left, Ready, RunPostgres
    PROVE  Left'
<1>. USE DEF Postgres, Role, DatabaseStep, DataDir, Schema
<1>1. /\ pc = "run" /\ idx = 1 /\ pc' = "snapshot" /\ idx' = 2 /\ UNCHANGED <<role, db, level, found>>
      /\ server' = With(ToDo) /\ snap \in Snapshots
      /\ snap' = [snap EXCEPT !.pg = [x \in Axis |-> IF x \in ToDo THEN "CreatedByUs" ELSE @[x]]]
      /\ purge'.call = "check"
  BY RestTypes DEF RunPostgres, Running, Ran, SafeInv, PurgeInv
<1>2. Upto = 0 /\ Upto' = 1 /\ Held' = snap'
  BY <1>1 DEF Upto, Held
<1>3. \A x \in Service : x \in ToDo <=> ~server[x]
  BY <1>1 DEF Ready, ToDo, Service, Verdict, Axis
<1>4. ASSUME NEW x \in Service
      PROVE  server'[x] /\ (snap'.pg[x] = "CreatedByUs" <=> ~found.server[x])
  <2>1. x \in Axis
    BY DEF Service, Axis
  <2>2. server'[x]
    BY <1>1, <1>3, <2>1 DEF With
  <2>3. snap'.pg[x] = IF x \in ToDo THEN "CreatedByUs" ELSE snap.pg[x]
    BY <1>1, <2>1 DEF Snapshots
  <2>4. snap.pg[x] # "CreatedByUs" /\ server[x] = found.server[x]
    BY <1>1 DEF Ready, Verdict
  <2>. QED
    BY <1>3, <2>2, <2>3, <2>4
<1>5. NeedsPackage(server')
  BY <1>4 DEF NeedsPackage, Service
<1>6. Turned'
  BY <1>1, <1>4 DEF Turned
<1>7. level = found.level /\ db # "ours" /\ role # "ours" /\ NeedsPackage(found.server)
  BY <1>1, <1>2 DEF Left, Ready
<1>. QED
  BY <1>1, <1>2, <1>4, <1>5, <1>6, <1>7 DEF Left

LEMMA RunRest ==
    ASSUME SafeInv, faults = 0, Whole, Left, Ready,
           RunPostgres \/ RunRole \/ RunDatabase \/ RunDataDir \/ RunSchema
    PROVE  Whole' /\ Left' /\ Ready'
<1>. USE DEF Postgres, Role, DatabaseStep, DataDir, Schema
<1>1. /\ snap \in Snapshots /\ pc = "run" /\ pc' = "snapshot" /\ idx \in 1 .. 5 /\ idx' = idx + 1
      /\ UNCHANGED <<found, dbOurs, purge>> /\ disk'.recorded = idx /\ disk'.snap = snap'
  BY RestTypes DEF RunPostgres, RunRole, RunDatabase, RunDataDir, RunSchema, Running, Ran
<1>2. Upto' = idx /\ Upto = idx - 1 /\ Held = snap /\ Held' = snap'
  BY <1>1 DEF Upto, Held
<1>3. Whole'
  BY <1>1 DEF Whole
<1>4. CASE RunPostgres
  BY <1>1, <1>3, <1>4, PostgresRest DEF Ready, RunPostgres, Running
<1>5. CASE RunRole
  <2>1. /\ idx = 2 /\ UNCHANGED <<server, db, level>>
        /\ role' = (IF snap.role = "Preexisting" THEN role ELSE "ours")
        /\ snap'.role = Made(snap.role) /\ snap'.pg = snap.pg
    BY <1>1, <1>5 DEF RunRole, Running, Snapshots
  <2>2. role # "ours" /\ db # "ours" /\ level = found.level
    BY <1>1, <1>2, <2>1 DEF Left, Ready
  <2>3. Left'
    BY <1>1, <1>2, <2>1, <2>2 DEF Left, Turned, NeedsPackage, Made
  <2>. QED
    BY <1>1, <1>3, <2>1, <2>3 DEF Ready
<1>6. CASE RunDatabase
  <2>1. /\ idx = 3 /\ UNCHANGED <<server, role, level>>
        /\ db' = (IF snap.db = "Preexisting" THEN db ELSE "ours")
        /\ snap'.db = Made(snap.db) /\ snap'.pg = snap.pg /\ snap'.role = snap.role
    BY <1>1, <1>6 DEF RunDatabase, Running, Snapshots
  <2>2. db # "ours" /\ level = found.level
    BY <1>1, <1>2, <2>1 DEF Left, Ready
  <2>3. Left'
    BY <1>1, <1>2, <2>1, <2>2 DEF Left, Turned, NeedsPackage, Made
  <2>4. dbOurs' \/ db' = "theirs"
    BY <1>1, <2>1 DEF Ready
  <2>. QED
    BY <1>1, <1>3, <2>1, <2>2, <2>3, <2>4 DEF Ready
<1>7. CASE RunDataDir
  <2>1. /\ idx = 4 /\ UNCHANGED <<server, role, db>> /\ level' = Depth
        /\ snap'.dir = Made(snap.dir) /\ snap'.root = snap.root /\ snap'.dbWasOurs = snap.dbWasOurs
        /\ snap'.pg = snap.pg /\ snap'.role = snap.role /\ snap'.db = snap.db
    BY <1>1, <1>7 DEF RunDataDir, Running, Snapshots
  <2>2. level = found.level /\ (dbOurs \/ db = "theirs") /\ snap.dbWasOurs = dbOurs
    BY <1>1, <2>1 DEF Ready
  <2>3. \/ snap'.dir = "Preexisting" /\ level = Depth
        \/ snap'.dir = "CreatedByUs" /\ snap'.root = found.level + 1
    BY <1>1, <2>1, <2>2 DEF Ready, Made
  <2>4. Left'
    BY <1>1, <1>2, <2>1, <2>2, <2>3 DEF Left, Turned, NeedsPackage
  <2>. QED
    BY <1>1, <1>3, <2>1, <2>2, <2>4 DEF Ready
<1>8. CASE RunSchema
  <2>1. /\ idx = 5 /\ UNCHANGED <<server, role, db, level>>
        /\ snap'.dir = snap.dir /\ snap'.root = snap.root /\ snap'.dbWasOurs = snap.dbWasOurs
        /\ snap'.pg = snap.pg /\ snap'.role = snap.role /\ snap'.db = snap.db
    BY <1>1, <1>8 DEF RunSchema, Running, Snapshots
  <2>2. Left'
    BY <1>1, <1>2, <2>1 DEF Left, Turned, NeedsPackage
  <2>. QED
    BY <1>1, <1>3, <2>1, <2>2 DEF Ready
<1>. QED
  BY <1>4, <1>5, <1>6, <1>7, <1>8

\* The step that failed is undone like those that are done.
LEMMA RunFailsRest ==
    ASSUME SafeInv, faults' = 0, faults = 0, Whole, Left, Ready,
           RunPostgresFails \/ RunFails \/ RunDataDirFails \/ RunSchemaFails
    PROVE  Whole' /\ Left' /\ Ready'
<1>. USE DEF Postgres, Role, DatabaseStep, DataDir, Schema
<1>1. RunFails \/ RunSchemaFails
  BY RestNoFault DEF RunPostgresFails, RunDataDirFails
<1>2. /\ pc = "run" /\ pc' = "undo" /\ idx \in {2, 3, 5}
      /\ UNCHANGED <<server, role, db, level, found, disk, idx, snap, purge>>
  BY <1>1 DEF RunFails, RunSchemaFails, Running, Failed, world
<1>3. Upto' = idx /\ Upto = idx - 1 /\ Held = snap /\ Held' = snap
  BY <1>2 DEF Upto, Held
<1>4. Left'
  BY <1>2, <1>3 DEF Left, Turned, NeedsPackage
<1>. QED
  BY <1>2, <1>4 DEF Whole, Ready

\* Each call of the undo of setup-postgres gives back its axis.
LEMMA CallRest ==
    ASSUME SafeInv, faults' = 0, Left, PostgresCall
    PROVE  Whole' /\ Left' /\ Ready'
<1>1. /\ UNCHANGED <<role, db, level, found, disk, pc, idx, snap>> /\ pc = "undo" /\ idx = 1
      /\ ~Fault
  BY CallKeeps, RestNoFault DEF Postgres
<1>2. Upto = 1 /\ Upto' = 1 /\ Held = snap /\ Held' = snap
  BY <1>1 DEF Upto, Held
<1>3. /\ Turned /\ \A x \in Service : snap.pg[x] = "CreatedByUs" <=> ~found.server[x]
      /\ NeedsPackage(server) /\ NeedsPackage(found.server)
      /\ server \in [Axis -> BOOLEAN] /\ found.server \in [Axis -> BOOLEAN]
  BY <1>2, RestTypes DEF Left
<1>4. purge \in [call : Calls, safe : BOOLEAN, late : BOOLEAN]
  BY DEF SafeInv, TypeOK, ProcessType
<1>. DEFINE Off(axes) == server' = [x \in Axis |-> server[x] /\ x \notin axes]
<1>5. Turned' /\ NeedsPackage(server')
  <2>1. CASE ListDatabases
    BY <1>1, <1>3, <2>1 DEF ListDatabases, AtCall, world, Turned
  <2>2. CASE StopServer
    <3>1. /\ purge.call = "stop" /\ purge'.call = "disable" /\ Off(StartedByUs("active"))
      BY <1>1, <1>4, <2>2 DEF StopServer, AtCall, TurnsOff, GoesOn
    <3>2. "active" \in StartedByUs("active") <=> ~found.server["active"]
      BY <1>3 DEF StartedByUs, Service
    <3>3. "enabled" \notin StartedByUs("active") /\ "installed" \notin StartedByUs("active")
      BY DEF StartedByUs
    <3>4. server["active"] /\ server["enabled"] /\ server["installed"]
      BY <1>3, <3>1 DEF Turned, Service
    <3>5. server'["enabled"] /\ server'["installed"] /\ server'["active"] = found.server["active"]
      BY <1>3, <3>1, <3>2, <3>3, <3>4 DEF Axis
    <3>. QED
      BY <1>1, <3>1, <3>5 DEF Turned, NeedsPackage
  <2>3. CASE DisableServer
    <3>1. /\ purge.call = "disable" /\ purge'.call = "purge" /\ Off(StartedByUs("enabled"))
      BY <1>1, <1>4, <2>3 DEF DisableServer, AtCall, TurnsOff, GoesOn
    <3>2. "enabled" \in StartedByUs("enabled") <=> ~found.server["enabled"]
      BY <1>3 DEF StartedByUs, Service
    <3>3. "active" \notin StartedByUs("enabled") /\ "installed" \notin StartedByUs("enabled")
      BY DEF StartedByUs
    <3>4. server["enabled"] /\ server["active"] = found.server["active"] /\ server["installed"]
      BY <1>3, <3>1 DEF Turned, NeedsPackage
    <3>5. /\ server'["enabled"] = found.server["enabled"] /\ server'["installed"]
          /\ server'["active"] = found.server["active"]
      BY <1>3, <3>1, <3>2, <3>3, <3>4 DEF Axis
    <3>. QED
      BY <1>1, <3>1, <3>5 DEF Turned, NeedsPackage
  <2>4. CASE PurgePackages
    <3>1. /\ purge.call = "purge" /\ purge'.call = "remove"
          /\ Off(IF purge.safe THEN {"installed", "enabled", "active"} ELSE {})
      BY <1>1, <1>4, <2>4 DEF PurgePackages, AtCall, TurnsOff, GoesOn
    <3>2. \A x \in {"enabled", "active"} : server[x] = found.server[x]
      BY <1>3, <3>1 DEF Turned
    <3>3. CASE purge.safe
      <4>1. ~found.server["installed"]
        BY <1>3, <3>3 DEF SafeInv, PurgeInv, Service
      <4>2. found.server["enabled"] = FALSE /\ found.server["active"] = FALSE
        BY <1>3, <4>1 DEF NeedsPackage, Axis
      <4>3. \A x \in {"enabled", "active"} : server'[x] = FALSE
        BY <3>1, <3>3 DEF Axis
      <4>. QED
        BY <1>1, <3>1, <4>2, <4>3 DEF Turned, NeedsPackage
    <3>4. CASE ~purge.safe
      <4>1. server' = server
        BY <1>3, <3>1, <3>4
      <4>. QED
        BY <1>1, <1>3, <3>1, <3>2, <4>1 DEF Turned
    <3>. QED
      BY <3>3, <3>4
  <2>. QED
    BY <2>1, <2>2, <2>3, <2>4 DEF PostgresCall
<1>6. Left'
  BY <1>1, <1>2, <1>3, <1>5 DEF Left
<1>. QED
  BY <1>1, <1>6 DEF Whole, Ready

\* An undo that works leaves of its step nothing that is ours.
LEMMA UndoRest ==
    ASSUME SafeInv, faults' = 0, faults = 0, Left,
           \/ UndoSchema \/ UndoDataDir \/ UndoDatabase \/ UndoRole \/ RemoveCluster
           \/ NoUndo
    PROVE  Whole' /\ Left' /\ Ready'
<1>. USE DEF Postgres, Role, DatabaseStep, DataDir, Schema
<1>1. NextUndo /\ pc = "undo" /\ idx \in 1 .. 5 /\ UNCHANGED found /\ ~Fault
  BY RestNoFault DEF SafeInv, TypeOK, ProcessType, Steps, UndoSchema, UndoDataDir, UndoDatabase,
     UndoRole, RemoveCluster, AtCall, NoUndo, NotOurs, Undoing, NextUndo
<1>2. Upto = idx /\ Held = snap
  BY <1>1 DEF Upto, Held
<1>3. /\ idx = 1 => pc' = "idle" /\ disk'.recorded = 0 /\ Upto' = 0
      /\ idx > 1 => pc' = "undo" /\ Upto' = idx - 1 /\ Held' = snap /\ UNCHANGED purge
  BY <1>1 DEF NextUndo, Exit, NoManifest, Upto, Held
<1>4. Whole' /\ Ready'
  BY <1>1, <1>3 DEF Whole, Ready
<1>5. NeedsPackage(server')
  <2>1. CASE RemoveCluster
    <3>1. \/ UNCHANGED server
          \/ server' = [x \in Axis |-> server[x] /\ x \notin {"cluster", "active"}]
      BY <1>1, <2>1 DEF RemoveCluster
    <3>. QED
      BY <3>1 DEF Left, NeedsPackage, Axis
  <2>2. CASE ~RemoveCluster
    BY <2>2 DEF UndoSchema, UndoDataDir, UndoDatabase, UndoRole, NoUndo, NotOurs, world, Left
  <2>. QED
    BY <2>1, <2>2
<1>6. CASE UndoSchema
  <2>1. idx = 5 /\ UNCHANGED <<server, role, db, level>>
    BY <1>6 DEF UndoSchema, Undoing, world
  <2>. QED
    BY <1>1, <1>2, <1>3, <1>4, <1>5, <2>1 DEF Left, Turned
<1>7. CASE UndoDataDir
  <2>1. idx = 4 /\ UNCHANGED <<server, role, db>>
    BY <1>7 DEF UndoDataDir, Undoing
  <2>2. level' = found.level \/ db = "theirs"
    <3>1. CASE DataDirIsOurs
      <4>1. snap.root = found.level + 1 /\ level' = Target - 1
        BY <1>1, <1>2, <1>7, <2>1, <3>1 DEF Left, DataDirIsOurs, UndoDataDir
      <4>. QED
        BY <4>1, RestTypes DEF Target
    <3>2. CASE ~DataDirIsOurs
      BY <1>2, <1>7, <2>1, <3>2 DEF Left, DataDirIsOurs, UndoDataDir
    <3>. QED
      BY <3>1, <3>2
  <2>. QED
    BY <1>1, <1>2, <1>3, <1>4, <1>5, <2>1, <2>2 DEF Left, Turned
<1>8. CASE UndoDatabase
  <2>1. idx = 3 /\ UNCHANGED <<server, role, level>> /\ db' = "absent" /\ db # "theirs"
    <3>1. idx = 3 /\ Up
      BY <1>1, <1>2, <1>8, ServiceRuns DEF UndoDatabase, Undoing
    <3>. QED
      BY <1>1, <1>8, <3>1 DEF UndoDatabase, SafeInv, ClaimIsOurs
  <2>. QED
    BY <1>1, <1>2, <1>3, <1>4, <1>5, <2>1 DEF Left, Turned
<1>9. CASE UndoRole
  <2>1. idx = 2 /\ UNCHANGED <<server, db, level>> /\ db # "ours" /\ role' = "absent"
    <3>1. idx = 2 /\ Up
      BY <1>1, <1>2, <1>9, ServiceRuns DEF UndoRole, Undoing
    <3>2. db # "ours"
      BY <1>2, <3>1 DEF Left
    <3>. QED
      BY <1>1, <1>9, <3>1, <3>2 DEF UndoRole
  <2>. QED
    BY <1>1, <1>2, <1>3, <1>4, <1>5, <2>1 DEF Left, Turned
<1>10. CASE NoUndo
  <2>1. /\ UNCHANGED <<server, role, db, level>>
        /\ (idx = 3 /\ snap.db # "CreatedByUs") \/ (idx = 2 /\ snap.role # "CreatedByUs")
    BY <1>10 DEF NoUndo, NotOurs, Undoing, world
  <2>. QED
    BY <1>1, <1>2, <1>3, <1>4, <1>5, <2>1 DEF Left, Turned
<1>11. CASE RemoveCluster
  <2>1. idx = 1 /\ (db' = db \/ db' = "absent") /\ (role' = role \/ role' = "absent")
    BY <1>11 DEF RemoveCluster, AtCall, Undoing
  <2>. QED
    BY <1>1, <1>2, <1>3, <1>4, <1>5, <2>1 DEF Left, Turned
<1>. QED
  BY <1>6, <1>7, <1>8, <1>9, <1>10, <1>11

LEMMA RestInvStep == RestInv /\ [Next]_vars => RestInv'
<1>. SUFFICES ASSUME RestInv, [Next]_vars PROVE RestInv'
  OBVIOUS
<1>1. SafeInv'
  BY SafeInvStep DEF RestInv
<1>2. CASE UNCHANGED vars
  BY <1>1, <1>2 DEF vars, world, RestInv, Whole, Left, Turned, Ready, Upto, Held, NeedsPackage
<1>3. ASSUME Next, faults' = 0  PROVE Whole' /\ Left' /\ Ready'
  <2>1. SafeInv /\ ~Fault /\ ~Die
    BY <1>3, RestNoFault DEF RestInv, Die
  <2>2. faults = 0
    BY <1>3, <2>1, CallKeeps DEF PostgresCall, Next, AdminCreates, Install, Rollback, Stops, Finish,
       SnapshotPostgres, SnapshotRole,
       SnapshotDatabase, SnapshotDataDir, SnapshotSchema, Snapshotted, RunPostgres, RunRole,
       RunDatabase, RunDataDir, RunSchema, Ran, RunPostgresFails, RunFails, RunDataDirFails,
       RunSchemaFails, UndoSchema, UndoDataDir, UndoDatabase, UndoRole, RemoveCluster, NotOurs
  <2>. QED
    BY <1>3, <2>1, <2>2, NextCases, CommandRest, SnapshotRest, RunRest, RunFailsRest, UndoRest, CallRest
    DEF RestInv
<1>. QED
  BY <1>1, <1>2, <1>3 DEF RestInv

LEMMA InitRest == Init => RestInv
<1>. SUFFICES ASSUME Init PROVE RestInv
  OBVIOUS
<1>1. SafeInv
  BY InitSafe
<1>2. /\ server \in ServerMay(family) /\ db # "ours" /\ role # "ours" /\ pc = "idle"
      /\ found = [server |-> server, level |-> level] /\ disk.recorded = 0
  BY DEF Init, NoManifest
<1>3. NeedsPackage(server)
  BY <1>2 DEF ServerMay, NeedsPackage
<1>4. Upto = 0
  BY <1>2 DEF Upto
<1>. QED
  BY <1>1, <1>2, <1>3, <1>4 DEF RestInv, Whole, Left, Ready, Role, DatabaseStep, DataDir

\* A rollback in which nothing failed leaves no role, no database and, when the
\* database was ours, no filestore of ours, and the service as it was found.
THEOREM DatabaseRollbackRestores == Spec => RollbackRestores
<1>1. RestInv /\ [Next]_vars
        => [pc = "undo" /\ pc' = "idle" /\ faults' = 0 =>
              /\ db' # "ours" /\ role' # "ours"
              /\ db = "theirs" \/ level' = found.level
              /\ \A x \in {"enabled", "active"} : server'[x] = found.server[x]]_vars
  <2>. SUFFICES ASSUME RestInv, RestInv', Next, pc = "undo", pc' = "idle", faults' = 0
                PROVE  /\ db' # "ours" /\ role' # "ours"
                       /\ db = "theirs" \/ level' = found.level
                       /\ \A x \in {"enabled", "active"} : server'[x] = found.server[x]
    BY RestInvStep DEF vars
  <2>1. SafeInv /\ ~Fault
    BY RestNoFault DEF RestInv
  <2>2. RemoveCluster
    BY <2>1, CallKeeps DEF PostgresCall, Next, AdminCreates, Install, Rollback, Stops, Finish,
       SnapshotPostgres, SnapshotRole,
       SnapshotDatabase, SnapshotDataDir, SnapshotSchema, At, RunPostgres, RunRole,
       RunDatabase, RunDataDir, RunSchema, Running, RunPostgresFails, RunFails, RunDataDirFails,
       RunSchemaFails, UndoSchema, UndoDataDir, UndoDatabase, UndoRole, NotOurs, Undoing, NextUndo,
       Die, Postgres, Role, DatabaseStep, DataDir, Schema
  <2>3. idx = 1 /\ faults = 0 /\ UNCHANGED level /\ purge.call = "remove"
    BY <2>1, <2>2 DEF RemoveCluster, AtCall, Undoing, Postgres
  <2>4. Left /\ Upto = 1 /\ Held = snap
    BY <2>3 DEF RestInv, Upto, Held
  <2>5. \A x \in {"enabled", "active"} : server[x] = found.server[x]
    BY <2>3, <2>4 DEF Left, Turned
  <2>6. ASSUME NEW x \in {"enabled", "active"}  PROVE server'[x] = found.server[x]
    <3>1. CASE UNCHANGED server
      BY <2>5, <3>1
    <3>2. CASE /\ purge.safe
               /\ server' = [y \in Axis |-> server[y] /\ y \notin {"cluster", "active"}]
      <4>1. ~found.server["installed"]
        BY <2>4, <3>2 DEF RestInv, SafeInv, PurgeInv, Left, Service
      <4>2. ~found.server[x]
        BY <2>4, <4>1 DEF Left, NeedsPackage
      <4>3. found.server[x] \in BOOLEAN /\ server[x] \in BOOLEAN /\ x \in Axis
        BY <2>1, RestTypes DEF Axis
      <4>. QED
        BY <2>5, <3>2, <4>2, <4>3
    <3>. QED
      BY <2>1, <2>2, <3>1, <3>2 DEF RemoveCluster
  <2>7. pc' = "idle" /\ disk'.recorded = 0
    BY <2>2, <2>3 DEF RemoveCluster, NextUndo, NoManifest
  <2>8. Left' /\ Upto' = 0
    BY <2>7 DEF RestInv, Upto
  <2>. QED
    BY <2>3, <2>4, <2>6, <2>8 DEF Left, Role, DatabaseStep, DataDir
<1>. QED
  BY <1>1, InitRest, RestInvStep, PTL DEF Spec, RollbackRestores

=============================================================================
