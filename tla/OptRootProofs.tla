---------------------------- MODULE OptRootProofs ----------------------------
(***************************************************************************)
(* Theorems about OptRoot, for every set of instances, of log directories  *)
(* and of machines they may find, and every bound: the variables keep their*)
(* types; nothing that was there before the first command is removed; what *)
(* a live instance left is on record; and once everything of ours is       *)
(* removed, the machine is as it was found.                                *)
(***************************************************************************)
EXTENDS OptRoot, FiniteSetTheorems, TLAPS

File == LogDirs \cup {None}
Manifests == [steps : SUBSET Steps, snap : Snapshots, finished : BOOLEAN, args : File]

ProcessOK == ProcessType(Snapshots, File)

USE DEF OptRootStep, UserStep, LogDirStep, CacheDirStep, File

-----------------------------------------------------------------------------
(* The operators of Commands.                                              *)

\* The greatest of some steps is one of them, and none of them is greater.
LEMMA MaxIs ==
    ASSUME NEW S \in SUBSET Steps, S # {}
    PROVE  Max(S) \in S /\ \A k \in S : ~(k > Max(S))
  <1>1. S \subseteq {1, 2, 3, 4}
    BY DEF Steps
  <1>2. \E m \in S : \A n \in S : m >= n
    <2>1. CASE 4 \in S  BY <1>1, <2>1
    <2>2. CASE 4 \notin S /\ 3 \in S  BY <1>1, <2>2
    <2>3. CASE 4 \notin S /\ 3 \notin S /\ 2 \in S  BY <1>1, <2>3
    <2>4. CASE S = {1}  BY <2>4
    <2>5. QED  BY <1>1, <2>1, <2>2, <2>3, <2>4
  <1>3. Max(S) \in S /\ \A n \in S : Max(S) >= n
    <2> DEFINE Greatest(m) == \A n \in S : m >= n
    <2>1. Max(S) = CHOOSE m \in S : Greatest(m)
      BY DEF Max
    <2>2. \E m \in S : Greatest(m)
      BY <1>2
    <2>. HIDE DEF Greatest
    <2>3. Max(S) \in S /\ Greatest(Max(S))
      BY <2>1, <2>2
    <2>4. QED  BY <2>3 DEF Greatest
  <1>4. QED
    <2>1. ASSUME NEW k \in S  PROVE ~(k > Max(S))
      <3>1. k \in {1, 2, 3, 4} /\ Max(S) \in {1, 2, 3, 4} /\ Max(S) >= k
        BY <1>1, <1>3
      <3>2. QED  BY <3>1
    <2>2. QED  BY <1>3, <2>1

\* The snapshot of no step is a snapshot, and so is what some records keep of one.
LEMMA DefaultType == Default \in Snapshots
  BY DEF Default, Snapshots, PreState

LEMMA RecordsType ==
    ASSUME NEW s \in Snapshots, NEW K \in SUBSET Steps
    PROVE  Records(s, K) \in Snapshots
  BY DefaultType DEF Records, Snapshots, Default

LEMMA NoManifestType == NoManifest \in Manifests
  BY DefaultType DEF NoManifest, Kept, Manifests

\* A manifest that is written is one.
LEMMA ManifestType ==
    ASSUME ProcessOK, NEW s \in Snapshots, NEW K \in SUBSET Steps, NEW done \in BOOLEAN
    PROVE  Manifest(s, K, done) \in Manifests
  <1>1. man[who] \in Manifests
    BY DEF ProcessOK, ProcessType, Manifests
  <1>2. Records(s, K) \in Snapshots
    BY RecordsType
  <1>3. logfile \in File
    BY DEF ProcessOK, ProcessType
  <1>4. QED
    BY <1>1, <1>2, <1>3, NoManifestType DEF Manifest, Manifests, Kept

LEMMA StartType ==
    ASSUME Start  PROVE ProcessOK
  <1>1. man \in [Instance -> Manifests]
    BY NoManifestType DEF Start
  <1>2. 0 \in 0 .. MaxFaults
    BY FaultsAssumption
  <1>3. who \in Instance
    BY DEF Start, Instance
  <1>4. /\ pc \in {"idle", "snapshot", "run", "undo"} /\ idx \in 1 .. CacheDirStep + 1
        /\ pc \notin {"run", "undo"} /\ recorded \subseteq Steps /\ others \subseteq Instance \ {who}
    BY DEF Start
  <1>5. /\ snap \in Snapshots /\ logfile \in File /\ remains \subseteq Instance
        /\ spoilt \in BOOLEAN /\ faults \in 0 .. MaxFaults
    BY <1>2, DefaultType DEF Start
  <1>6. QED
    BY <1>1, <1>3, <1>4, <1>5 DEF ProcessOK, ProcessType, Manifests

\* A process that takes its manifest over.
LEMMA TakeType ==
    ASSUME ProcessOK, NEW i \in Instance, NEW f \in File, Take(i, f)
    PROVE  /\ who' \in Instance /\ snap' \in Snapshots /\ recorded' \subseteq Steps
           /\ others' \subseteq Instance \ {who'} /\ logfile' \in File
  <1>1. man[i] \in Manifests
    BY DEF ProcessOK, ProcessType, Manifests
  <1>2. QED
    BY <1>1 DEF Take, Manifests, LiveOthers

\* The next undo, or the end of the process.
LEMMA UndoBelowType ==
    ASSUME ProcessOK, NEW k, NEW K \in SUBSET Steps, UndoBelow(k, K),
           spoilt' \in BOOLEAN, faults' \in 0 .. MaxFaults
    PROVE  ProcessOK'
  <1> DEFINE todo == {j \in K : j < k}
  <1>1. CASE todo = {}
    <2>1. Manifest(snap, K, FALSE) \in Manifests
      BY ManifestType DEF ProcessOK, ProcessType
    <2>2. man' \in [Instance -> Manifests]
      <3>1. man \in [Instance -> Manifests]
        BY DEF ProcessOK, ProcessType, Manifests
      <3>2. man' = [man EXCEPT ![who] = Manifest(snap, K, FALSE)]
        BY <1>1 DEF UndoBelow
      <3>3. QED  BY <2>1, <3>1, <3>2
    <2>3. QED
      BY <1>1, <2>2, DefaultType DEF UndoBelow, Exit, ProcessOK, ProcessType, Manifests, Instance, Steps
  <1>2. CASE todo # {}
    <2>1. Max(todo) \in Steps
      BY <1>2, MaxIs
    <2>2. idx' = Max(todo)
      BY <1>2 DEF UndoBelow
    <2>. HIDE DEF todo
    <2>5. idx' \in Steps /\ idx' \in 1 .. CacheDirStep + 1
      BY <2>1, <2>2 DEF Steps
    <2>3. /\ pc' = "undo" /\ recorded' \subseteq Steps
          /\ UNCHANGED <<who, snap, others, logfile, man, remains>>
      BY <1>2 DEF UndoBelow, todo
    <2>4. QED
      BY <2>3, <2>5 DEF ProcessOK, ProcessType
  <1>3. QED  BY <1>1, <1>2

\* The actions of Commands.
LEMMA BeginType ==
    ASSUME ProcessOK, NEW i \in Instance, NEW f \in File, Begin(i, f) \/ BeginRollback(i, f)
    PROVE  ProcessOK'
  <1>1. Take(i, f)
    BY DEF Begin, BeginRollback
  <1>2. /\ who' \in Instance /\ snap' \in Snapshots /\ recorded' \subseteq Steps
        /\ others' \subseteq Instance \ {who'} /\ logfile' \in File
    BY <1>1, TakeType
  <1>3. CASE Begin(i, f)
    BY <1>2, <1>3 DEF Begin, ProcessOK, ProcessType, Steps
  <1>4. CASE BeginRollback(i, f)
    <2>1. man[i].steps \in SUBSET Steps
      BY DEF ProcessOK, ProcessType
    <2>2. Max(man[i].steps) \in Steps
      BY <1>4, <2>1, MaxIs DEF BeginRollback
    <2>3. QED
      BY <1>2, <1>4, <2>2 DEF BeginRollback, ProcessOK, ProcessType, Steps
  <1>5. QED  BY <1>3, <1>4

LEMMA StopsType ==
    ASSUME ProcessOK, Stops  PROVE ProcessOK'
  BY UndoBelowType DEF Stops, ProcessOK, ProcessType

LEMMA SkipType ==
    ASSUME ProcessOK, Skip  PROVE ProcessOK'
  BY DEF Skip, ProcessOK, ProcessType, Steps

LEMMA FinishedType ==
    ASSUME ProcessOK, Finished  PROVE ProcessOK'
  <1>1. man' \in [Instance -> Manifests]
    <2>1. man[who] \in Manifests
      BY DEF ProcessOK, ProcessType, Manifests
    <2>2. [man[who] EXCEPT !.finished = TRUE] \in Manifests
      BY <2>1 DEF Manifests
    <2>3. QED
      BY <2>2 DEF Finished, ProcessOK, ProcessType, Manifests
  <1>2. QED
    BY <1>1, DefaultType DEF Finished, Exit, ProcessOK, ProcessType, Manifests, Instance, Steps

LEMMA SnapshottedType ==
    ASSUME ProcessOK, NEW s \in Snapshots, idx \in Steps, Snapshotted(s)
    PROVE  ProcessOK'
  BY DEF Snapshotted, ProcessOK, ProcessType

LEMMA RanType ==
    ASSUME ProcessOK, pc = "run", snap' \in Snapshots, Ran
    PROVE  ProcessOK'
  <1>1. recorded' \in SUBSET Steps
    BY DEF Ran, ProcessOK, ProcessType
  <1>2. Manifest(snap', recorded', FALSE) \in Manifests
    BY <1>1, ManifestType
  <1>3. man' \in [Instance -> Manifests]
    BY <1>2 DEF Ran, ProcessOK, ProcessType, Manifests
  <1>4. idx' \in 1 .. CacheDirStep + 1
    BY DEF Ran, ProcessOK, ProcessType, Steps
  <1>5. QED
    BY <1>1, <1>3, <1>4 DEF Ran, ProcessOK, ProcessType, Manifests

LEMMA FailedType ==
    ASSUME ProcessOK, pc = "run", snap' \in Snapshots, Failed, faults' \in 0 .. MaxFaults
    PROVE  ProcessOK'
  BY DEF Failed, ProcessOK, ProcessType

LEMMA LeaveSharedType ==
    ASSUME ProcessOK, LeaveShared  PROVE ProcessOK'
  BY UndoBelowType DEF LeaveShared, ProcessOK, ProcessType

LEMMA FaultType ==
    ASSUME ProcessOK, Fault  PROVE faults' \in 0 .. MaxFaults
  BY FaultsAssumption DEF Fault, ProcessOK, ProcessType

LEMMA UndoneType ==
    ASSUME ProcessOK, Undone, Fault \/ UNCHANGED faults
    PROVE  ProcessOK'
  <1>1. faults' \in 0 .. MaxFaults
    BY FaultType DEF ProcessOK, ProcessType
  <1>2. QED
    BY <1>1, UndoBelowType DEF Undone, ProcessOK, ProcessType

LEMMA DiesType ==
    ASSUME ProcessOK, Dies  PROVE ProcessOK'
  <1>1. faults' \in 0 .. MaxFaults
    BY FaultType DEF Dies
  <1>2. QED
    BY <1>1, DefaultType DEF Dies, Exit, ProcessOK, ProcessType, Instance, Steps

-----------------------------------------------------------------------------
(* The types of the machine.                                               *)

Directories == [Instance -> Directory]

LEMMA TypeSplit == TypeOK <=> WorldType /\ ProcessOK
  BY DEF TypeOK, ProcessOK

LEMMA WorldUnchanged ==
    ASSUME WorldType, UNCHANGED world  PROVE WorldType'
  BY DEF WorldType, world

\* A directory that is gone or new, and what is made of one.
LEMMA LevelType ==
    /\ NoDirectory \in Directory
    /\ Level \in Directory
    /\ \A i \in Instance : HandedOver(Level, i) \in Directory
  BY DEF NoDirectory, Level, HandedOver, Directory, Mode, Whose

LEMMA RootMadeType ==
    ASSUME TypeOK  PROVE RootMade \in Directory
  <1>1. dir[Unnamed] \in Directory /\ who \in Instance /\ snap.before \in Mode \cup {"none"}
    BY DEF TypeOK, WorldType, ProcessType, Instance, Snapshots
  <1>2. CASE snap.root # "Preexisting"
    <2>1. Level \in Directory /\ HandedOver(Level, who) \in Directory
      BY <1>1, LevelType
    <2>2. RootMade = IF who = Unnamed THEN HandedOver(Level, who) ELSE Level
      BY <1>2 DEF RootMade
    <2>3. QED  BY <2>1, <2>2
  <1>3. CASE snap.root = "Preexisting" /\ snap.before # "none"
    <2>1. Widened(snap.before) \in Mode
      BY <1>1, <1>3 DEF Widened, Mode
    <2>2. QED
      BY <1>1, <1>3, <2>1 DEF RootMade, Directory
  <1>4. CASE snap.root = "Preexisting" /\ snap.before = "none"
    BY <1>1, <1>4 DEF RootMade
  <1>5. QED  BY <1>2, <1>3, <1>4

LEMMA LevelRemovedType ==
    ASSUME NEW d \in Directories, NEW i, NEW prestate
    PROVE  LevelRemoved(i, prestate, d) \in Directories
  BY LevelType DEF LevelRemoved, Directories

LEMMA ModeRestoredType ==
    ASSUME TypeOK, NEW d \in Directories  PROVE ModeRestored(d) \in Directories
  <1>1. d[Unnamed] \in Directory /\ snap.before \in Mode \cup {"none"}
    BY DEF Directories, TypeOK, ProcessType, Instance, Snapshots
  <1>2. QED
    BY <1>1 DEF ModeRestored, Directories, Directory

LEMMA MadeType == \A p \in PreState : Made(p) \in PreState
  BY DEF Made, PreState

\* What a step half-way through leaves.
LEMMA HalvesType ==
    ASSUME TypeOK, NEW h \in Halves
    PROVE  h.dir \in Directories /\ h.user \in [Instance -> Whose]
           /\ h.snap \in Snapshots /\ h.bare \in Snapshots
  <1>1. /\ dir \in Directories /\ user \in [Instance -> Whose] /\ snap \in Snapshots
        /\ who \in Instance
    BY DEF TypeOK, WorldType, ProcessType, Directories
  <1>2. PICK root \in Directories, claimed \in Snapshots :
           /\ root = [dir EXCEPT ![Unnamed] = IF snap.root = "Preexisting" THEN RootMade ELSE Level]
           /\ claimed = [snap EXCEPT !.root = Made(@)]
    <2>1. [dir EXCEPT ![Unnamed] = IF snap.root = "Preexisting" THEN RootMade ELSE Level] \in Directories
      BY <1>1, LevelType, RootMadeType DEF Directories
    <2>2. [snap EXCEPT !.root = Made(@)] \in Snapshots
      BY <1>1, MadeType DEF Snapshots
    <2>3. QED  BY <2>1, <2>2
  <1>3. /\ [root EXCEPT ![who] = Level] \in Directories
        /\ [claimed EXCEPT !.home = "CreatedByUs"] \in Snapshots
        /\ [user EXCEPT ![who] = "ours"] \in [Instance -> Whose]
        /\ [snap EXCEPT !.user = "CreatedByUs"] \in Snapshots
    BY <1>1, <1>2, LevelType DEF Directories, Snapshots, Whose, PreState
  <1>4. \/ h = [dir |-> dir, user |-> user, snap |-> snap, bare |-> snap]
        \/ h = [dir |-> root, user |-> user, snap |-> claimed, bare |-> snap]
        \/ h = [dir |-> [root EXCEPT ![who] = Level], user |-> user,
                snap |-> [claimed EXCEPT !.home = "CreatedByUs"], bare |-> claimed]
        \/ h = [dir |-> dir, user |-> [user EXCEPT ![who] = "ours"],
                snap |-> [snap EXCEPT !.user = "CreatedByUs"],
                bare |-> [snap EXCEPT !.user = "CreatedByUs"]]
    BY <1>2 DEF Halves
  <1>5. CASE h = [dir |-> dir, user |-> user, snap |-> snap, bare |-> snap]
    BY <1>1, <1>5
  <1>6. CASE h = [dir |-> root, user |-> user, snap |-> claimed, bare |-> snap]
    BY <1>1, <1>2, <1>6
  <1>7. CASE h = [dir |-> [root EXCEPT ![who] = Level], user |-> user,
                  snap |-> [claimed EXCEPT !.home = "CreatedByUs"], bare |-> claimed]
    BY <1>1, <1>2, <1>3, <1>7
  <1>8. CASE h = [dir |-> dir, user |-> [user EXCEPT ![who] = "ours"],
                  snap |-> [snap EXCEPT !.user = "CreatedByUs"],
                  bare |-> [snap EXCEPT !.user = "CreatedByUs"]]
    BY <1>1, <1>3, <1>8
  <1>9. QED  BY <1>4, <1>5, <1>6, <1>7, <1>8

-----------------------------------------------------------------------------
(* Every action keeps the types.                                           *)

LEMMA SnapshotsType ==
    ASSUME TypeOK, SnapshotOptRoot \/ SnapshotUser \/ SnapshotLogDir \/ SnapshotCacheDir
    PROVE  TypeOK'
  <1>1. /\ dir \in [Instance -> Directory] /\ snap \in Snapshots /\ who \in Instance
        /\ idx \in Steps /\ Unnamed \in Instance
    BY DEF TypeOK, WorldType, ProcessType, SnapshotOptRoot, SnapshotUser, SnapshotLogDir,
           SnapshotCacheDir, At, Steps, Instance
  <1>2. \A b \in BOOLEAN : Verdict(b) \in PreState
    BY DEF Verdict, PreState
  <1>3. /\ ToWiden \in Mode \cup {"none"}
        /\ dir[who].owner \in Instance \cup {"root"} /\ dir[who].mode \in Mode
    BY <1>1 DEF ToWiden, Directory
  <1>4. PICK s \in Snapshots : Snapshotted(s)
    <2>1. CASE SnapshotOptRoot
      <3>1. [snap EXCEPT !.root = Verdict(There(Unnamed)),
                         !.home = Verdict(who # Unnamed /\ There(who)), !.before = ToWiden] \in Snapshots
        <4>1. Verdict(There(Unnamed)) \in PreState /\ Verdict(who # Unnamed /\ There(who)) \in PreState
          BY DEF Verdict, PreState
        <4>2. QED  BY <1>1, <1>3, <4>1 DEF Snapshots
      <3>2. QED  BY <2>1, <3>1 DEF SnapshotOptRoot
    <2>2. CASE SnapshotUser
      BY <1>1, <1>2, <1>3, <2>2 DEF SnapshotUser, Snapshots
    <2>3. CASE SnapshotLogDir
      BY <1>1, <1>2, <2>3 DEF SnapshotLogDir, Snapshots
    <2>4. CASE SnapshotCacheDir
      BY <1>1, <1>2, <2>4 DEF SnapshotCacheDir, Snapshots
    <2>5. QED  BY <2>1, <2>2, <2>3, <2>4
  <1>5. ProcessOK'
    BY <1>1, <1>4, SnapshottedType, TypeSplit
  <1>6. WorldType'
    BY <1>4, WorldUnchanged, TypeSplit DEF Snapshotted
  <1>7. QED  BY <1>5, <1>6 DEF TypeOK, ProcessOK

LEMMA RunsType ==
    ASSUME TypeOK, RunOptRoot \/ RunUser \/ RunLogDir \/ RunCacheDir
    PROVE  TypeOK'
  <1>1. /\ dir \in [Instance -> Directory] /\ user \in [Instance -> Whose] /\ cache \in [Instance -> Whose]
        /\ logs \in [LogDirs -> Whose] /\ snap \in Snapshots /\ who \in Instance /\ logfile \in File
    BY DEF TypeOK, WorldType, ProcessType
  <1>2. pc = "run" /\ Ran
    BY DEF RunOptRoot, RunUser, RunLogDir, RunCacheDir, Running
  <1>3. snap' \in Snapshots
    <2>1. CASE RunOptRoot
      BY <1>1, <2>1, MadeType DEF RunOptRoot, Snapshots, PreState
    <2>2. CASE RunUser
      BY <1>1, <2>2, MadeType DEF RunUser, Snapshots
    <2>3. CASE RunLogDir
      BY <1>1, <2>3 DEF RunLogDir, Snapshots, PreState
    <2>4. CASE RunCacheDir
      BY <1>1, <2>4, MadeType DEF RunCacheDir, Snapshots
    <2>5. QED  BY <2>1, <2>2, <2>3, <2>4
  <1>4. WorldType'
    <2>1. CASE RunOptRoot
      <3>1. dir' \in [Instance -> Directory]
        BY <1>1, <2>1, LevelType, RootMadeType DEF RunOptRoot
      <3>2. QED  BY <2>1, <3>1 DEF RunOptRoot, TypeOK, WorldType
    <2>2. CASE RunUser
      <3>1. [made |-> IF There(who) THEN dir[who].made ELSE "ours", owner |-> who, mode |-> "750"]
              \in Directory
        BY <1>1 DEF Directory, Mode, Whose
      <3>2. dir' \in [Instance -> Directory] /\ user' \in [Instance -> Whose]
        BY <1>1, <2>2, <3>1 DEF RunUser, Whose
      <3>3. QED  BY <2>2, <3>2 DEF RunUser, TypeOK, WorldType
    <2>3. CASE RunLogDir
      <3>1. logs' \in [LogDirs -> Whose]
        BY <1>1, <2>3 DEF RunLogDir, Whose
      <3>2. QED  BY <2>3, <3>1 DEF RunLogDir, TypeOK, WorldType
    <2>4. CASE RunCacheDir
      <3>1. cache' \in [Instance -> Whose]
        BY <1>1, <2>4 DEF RunCacheDir, Whose
      <3>2. QED  BY <2>4, <3>1 DEF RunCacheDir, TypeOK, WorldType
    <2>5. QED  BY <2>1, <2>2, <2>3, <2>4
  <1>5. ProcessOK'
    BY <1>2, <1>3, RanType, TypeSplit
  <1>6. QED  BY <1>4, <1>5 DEF TypeOK, ProcessOK

LEMMA FailuresType ==
    ASSUME TypeOK, RunHalfway \/ RunFails
    PROVE  TypeOK'
  <1>1. /\ snap \in Snapshots /\ logs \in [LogDirs -> Whose] /\ faults \in 0 .. MaxFaults
    BY DEF TypeOK, WorldType, ProcessType
  <1>2. CASE RunHalfway
    <2>1. PICK h \in Halves : /\ dir' = h.dir /\ user' = h.user
                              /\ \/ snap' = h.snap /\ UNCHANGED faults
                                 \/ snap' = h.bare /\ Fault
      BY <1>2 DEF RunHalfway
    <2>2. /\ dir' \in [Instance -> Directory] /\ user' \in [Instance -> Whose] /\ snap' \in Snapshots
      BY <2>1, HalvesType DEF Directories
    <2>3. faults' \in 0 .. MaxFaults
      BY <1>1, <2>1, FaultType, TypeSplit
    <2>4. ProcessOK'
      BY <1>2, <2>2, <2>3, FailedType, TypeSplit DEF RunHalfway
    <2>5. WorldType'
      BY <1>2, <2>2 DEF RunHalfway, TypeOK, WorldType
    <2>6. QED  BY <2>4, <2>5 DEF TypeOK, ProcessOK
  <1>3. CASE RunFails
    <2>1. snap' \in Snapshots /\ logs' \in [LogDirs -> Whose]
      BY <1>1, <1>3 DEF RunFails, Snapshots, PreState, Whose
    <2>2. faults' \in 0 .. MaxFaults
      BY <1>1, <1>3 DEF RunFails
    <2>3. ProcessOK'
      BY <1>3, <2>1, <2>2, FailedType, TypeSplit DEF RunFails
    <2>4. WorldType'
      BY <1>3, <2>1 DEF RunFails, TypeOK, WorldType
    <2>5. QED  BY <2>3, <2>4 DEF TypeOK, ProcessOK
  <1>4. QED  BY <1>2, <1>3

LEMMA UndosType ==
    ASSUME TypeOK, UndoOptRoot \/ UndoUser \/ UndoLogDir \/ UndoCacheDir
    PROVE  TypeOK'
  <1>1. /\ dir \in [Instance -> Directory] /\ user \in [Instance -> Whose] /\ cache \in [Instance -> Whose]
        /\ logs \in [LogDirs -> Whose] /\ snap \in Snapshots /\ who \in Instance
    BY DEF TypeOK, WorldType, ProcessType
  <1>2. Undone /\ (Fault \/ UNCHANGED faults)
    BY DEF UndoOptRoot, UndoUser, UndoLogDir, UndoCacheDir
  <1>3. ProcessOK'
    BY <1>2, UndoneType, TypeSplit
  <1>4. WorldType'
    <2>1. CASE UndoOptRoot
      <3>1. PICK done \in SUBSET {"home", "mode", "root"} :
              LET home == IF who # Unnamed /\ "home" \in done THEN LevelRemoved(who, snap.home, dir) ELSE dir
                  mode == IF "mode" \in done THEN ModeRestored(home) ELSE home
              IN  dir' = IF others = {} /\ "root" \in done THEN LevelRemoved(Unnamed, snap.root, mode) ELSE mode
        BY <2>1 DEF UndoOptRoot
      <3>2. dir' \in Directories
        BY <1>1, <3>1, LevelRemovedType, ModeRestoredType DEF Directories
      <3>3. QED  BY <2>1, <3>2 DEF UndoOptRoot, TypeOK, WorldType, Directories
    <2>2. CASE UndoUser
      <3>1. HomeGivenBack \in [Instance -> Directory]
        <4>1. /\ dir[who] \in Directory
              /\ snap.owner \in Instance \cup {"root", "none"} /\ snap.mode \in Mode \cup {"none"}
          BY <1>1 DEF Snapshots
        <4>2. PICK o \in Instance \cup {"root"}, m \in Mode :
                 /\ o = IF snap.owner = "none" THEN dir[who].owner ELSE snap.owner
                 /\ m = IF snap.mode = "none" THEN dir[who].mode ELSE snap.mode
          BY <4>1 DEF Directory
        <4>3. [dir[who] EXCEPT !.owner = o, !.mode = m] \in Directory
          BY <4>1 DEF Directory
        <4>4. HomeGivenBack =
                IF There(who) THEN [dir EXCEPT ![who] = [@ EXCEPT !.owner = o, !.mode = m]] ELSE dir
          BY <1>1, <4>2 DEF HomeGivenBack, Directory
        <4>5. QED  BY <1>1, <4>3, <4>4
      <3>2. dir' \in [Instance -> Directory] /\ user' \in [Instance -> Whose]
        BY <1>1, <2>2, <3>1 DEF UndoUser, Whose
      <3>3. QED  BY <2>2, <3>2 DEF UndoUser, TypeOK, WorldType
    <2>3. CASE UndoLogDir
      <3>1. logs' \in [LogDirs -> Whose]
        BY <1>1, <2>3 DEF UndoLogDir, Whose
      <3>2. QED  BY <2>3, <3>1 DEF UndoLogDir, TypeOK, WorldType
    <2>4. CASE UndoCacheDir
      <3>1. cache' \in [Instance -> Whose]
        BY <1>1, <2>4 DEF UndoCacheDir, Whose
      <3>2. QED  BY <2>4, <3>1 DEF UndoCacheDir, TypeOK, WorldType
    <2>5. QED  BY <2>1, <2>2, <2>3, <2>4
  <1>5. QED  BY <1>3, <1>4 DEF TypeOK, ProcessOK

LEMMA CommandsType ==
    ASSUME TypeOK, NEW i \in Instance, Install(i) \/ Rollback(i)
    PROVE  TypeOK'
  <1>1. PICK f \in File : Begin(i, f) \/ BeginRollback(i, f)
    BY LogsAssumption DEF Install, Rollback, TypeOK, ProcessType
  <1>2. ProcessOK'
    BY <1>1, BeginType, TypeSplit
  <1>3. WorldType'
    BY <1>1, WorldUnchanged, TypeSplit DEF Begin, BeginRollback
  <1>4. QED  BY <1>2, <1>3 DEF TypeOK, ProcessOK

LEMMA EnginesType ==
    ASSUME TypeOK, Stops \/ Skip \/ Finish \/ LeaveShared
    PROVE  TypeOK'
  <1>1. ProcessOK'
    BY StopsType, SkipType, FinishedType, LeaveSharedType, TypeSplit DEF Finish
  <1>2. WorldType'
    <2>1. CASE Stops \/ Skip \/ LeaveShared
      BY <2>1, WorldUnchanged, TypeSplit DEF Stops, Skip, LeaveShared
    <2>2. CASE Finish
      BY <2>2 DEF Finish, TypeOK, WorldType, ProcessType
    <2>3. QED  BY <2>1, <2>2
  <1>3. QED  BY <1>1, <1>2 DEF TypeOK, ProcessOK

LEMMA DieType ==
    ASSUME TypeOK, Die  PROVE TypeOK'
  <1>1. ProcessOK'
    BY DiesType, TypeSplit DEF Die
  <1>2. dir' \in [Instance -> Directory] /\ user' \in [Instance -> Whose]
    BY HalvesType DEF Die, TypeOK, WorldType, Directories
  <1>3. WorldType'
    BY <1>2 DEF Die, TypeOK, WorldType
  <1>4. QED  BY <1>1, <1>3 DEF TypeOK, ProcessOK

LEMMA InitType == Init => TypeOK
  <1> SUFFICES ASSUME Init  PROVE TypeOK
    OBVIOUS
  <1>1. ProcessOK
    BY StartType DEF Init
  <1>2. /\ user \in [Instance -> Whose] /\ cache \in [Instance -> Whose]
        /\ logs \in [LogDirs -> Whose] /\ written \subseteq LogDirs
    BY DEF Init, Whose
  <1>3. dir \in [Instance -> Directory]
    <2>1. PICK root \in Roots(user) : \E h \in Homes(root, user) :
            dir = [i \in Instance |-> IF i = Unnamed THEN root ELSE h[i]]
      BY DEF Init
    <2>5. PICK h \in Homes(root, user) :
            dir = [i \in Instance |-> IF i = Unnamed THEN root ELSE h[i]]
      BY <2>1
    <2>2. root \in Directory
      BY <2>1, LevelType, FoundAssumption DEF Roots, Directory, Whose, Instance
    <2>3. \A i \in Named : h[i] \in Directory
      BY <2>5, LevelType, FoundAssumption DEF Homes, Directory, Whose, Mode, Instance
    <2>4. QED  BY <2>2, <2>3, <2>5 DEF Instance
  <1>4. QED  BY <1>1, <1>2, <1>3 DEF TypeOK, WorldType, ProcessOK

LEMMA NextType == TypeOK /\ [Next]_vars => TypeOK'
  <1> SUFFICES ASSUME TypeOK, [Next]_vars  PROVE TypeOK'
    OBVIOUS
  <1>1. CASE UNCHANGED vars
    BY <1>1 DEF vars, world, process, TypeOK, WorldType, ProcessType
  <1>2. CASE Next
    BY <1>2, CommandsType, EnginesType, SnapshotsType, RunsType, FailuresType, UndosType, DieType
       DEF Next
  <1>3. QED  BY <1>1, <1>2

\* The variables keep their types, whatever instances come and go.
THEOREM OptRootTypeOK == Spec => []TypeOK
  BY InitType, NextType, PTL DEF Spec

-----------------------------------------------------------------------------
(* Nothing that was there before is removed.                               *)

\* The undo of setup-log-dir removes the directory of the log file of its own
\* context, whichever file its record was made for: what follows holds if an
\* installation is resumed with the log file it began with.
OneLogFile == \A i \in Instance : \A f, g \in LogsOf[i] : f = g

FoundType ==
    found \in [dir : [Instance -> Directory], user : [Instance -> Whose],
               cache : [Instance -> Whose], logs : [LogDirs -> Whose]]

\* What a snapshot of i calls created by us was not there before.
ClaimsAreOurs(s, i) ==
    /\ s.root = "CreatedByUs" => found.dir[Unnamed].made # "theirs"
    /\ s.home = "CreatedByUs" => found.dir[i].made # "theirs"
    /\ s.user = "CreatedByUs" => found.user[i] # "theirs"
    /\ s.log = "CreatedByUs" => \A f \in LogsOf[i] \ {None} : found.logs[f] # "theirs"
    /\ s.cache = "CreatedByUs" => found.cache[i] # "theirs"

\* What the snapshot before a run did not find was not there before either.
RunMakesOurs ==
    pc = "run" =>
        /\ idx = OptRootStep =>
              /\ snap.root # "Preexisting" => found.dir[Unnamed].made # "theirs"
              /\ who # Unnamed /\ snap.home # "Preexisting" => found.dir[who].made # "theirs"
        /\ idx = UserStep /\ snap.user # "Preexisting" => found.user[who] # "theirs"
        /\ idx = LogDirStep /\ snap.log # "Preexisting" /\ logfile # None =>
              found.logs[logfile] # "theirs"
        /\ idx = CacheDirStep /\ snap.cache # "Preexisting" => found.cache[who] # "theirs"

\* A process and a manifest have a log file of their instance's.
LogFiles ==
    /\ pc # "idle" => logfile \in LogsOf[who]
    /\ \A i \in Instance : man[i].steps # {} => man[i].args \in LogsOf[i]

TheirsInv ==
    /\ TypeOK /\ FoundType /\ TheirsStay
    /\ pc # "idle" => ClaimsAreOurs(snap, who)
    /\ \A i \in Instance : ClaimsAreOurs(man[i].snap, i)
    /\ RunMakesOurs /\ LogFiles

Claims ==
    /\ pc # "idle" => ClaimsAreOurs(snap, who)
    /\ \A i \in Instance : ClaimsAreOurs(man[i].snap, i)
    /\ LogFiles

\* Snapshots that claim no more than one that claims what is ours.
LEMMA DefaultClaims == \A i \in Instance : ClaimsAreOurs(Default, i)
  BY DEF ClaimsAreOurs, Default

LEMMA RecordsClaims ==
    ASSUME NEW s \in Snapshots, NEW K, NEW i \in Instance, ClaimsAreOurs(s, i)
    PROVE  ClaimsAreOurs(Records(s, K), i)
  <1> DEFINE r == Records(s, K)
  <1>1. \A f \in DOMAIN Default : r[f] = s[f] \/ r[f] = Default[f]
    BY DEF Records
  <1>2. \A f \in {"root", "home", "user", "log", "cache"} :
            f \in DOMAIN Default /\ Default[f] = "Untracked"
    BY DEF Default
  <1>3. \A f \in {"root", "home", "user", "log", "cache"} : r[f] = "CreatedByUs" => s[f] = "CreatedByUs"
    BY <1>1, <1>2
  <1>4. /\ r.root = "CreatedByUs" => s.root = "CreatedByUs"
        /\ r.home = "CreatedByUs" => s.home = "CreatedByUs"
        /\ r.user = "CreatedByUs" => s.user = "CreatedByUs"
        /\ r.log = "CreatedByUs" => s.log = "CreatedByUs"
        /\ r.cache = "CreatedByUs" => s.cache = "CreatedByUs"
    BY <1>3
  <1>5. QED  BY <1>4 DEF ClaimsAreOurs

\* A manifest that is written claims what the snapshots claim.
LEMMA ManifestClaims ==
    ASSUME ProcessOK, Claims, pc # "idle", NEW s \in Snapshots, ClaimsAreOurs(s, who),
           NEW K \in SUBSET Steps, NEW done \in BOOLEAN
    PROVE  /\ ClaimsAreOurs(Manifest(s, K, done).snap, who)
           /\ Manifest(s, K, done).steps # {} => Manifest(s, K, done).args \in LogsOf[who]
  <1>1. who \in Instance
    BY DEF ProcessOK, ProcessType
  <1>2. CASE K = {}
    <2>1. Manifest(s, K, done) = NoManifest
      BY <1>2 DEF Manifest
    <2>2. QED  BY <1>1, <2>1, DefaultClaims DEF NoManifest
  <1>3. CASE K # {}
    <2>1. /\ Manifest(s, K, done).snap = Records(s, K)
          /\ Manifest(s, K, done).args = IF man[who].steps = {} THEN logfile ELSE man[who].args
      BY <1>3 DEF Manifest, Kept
    <2>2. QED  BY <1>1, <2>1, RecordsClaims DEF Claims, LogFiles
  <1>4. QED  BY <1>2, <1>3

LEMMA UndoBelowClaims ==
    ASSUME ProcessOK, Claims, pc # "idle", NEW k, NEW K \in SUBSET Steps, UndoBelow(k, K),
           UNCHANGED found
    PROVE  Claims' /\ pc' # "run"
  <1> DEFINE todo == {j \in K : j < k}
             m == Manifest(snap, K, FALSE)
  <1>1. CASE todo = {}
    <2>1. pc' = "idle" /\ man' = [man EXCEPT ![who] = m]
      BY <1>1 DEF UndoBelow, Exit
    <2>2. ClaimsAreOurs(m.snap, who) /\ (m.steps # {} => m.args \in LogsOf[who])
      BY ManifestClaims DEF ProcessOK, ProcessType, Claims
    <2>. HIDE DEF m
    <2>3. \A i \in Instance : ClaimsAreOurs(man'[i].snap, i)
      BY <2>1, <2>2 DEF Claims, ProcessOK, ProcessType
    <2>4. \A i \in Instance : man'[i].steps # {} => man'[i].args \in LogsOf[i]
      BY <2>1, <2>2 DEF Claims, LogFiles, ProcessOK, ProcessType
    <2>5. QED  BY <2>1, <2>3, <2>4 DEF Claims, LogFiles, ClaimsAreOurs
  <1>2. CASE todo # {}
    <2>1. pc' = "undo" /\ UNCHANGED <<who, snap, logfile, man>>
      BY <1>2 DEF UndoBelow
    <2>2. QED  BY <2>1 DEF Claims, LogFiles, ClaimsAreOurs
  <1>3. QED  BY <1>1, <1>2

\* The machine before the first command does not change.
LEMMA FoundIsFixed == Next => UNCHANGED found
  BY DEF Next, Install, Rollback, Begin, BeginRollback, Stops, Skip, Finish, SnapshotOptRoot,
     SnapshotUser, SnapshotLogDir, SnapshotCacheDir, Snapshotted, RunOptRoot, RunUser, RunLogDir,
     RunCacheDir, RunHalfway, RunFails, LeaveShared, UndoOptRoot, UndoUser, UndoLogDir,
     UndoCacheDir, Die, world

LEMMA WorldStays ==
    ASSUME TheirsStay, UNCHANGED world  PROVE TheirsStay'
  BY DEF TheirsStay, world

\* The invariant once the machine and the claims are dealt with.
LEMMA InvSplit == TheirsInv <=> TypeOK /\ FoundType /\ TheirsStay /\ Claims /\ RunMakesOurs
  BY DEF TheirsInv, Claims

LEMMA BeginsKeep ==
    ASSUME TheirsInv, UNCHANGED found, NEW i \in Instance, Install(i) \/ Rollback(i)
    PROVE  TheirsStay' /\ Claims' /\ RunMakesOurs'
  <1>1. PICK f \in LogsOf[i] : /\ Begin(i, f) \/ BeginRollback(i, f)
    BY DEF Install, Rollback, BeginRollback, TheirsInv, LogFiles
  <1>2. /\ UNCHANGED world /\ UNCHANGED man
        /\ pc' # "run" /\ who' = i /\ snap' = man[i].snap /\ logfile' = f
    BY <1>1 DEF Begin, BeginRollback, Take
  <1>3. TheirsStay'
    BY <1>2, WorldStays DEF TheirsInv
  <1>4. Claims'
    BY <1>2 DEF TheirsInv, Claims, LogFiles, ClaimsAreOurs
  <1>5. QED  BY <1>2, <1>3, <1>4 DEF RunMakesOurs

LEMMA EngineKeeps ==
    ASSUME TheirsInv, UNCHANGED found, Stops \/ Skip \/ Finish \/ LeaveShared
    PROVE  TheirsStay' /\ Claims' /\ RunMakesOurs'
  <1>1. TheirsStay'
    <2>1. UNCHANGED <<dir, user, cache, logs, found>>
      BY DEF Stops, Skip, Finish, LeaveShared, world
    <2>2. QED  BY <2>1 DEF TheirsInv, TheirsStay
  <1>2. CASE Stops \/ LeaveShared
    <2>1. pc # "idle" /\ UndoBelow(idx, recorded) /\ recorded \in SUBSET Steps
      BY <1>2 DEF Stops, LeaveShared, TheirsInv, TypeOK, ProcessType
    <2>2. Claims' /\ pc' # "run"
      BY <2>1, UndoBelowClaims, InvSplit, TypeSplit
    <2>3. QED  BY <1>1, <2>2 DEF RunMakesOurs
  <1>3. CASE Skip
    BY <1>1, <1>3 DEF Skip, TheirsInv, Claims, LogFiles, ClaimsAreOurs, RunMakesOurs
  <1>4. CASE Finish
    <2>1. /\ pc' = "idle"
          /\ \A i \in Instance : /\ man'[i].snap = man[i].snap /\ man'[i].steps = man[i].steps
                                 /\ man'[i].args = man[i].args
      BY <1>4 DEF Finish, Finished, Exit, TheirsInv, TypeOK, ProcessType
    <2>2. QED
      BY <1>1, <2>1 DEF TheirsInv, Claims, LogFiles, ClaimsAreOurs, RunMakesOurs
  <1>5. QED  BY <1>2, <1>3, <1>4

LEMMA SnapshotsKeep ==
    ASSUME TheirsInv, UNCHANGED found,
           SnapshotOptRoot \/ SnapshotUser \/ SnapshotLogDir \/ SnapshotCacheDir
    PROVE  TheirsStay' /\ Claims' /\ RunMakesOurs'
  <1>1. /\ snap \in Snapshots /\ who \in Instance /\ Unnamed \in Instance /\ logfile \in LogsOf[who]
        /\ logfile \in File
    BY DEF TheirsInv, LogFiles, TypeOK, ProcessType, Instance, SnapshotOptRoot, SnapshotUser,
           SnapshotLogDir, SnapshotCacheDir, At
  <1>2. /\ UNCHANGED world /\ UNCHANGED <<man, who, idx, logfile>> /\ pc' = "run" /\ pc = "snapshot"
    BY DEF SnapshotOptRoot, SnapshotUser, SnapshotLogDir, SnapshotCacheDir, Snapshotted, At
  <1>3. TheirsStay'
    BY <1>2, WorldStays DEF TheirsInv
  <1>4. \A b \in BOOLEAN : Verdict(b) # "CreatedByUs" /\ (Verdict(b) # "Preexisting" => ~b)
    BY DEF Verdict
  <1>5. ClaimsAreOurs(snap', who)
    <2>1. CASE SnapshotOptRoot
      BY <1>1, <1>2, <1>4, <2>1 DEF SnapshotOptRoot, Snapshotted, TheirsInv, ClaimsAreOurs, Snapshots, Verdict
    <2>2. CASE SnapshotUser
      BY <1>1, <1>2, <1>4, <2>2 DEF SnapshotUser, Snapshotted, TheirsInv, ClaimsAreOurs, Snapshots, Verdict
    <2>3. CASE SnapshotLogDir
      BY <1>1, <1>2, <1>4, <2>3 DEF SnapshotLogDir, Snapshotted, TheirsInv, ClaimsAreOurs, Snapshots, Verdict
    <2>4. CASE SnapshotCacheDir
      BY <1>1, <1>2, <1>4, <2>4 DEF SnapshotCacheDir, Snapshotted, TheirsInv, ClaimsAreOurs, Snapshots, Verdict
    <2>5. QED  BY <2>1, <2>2, <2>3, <2>4
  <1>6. Claims'
    BY <1>2, <1>5 DEF TheirsInv, Claims, LogFiles, ClaimsAreOurs
  <1>7. RunMakesOurs'
    <2>1. CASE SnapshotOptRoot
      <3>1. idx = 1 /\ snap'.root = Verdict(There(Unnamed))
            /\ snap'.home = Verdict(who # Unnamed /\ There(who))
        BY <1>1, <2>1 DEF SnapshotOptRoot, Snapshotted, Snapshots, At
      <3>2. /\ snap'.root # "Preexisting" => ~There(Unnamed)
            /\ who # Unnamed /\ snap'.home # "Preexisting" => ~There(who)
        BY <3>1 DEF Verdict
      <3>3. /\ ~There(Unnamed) => found.dir[Unnamed].made # "theirs"
            /\ ~There(who) => found.dir[who].made # "theirs"
        BY <1>1 DEF There, TheirsInv, TheirsStay
      <3>4. QED  BY <1>2, <3>1, <3>2, <3>3 DEF RunMakesOurs
    <2>2. CASE SnapshotUser
      <3>1. idx = 2 /\ snap'.user = Verdict(user[who] # "absent")
        BY <1>1, <2>2 DEF SnapshotUser, Snapshotted, Snapshots, At
      <3>2. QED  BY <1>1, <1>2, <3>1 DEF RunMakesOurs, Verdict, TheirsInv, TheirsStay
    <2>3. CASE SnapshotLogDir
      <3>1. idx = 3 /\ snap'.log = Verdict(logfile # None /\ logs[logfile] # "absent")
        BY <1>1, <2>3 DEF SnapshotLogDir, Snapshotted, Snapshots, At
      <3>2. QED  BY <1>1, <1>2, <3>1 DEF RunMakesOurs, Verdict, TheirsInv, TheirsStay
    <2>4. CASE SnapshotCacheDir
      <3>1. idx = 4 /\ snap'.cache = Verdict(cache[who] # "absent")
        BY <1>1, <2>4 DEF SnapshotCacheDir, Snapshotted, Snapshots, At
      <3>2. QED  BY <1>1, <1>2, <3>1 DEF RunMakesOurs, Verdict, TheirsInv, TheirsStay
    <2>5. QED  BY <2>1, <2>2, <2>3, <2>4
  <1>8. QED  BY <1>3, <1>6, <1>7

\* A run that has been recorded: the step's claims go to the manifest.
LEMMA RanClaims ==
    ASSUME TheirsInv, UNCHANGED found, pc = "run", Ran, snap' \in Snapshots, ClaimsAreOurs(snap', who)
    PROVE  Claims' /\ RunMakesOurs'
  <1> DEFINE m == Manifest(snap', recorded', FALSE)
  <1>1. recorded' \in SUBSET Steps
    BY DEF Ran, TheirsInv, TypeOK, ProcessType
  <1>2. ClaimsAreOurs(m.snap, who) /\ (m.steps # {} => m.args \in LogsOf[who])
    BY <1>1, ManifestClaims, InvSplit, TypeSplit
  <1>3. man' = [man EXCEPT ![who] = m] /\ pc' = "snapshot" /\ UNCHANGED <<who, logfile>>
    BY DEF Ran
  <1>. HIDE DEF m
  <1>4. \A i \in Instance : ClaimsAreOurs(man'[i].snap, i)
    BY <1>2, <1>3 DEF TheirsInv, TypeOK, ProcessType
  <1>5. \A i \in Instance : man'[i].steps # {} => man'[i].args \in LogsOf[i]
    BY <1>2, <1>3 DEF TheirsInv, LogFiles, TypeOK, ProcessType
  <1>6. QED
    BY <1>3, <1>4, <1>5 DEF Claims, RunMakesOurs, LogFiles, ClaimsAreOurs, TheirsInv

LEMMA RunsKeep ==
    ASSUME OneLogFile, TheirsInv, UNCHANGED found, RunOptRoot \/ RunUser \/ RunLogDir \/ RunCacheDir
    PROVE  TheirsStay' /\ Claims' /\ RunMakesOurs'
  <1>1. /\ dir \in [Instance -> Directory] /\ user \in [Instance -> Whose] /\ cache \in [Instance -> Whose]
        /\ logs \in [LogDirs -> Whose] /\ snap \in Snapshots /\ who \in Instance /\ logfile \in LogsOf[who]
        /\ pc = "run" /\ Ran /\ snap' \in Snapshots /\ ClaimsAreOurs(snap, who) /\ Unnamed \in Instance
    <2>1. TypeOK'
      BY RunsType, InvSplit
    <2>2. QED
      BY <2>1 DEF TheirsInv, LogFiles, TypeOK, WorldType, ProcessType, RunOptRoot, RunUser, RunLogDir,
                  RunCacheDir, Running, Instance
  <1>2. TheirsStay' /\ ClaimsAreOurs(snap', who)
    <2>1. CASE RunOptRoot
      <3>1. idx = 1 /\ UNCHANGED <<user, cache, logs>>
        BY <2>1 DEF RunOptRoot, Running
      <3>2. /\ snap.root # "Preexisting" => found.dir[Unnamed].made # "theirs"
            /\ HomeToMake => found.dir[who].made # "theirs"
        BY <1>1, <3>1 DEF TheirsInv, RunMakesOurs, HomeToMake
      <3>3. snap.root = "Preexisting" => RootMade.made = dir[Unnamed].made
        BY <1>1 DEF RootMade, Directory
      <3>4. \A i \in Instance : found.dir[i].made = "theirs" => dir'[i].made = dir[i].made
        BY <1>1, <2>1, <3>2, <3>3 DEF RunOptRoot, TheirsInv, HomeToMake
      <3>5. TheirsStay'
        BY <3>1, <3>4 DEF TheirsInv, TheirsStay
      <3>6. ClaimsAreOurs(snap', who)
        BY <1>1, <2>1, <3>2 DEF RunOptRoot, ClaimsAreOurs, Snapshots, Made
      <3>7. QED  BY <3>5, <3>6
    <2>2. CASE RunUser
      <3>1. idx = 2 /\ UNCHANGED <<cache, logs>>
        BY <2>2 DEF RunUser, Running
      <3>2. snap.user # "Preexisting" => found.user[who] # "theirs"
        BY <1>1, <3>1 DEF TheirsInv, RunMakesOurs
      <3>3. \A i \in Instance : found.dir[i].made = "theirs" => dir'[i].made = "theirs"
        BY <1>1, <2>2 DEF RunUser, TheirsInv, TheirsStay, There
      <3>4. \A i \in Instance : found.user[i] = "theirs" => user'[i] = "theirs"
        BY <1>1, <2>2, <3>2 DEF RunUser, TheirsInv, TheirsStay
      <3>5. TheirsStay'
        BY <3>1, <3>3, <3>4 DEF TheirsInv, TheirsStay
      <3>6. ClaimsAreOurs(snap', who)
        BY <1>1, <2>2, <3>2 DEF RunUser, ClaimsAreOurs, Snapshots, Made
      <3>7. QED  BY <3>5, <3>6
    <2>3. CASE RunLogDir
      <3>1. idx = 3 /\ UNCHANGED <<dir, user, cache>>
        BY <2>3 DEF RunLogDir, Running
      <3>2. snap.log # "Preexisting" /\ logfile # None => found.logs[logfile] # "theirs"
        BY <1>1, <3>1 DEF TheirsInv, RunMakesOurs
      <3>3. TheirsStay'
        BY <1>1, <2>3, <3>1, <3>2 DEF RunLogDir, TheirsInv, TheirsStay
      <3>4. ClaimsAreOurs(snap', who)
        BY <1>1, <2>3, <3>2 DEF RunLogDir, ClaimsAreOurs, Snapshots, OneLogFile
      <3>5. QED  BY <3>3, <3>4
    <2>4. CASE RunCacheDir
      <3>1. idx = 4 /\ UNCHANGED <<dir, user, logs>>
        BY <2>4 DEF RunCacheDir, Running
      <3>2. snap.cache # "Preexisting" => found.cache[who] # "theirs"
        BY <1>1, <3>1 DEF TheirsInv, RunMakesOurs
      <3>3. TheirsStay'
        BY <1>1, <2>4, <3>1, <3>2 DEF RunCacheDir, TheirsInv, TheirsStay
      <3>4. ClaimsAreOurs(snap', who)
        BY <1>1, <2>4, <3>2 DEF RunCacheDir, ClaimsAreOurs, Snapshots, Made
      <3>5. QED  BY <3>3, <3>4
    <2>5. QED  BY <2>1, <2>2, <2>3, <2>4
  <1>3. QED
    BY <1>1, <1>2, RanClaims

\* What a step leaves half-way is not theirs, and is claimed only then.
LEMMA HalvesKeep ==
    ASSUME TheirsInv, pc = "run", NEW h \in Halves
    PROVE  /\ \A i \in Instance : /\ found.dir[i].made = "theirs" => h.dir[i].made = "theirs"
                                  /\ found.user[i] = "theirs" => h.user[i] = "theirs"
           /\ ClaimsAreOurs(h.snap, who) /\ ClaimsAreOurs(h.bare, who)
  <1>1. /\ dir \in [Instance -> Directory] /\ user \in [Instance -> Whose] /\ snap \in Snapshots
        /\ who \in Instance /\ ClaimsAreOurs(snap, who) /\ Unnamed \in Instance
        /\ \A i \in Instance : /\ found.dir[i].made = "theirs" => dir[i].made = "theirs"
                               /\ found.user[i] = "theirs" => user[i] = "theirs"
    BY DEF TheirsInv, TheirsStay, TypeOK, WorldType, ProcessType, Instance
  <1>2. CASE idx = OptRootStep
    <2> DEFINE root == [dir EXCEPT ![Unnamed] = IF snap.root = "Preexisting" THEN RootMade ELSE Level]
               claimed == [snap EXCEPT !.root = Made(@)]
    <2>1. \/ h = [dir |-> dir, user |-> user, snap |-> snap, bare |-> snap]
          \/ h = [dir |-> root, user |-> user, snap |-> claimed, bare |-> snap]
          \/ HomeToMake /\ h = [dir |-> [root EXCEPT ![who] = Level], user |-> user,
                                snap |-> [claimed EXCEPT !.home = "CreatedByUs"], bare |-> claimed]
      BY <1>2 DEF Halves
    <2>2. /\ snap.root # "Preexisting" => found.dir[Unnamed].made # "theirs"
          /\ HomeToMake => found.dir[who].made # "theirs"
      BY <1>2 DEF TheirsInv, RunMakesOurs, HomeToMake
    <2>3. snap.root = "Preexisting" => RootMade.made = dir[Unnamed].made
      BY <1>1 DEF RootMade, Directory
    <2>4. root \in [Instance -> Directory]
      BY <1>1, LevelType, RootMadeType, InvSplit
    <2>5. \A i \in Instance : found.dir[i].made = "theirs" => root[i].made = "theirs"
      BY <1>1, <2>2, <2>3
    <2>6. ClaimsAreOurs(claimed, who) /\ claimed \in Snapshots
      BY <1>1, <2>2, MadeType DEF ClaimsAreOurs, Snapshots, Made
    <2>7. HomeToMake => ClaimsAreOurs([claimed EXCEPT !.home = "CreatedByUs"], who)
      <3>. HIDE DEF claimed
      <3>1. QED  BY <2>2, <2>6 DEF ClaimsAreOurs, Snapshots
    <2>8. HomeToMake => \A i \in Instance :
             found.dir[i].made = "theirs" => [root EXCEPT ![who] = Level][i].made = "theirs"
      <3>. HIDE DEF root
      <3>1. QED  BY <1>1, <2>2, <2>4, <2>5
    <2>. HIDE DEF root, claimed
    <2>9. CASE h = [dir |-> dir, user |-> user, snap |-> snap, bare |-> snap]
      BY <1>1, <2>9
    <2>10. CASE h = [dir |-> root, user |-> user, snap |-> claimed, bare |-> snap]
      BY <1>1, <2>5, <2>6, <2>10
    <2>11. CASE HomeToMake /\ h = [dir |-> [root EXCEPT ![who] = Level], user |-> user,
                                   snap |-> [claimed EXCEPT !.home = "CreatedByUs"], bare |-> claimed]
      BY <1>1, <2>6, <2>7, <2>8, <2>11
    <2>12. QED  BY <2>1, <2>9, <2>10, <2>11
  <1>3. CASE idx # OptRootStep
    <2>1. \/ h = [dir |-> dir, user |-> user, snap |-> snap, bare |-> snap]
          \/ /\ idx = UserStep /\ snap.user = "Untracked"
             /\ h = [dir |-> dir, user |-> [user EXCEPT ![who] = "ours"],
                     snap |-> [snap EXCEPT !.user = "CreatedByUs"],
                     bare |-> [snap EXCEPT !.user = "CreatedByUs"]]
      BY <1>3 DEF Halves
    <2>2. CASE h = [dir |-> dir, user |-> user, snap |-> snap, bare |-> snap]
      BY <1>1, <2>2
    <2>3. CASE /\ idx = UserStep /\ snap.user = "Untracked"
               /\ h = [dir |-> dir, user |-> [user EXCEPT ![who] = "ours"],
                       snap |-> [snap EXCEPT !.user = "CreatedByUs"],
                       bare |-> [snap EXCEPT !.user = "CreatedByUs"]]
      <3>1. found.user[who] # "theirs"
        BY <2>3 DEF TheirsInv, RunMakesOurs
      <3>2. ClaimsAreOurs([snap EXCEPT !.user = "CreatedByUs"], who)
        BY <1>1, <3>1 DEF ClaimsAreOurs, Snapshots
      <3>3. QED  BY <1>1, <2>3, <3>1, <3>2
    <2>4. QED  BY <2>1, <2>2, <2>3
  <1>4. QED  BY <1>2, <1>3

LEMMA FailuresKeep ==
    ASSUME OneLogFile, TheirsInv, UNCHANGED found, RunHalfway \/ RunFails
    PROVE  TheirsStay' /\ Claims' /\ RunMakesOurs'
  <1>1. /\ pc = "run" /\ pc' = "undo" /\ UNCHANGED <<who, man, logfile>>
        /\ snap \in Snapshots /\ who \in Instance /\ logfile \in LogsOf[who] /\ ClaimsAreOurs(snap, who)
    BY DEF RunHalfway, RunFails, Failed, TheirsInv, LogFiles, TypeOK, ProcessType
  <1>2. TheirsStay' /\ ClaimsAreOurs(snap', who)
    <2>1. CASE RunHalfway
      <3>1. PICK h \in Halves : dir' = h.dir /\ user' = h.user /\ (snap' = h.snap \/ snap' = h.bare)
        BY <2>1 DEF RunHalfway
      <3>2. UNCHANGED <<cache, logs, found>>
        BY <2>1 DEF RunHalfway
      <3>3. QED  BY <1>1, <3>1, <3>2, HalvesKeep DEF TheirsInv, TheirsStay
    <2>2. CASE RunFails /\ UNCHANGED <<logs, snap>>
      BY <1>1, <2>2 DEF RunFails, TheirsInv, TheirsStay
    <2>3. CASE RunFails /\ ~UNCHANGED <<logs, snap>>
      <3>1. /\ idx = LogDirStep /\ logfile # None /\ snap.log = "Untracked"
            /\ logs' = [logs EXCEPT ![logfile] = "ours"]
            /\ snap' = [snap EXCEPT !.log = "CreatedByUs"]
            /\ UNCHANGED <<dir, user, cache>>
        BY <2>3 DEF RunFails
      <3>2. found.logs[logfile] # "theirs"
        BY <1>1, <3>1 DEF TheirsInv, RunMakesOurs
      <3>3. TheirsStay'
        BY <3>1, <3>2 DEF TheirsInv, TheirsStay, TypeOK, WorldType
      <3>4. ClaimsAreOurs(snap', who)
        BY <1>1, <3>1, <3>2 DEF ClaimsAreOurs, Snapshots, OneLogFile
      <3>5. QED  BY <3>3, <3>4
    <2>4. QED  BY <2>1, <2>2, <2>3
  <1>3. QED
    BY <1>1, <1>2 DEF TheirsInv, Claims, RunMakesOurs, LogFiles, ClaimsAreOurs

\* A directory is removed only by who made it.
LEMMA LevelRemovedKeeps ==
    ASSUME NEW d \in [Instance -> Directory], NEW i \in Instance, NEW prestate,
           prestate = "CreatedByUs" => found.dir[i].made # "theirs", NEW j \in Instance,
           found.dir[j].made = "theirs"
    PROVE  LevelRemoved(i, prestate, d)[j].made = d[j].made
  BY DEF LevelRemoved

LEMMA ModeRestoredKeeps ==
    ASSUME NEW d \in [Instance -> Directory], NEW j \in Instance
    PROVE  ModeRestored(d)[j].made = d[j].made
  BY DEF ModeRestored, Directory, Instance

LEMMA UndosKeep ==
    ASSUME TheirsInv, UNCHANGED found, UndoOptRoot \/ UndoUser \/ UndoLogDir \/ UndoCacheDir
    PROVE  TheirsStay' /\ Claims' /\ RunMakesOurs'
  <1>1. /\ dir \in [Instance -> Directory] /\ user \in [Instance -> Whose] /\ cache \in [Instance -> Whose]
        /\ logs \in [LogDirs -> Whose] /\ snap \in Snapshots /\ who \in Instance /\ logfile \in LogsOf[who]
        /\ pc = "undo" /\ Undone /\ recorded \in SUBSET Steps /\ ClaimsAreOurs(snap, who) /\ Unnamed \in Instance
    BY DEF TheirsInv, LogFiles, TypeOK, WorldType, ProcessType, UndoOptRoot, UndoUser, UndoLogDir,
           UndoCacheDir, Undoing, Instance
  <1>2. Claims' /\ pc' # "run"
    <2>1. PICK K \in SUBSET Steps : UndoBelow(idx, K)
      BY <1>1 DEF Undone
    <2>2. QED  BY <1>1, <2>1, UndoBelowClaims, InvSplit, TypeSplit
  <1>3. TheirsStay'
    <2>1. CASE UndoOptRoot
      <3>1. PICK done \in SUBSET {"home", "mode", "root"} :
              LET home == IF who # Unnamed /\ "home" \in done THEN LevelRemoved(who, snap.home, dir) ELSE dir
                  mode == IF "mode" \in done THEN ModeRestored(home) ELSE home
              IN  dir' = IF others = {} /\ "root" \in done THEN LevelRemoved(Unnamed, snap.root, mode) ELSE mode
        BY <2>1 DEF UndoOptRoot
      <3>2. PICK home \in [Instance -> Directory] :
              home = IF who # Unnamed /\ "home" \in done THEN LevelRemoved(who, snap.home, dir) ELSE dir
        BY <1>1, LevelRemovedType DEF Directories
      <3>3. PICK mode \in [Instance -> Directory] : mode = IF "mode" \in done THEN ModeRestored(home) ELSE home
        BY <3>2, ModeRestoredType, InvSplit DEF Directories
      <3>4. dir' = IF others = {} /\ "root" \in done THEN LevelRemoved(Unnamed, snap.root, mode) ELSE mode
        BY <3>1, <3>2, <3>3
      <3>5. ASSUME NEW j \in Instance, found.dir[j].made = "theirs"  PROVE dir'[j].made = dir[j].made
        <4>1. home[j].made = dir[j].made
          BY <1>1, <3>2, <3>5, LevelRemovedKeeps DEF ClaimsAreOurs
        <4>2. mode[j].made = home[j].made
          BY <3>3, ModeRestoredKeeps
        <4>3. dir'[j].made = mode[j].made
          BY <1>1, <3>4, <3>5, LevelRemovedKeeps DEF ClaimsAreOurs
        <4>4. QED  BY <4>1, <4>2, <4>3
      <3>6. QED  BY <2>1, <3>5 DEF UndoOptRoot, TheirsInv, TheirsStay
    <2>2. CASE UndoUser
      <3>1. \A j \in Instance : HomeGivenBack[j].made = dir[j].made
        BY <1>1 DEF HomeGivenBack, Directory
      <3>2. \A j \in Instance : dir'[j].made = dir[j].made
        BY <2>2, <3>1 DEF UndoUser
      <3>3. \A j \in Instance : found.user[j] = "theirs" => user'[j] = user[j]
        BY <1>1, <2>2 DEF UndoUser, ClaimsAreOurs
      <3>4. QED  BY <2>2, <3>2, <3>3 DEF UndoUser, TheirsInv, TheirsStay
    <2>3. CASE UndoLogDir
      BY <1>1, <2>3 DEF UndoLogDir, TheirsInv, TheirsStay, ClaimsAreOurs
    <2>4. CASE UndoCacheDir
      BY <1>1, <2>4 DEF UndoCacheDir, TheirsInv, TheirsStay, ClaimsAreOurs
    <2>5. QED  BY <2>1, <2>2, <2>3, <2>4
  <1>4. QED
    BY <1>2, <1>3 DEF RunMakesOurs

LEMMA DieKeeps ==
    ASSUME TheirsInv, UNCHANGED found, Die
    PROVE  TheirsStay' /\ Claims' /\ RunMakesOurs'
  <1>1. pc' = "idle" /\ UNCHANGED <<man, cache, logs>>
    BY DEF Die, Dies, Exit
  <1>2. CASE pc = "run"
    <2>1. PICK h \in Halves : dir' = h.dir /\ user' = h.user
      BY <1>2 DEF Die
    <2>2. QED
      BY <1>1, <1>2, <2>1, HalvesKeep
         DEF TheirsInv, TheirsStay, Claims, LogFiles, ClaimsAreOurs, RunMakesOurs
  <1>3. CASE pc # "run"
    BY <1>1, <1>3 DEF Die, TheirsInv, TheirsStay, Claims, LogFiles, ClaimsAreOurs, RunMakesOurs
  <1>4. QED  BY <1>2, <1>3

LEMMA InitKeeps == Init => TheirsInv
  <1> SUFFICES ASSUME Init  PROVE TheirsInv
    OBVIOUS
  <1>1. TypeOK
    BY InitType
  <1>2. found = [dir |-> dir, user |-> user, cache |-> cache, logs |-> logs]
    BY DEF Init
  <1>3. FoundType /\ TheirsStay
    BY <1>1, <1>2 DEF FoundType, TheirsStay, TypeOK, WorldType
  <1>4. Claims /\ RunMakesOurs
    BY DefaultClaims DEF Init, Start, Claims, RunMakesOurs, LogFiles, NoManifest
  <1>5. QED  BY <1>1, <1>3, <1>4, InvSplit

LEMMA NextKeeps ==
    ASSUME OneLogFile  PROVE TheirsInv /\ [Next]_vars => TheirsInv'
  <1> SUFFICES ASSUME TheirsInv, [Next]_vars  PROVE TheirsInv'
    OBVIOUS
  <1>1. TypeOK'
    BY NextType, InvSplit
  <1>2. CASE UNCHANGED vars
    BY <1>1, <1>2 DEF vars, world, process, TheirsInv, FoundType, TheirsStay, ClaimsAreOurs,
                      RunMakesOurs, LogFiles
  <1>3. CASE Next
    <2>1. UNCHANGED found
      BY <1>3, FoundIsFixed
    <2>2. TheirsStay' /\ Claims' /\ RunMakesOurs'
      BY <1>3, <2>1, BeginsKeep, EngineKeeps, SnapshotsKeep, RunsKeep, FailuresKeep, UndosKeep, DieKeeps
         DEF Next
    <2>3. FoundType'
      BY <2>1 DEF TheirsInv, FoundType
    <2>4. QED  BY <1>1, <2>2, <2>3 DEF TheirsInv, Claims
  <1>4. QED  BY <1>2, <1>3

\* Nothing that was there before the first command is ever removed: what a
\* snapshot or a manifest calls created by us was not there, and only that is
\* undone, whatever instances come, fail, die and go.
THEOREM OptRootTheirsStay ==
    ASSUME OneLogFile  PROVE Spec => []TheirsStay
  <1>1. Init => TheirsInv
    BY InitKeeps
  <1>2. TheirsInv /\ [Next]_vars => TheirsInv'
    BY NextKeeps
  <1>3. TheirsInv => TheirsStay
    BY DEF TheirsInv
  <1>4. QED  BY <1>1, <1>2, <1>3, PTL DEF Spec

-----------------------------------------------------------------------------
(* What a command finds, and what it leaves, when nothing fails on the way. *)

Good == faults = 0 /\ ~spoilt

\* The process of an instance holds its snapshots and its records; without one
\* they are in the manifest.  The step a failure came in is undone like one
\* that is recorded.
Busy(i) == pc # "idle" /\ who = i

Held(i) == IF Busy(i) THEN snap ELSE man[i].snap

Done(i) ==
    IF ~Busy(i) THEN man[i].steps
    ELSE IF pc = "undo" THEN recorded \cup {idx} ELSE recorded

LogFileOf(i) == IF Busy(i) THEN logfile ELSE man[i].args

\* Without faults a manifest is that of a whole installation or what a rollback
\* left to others, none of it the instance's own; what is installed was not
\* recorded before; what is recorded above the step that is undone was left to
\* others, and the step that failed was not.
Orderly ==
    /\ pc # "idle" => others = LiveOthers(who)
    /\ \A i \in Instance : ~Busy(i) =>
          IF man[i].finished THEN man[i].steps = Steps /\ i \notin remains
          ELSE man[i].steps # {} => i \in remains
    /\ \A i \in remains :
          /\ ~man[i].finished
          /\ \A k \in man[i].steps : Scope(k, i) # "OwnInstance"
    /\ \A i \in Instance : man[i].steps = {} => man[i].snap = Default
    /\ pc \in {"snapshot", "run"} =>
          /\ recorded = {k \in Steps : k < idx}
          /\ man[who].steps = recorded /\ ~man[who].finished /\ who \notin remains
          /\ man[who].snap = Records(snap, recorded)
          /\ recorded # {} => man[who].args = logfile
    /\ pc = "undo" =>
          /\ man[who].steps # {} => man[who].args = logfile
          /\ \A k \in recorded : k > idx => others # {} /\ Scope(k, who) # "OwnInstance"
          /\ idx \notin recorded => others = {} \/ Scope(idx, who) = "OwnInstance"

\* A fault is not undone, nor is what a failed step could not record.
LEMMA GoodBefore ==
    ASSUME TypeOK, [Next]_vars, Good'
    PROVE  Good
  <1>1. faults \in Nat
    BY FaultsAssumption DEF TypeOK, ProcessType
  <1>3. CASE UNCHANGED vars
    BY <1>3 DEF vars, Good
  <1>4. CASE Next
    <2>1. (UNCHANGED faults \/ Fault) /\ (UNCHANGED spoilt \/ spoilt' \/ ~spoilt)
      BY <1>4 DEF Next, Install, Rollback, Begin, BeginRollback, Stops, Skip, Finish, Finished,
         SnapshotOptRoot, SnapshotUser, SnapshotLogDir, SnapshotCacheDir, Snapshotted, RunOptRoot,
         RunUser, RunLogDir, RunCacheDir, Ran, RunHalfway, RunFails, Failed, LeaveShared, UndoOptRoot,
         UndoUser, UndoLogDir, UndoCacheDir, Undone, Die, Dies
    <2>2. QED  BY <1>1, <2>1 DEF Good, Fault
  <1>5. QED  BY <1>3, <1>4

LEMMA NoFault ==
    ASSUME TypeOK, Good'  PROVE ~Fault
  BY FaultsAssumption DEF Good, Fault, TypeOK, ProcessType

\* The records of no step say nothing.
LEMMA NoRecords == \A s : Records(s, {}) = Default
  BY DEF Records, Default

\* An installation begins with nothing recorded, a rollback with the last step.
LEMMA BeginOrderly ==
    ASSUME TypeOK, Orderly, Good', NEW i \in Instance, NEW f, Begin(i, f)
    PROVE  Orderly' /\ man[i].steps = {}
  <1>1. /\ pc = "idle" /\ pc' = "snapshot" /\ idx' = 1 /\ who' = i
        /\ snap' = man[i].snap /\ recorded' = man[i].steps /\ others' = LiveOthers(i)
        /\ UNCHANGED <<man, remains>> /\ ~man[i].finished
    BY DEF Begin, Take
  <1>2. i \notin remains
    BY DEF Begin, Good
  <1>3. man[i].steps = {} /\ man[i].snap = Default
    BY <1>1, <1>2 DEF Orderly, Busy
  <1>4. LiveOthers(who)' = LiveOthers(i)
    BY <1>1 DEF LiveOthers, IsLive
  <1>5. \A j \in Instance : ~Busy(j)
    BY <1>1 DEF Busy
  <1>6. {k \in Steps : k < idx'} = {}
    BY <1>1 DEF Steps
  <1>7. Records(snap', {}) = Default
    BY NoRecords
  <1>8. QED
    BY <1>1, <1>2, <1>3, <1>4, <1>5, <1>6, <1>7 DEF Orderly

LEMMA BeginRollbackOrderly ==
    ASSUME TypeOK, Orderly, NEW i \in Instance, BeginRollback(i, man[i].args)
    PROVE  Orderly' /\ idx' \in man[i].steps
  <1>1. /\ pc = "idle" /\ pc' = "undo" /\ idx' = Max(man[i].steps) /\ who' = i
        /\ logfile' = man[i].args
        /\ recorded' = man[i].steps /\ others' = LiveOthers(i)
        /\ UNCHANGED <<man, remains>> /\ man[i].steps # {}
    BY DEF BeginRollback, Take
  <1>2. man[i].steps \in SUBSET Steps
    BY DEF TypeOK, ProcessType
  <1>3. idx' \in man[i].steps /\ \A k \in man[i].steps : ~(k > idx')
    BY <1>1, <1>2, MaxIs
  <1>4. LiveOthers(who)' = LiveOthers(i)
    BY <1>1 DEF LiveOthers, IsLive
  <1>5. \A j \in Instance : ~Busy(j)
    BY <1>1 DEF Busy
  <1>6. QED
    BY <1>1, <1>3, <1>4, <1>5 DEF Orderly

\* What is undone next, or left when the process ends.
LEMMA UndoBelowOrderly ==
    ASSUME TypeOK, Orderly, pc \in {"snapshot", "undo"}, NEW K \in SUBSET Steps, UndoBelow(idx, K),
           \A k \in K : ~(k < idx) => others # {} /\ Scope(k, who) # "OwnInstance"
    PROVE  Orderly'
  <1> DEFINE todo == {j \in K : j < idx}
             m == Manifest(snap, K, FALSE)
  <1>1. who \in Instance /\ idx \in Nat
    BY DEF TypeOK, ProcessType
  <1>2. CASE todo = {}
    <2>1. /\ pc' = "idle" /\ man' = [man EXCEPT ![who] = m]
          /\ remains' = IF K = {} THEN remains \ {who} ELSE remains \cup {who}
      BY <1>2 DEF UndoBelow, Exit
    <2>2. /\ m.finished = FALSE /\ m.steps = K
          /\ K = {} => m.snap = Default
      BY DEF Manifest, NoManifest
    <2>3. \A k \in K : Scope(k, who) # "OwnInstance"
      BY <1>2
    <2>. HIDE DEF m, todo
    <2>4. /\ man'[who] = m
          /\ \A i \in Instance \ {who} : man'[i] = man[i] /\ (i \in remains' <=> i \in remains)
      BY <1>1, <2>1 DEF TypeOK, ProcessType
    <2>5. \A i \in Instance \ {who} : ~Busy(i)
      BY DEF Busy
    <2>6. \A i \in Instance : ~Busy(i)' =>
             IF man'[i].finished THEN man'[i].steps = Steps /\ i \notin remains'
             ELSE man'[i].steps # {} => i \in remains'
      BY <2>1, <2>2, <2>4, <2>5 DEF Orderly
    <2>7. remains' \subseteq Instance
      BY <1>1, <2>1 DEF TypeOK, ProcessType
    <2>8. \A i \in remains' : /\ ~man'[i].finished
                              /\ \A k \in man'[i].steps : Scope(k, i) # "OwnInstance"
      BY <2>1, <2>2, <2>3, <2>4, <2>7 DEF Orderly
    <2>9. \A i \in Instance : man'[i].steps = {} => man'[i].snap = Default
      BY <2>2, <2>4 DEF Orderly
    <2>10. QED  BY <2>1, <2>6, <2>8, <2>9 DEF Orderly
  <1>3. CASE todo # {}
    <2>1. /\ pc' = "undo" /\ idx' = Max(todo) /\ recorded' = K
          /\ UNCHANGED <<who, others, logfile, man, remains>>
          /\ man[who].steps # {} => man[who].args = logfile
      BY <1>3 DEF UndoBelow, Orderly
    <2>2. Max(todo) \in todo /\ \A k \in todo : ~(k > Max(todo))
      BY <1>3, MaxIs
    <2>3. \A k \in recorded' : k > idx' => others' # {} /\ Scope(k, who') # "OwnInstance"
      BY <2>1, <2>2
    <2>4. idx' \in recorded'
      BY <2>1, <2>2
    <2>. HIDE DEF todo
    <2>5. LiveOthers(who)' = LiveOthers(who) /\ \A i \in Instance : Busy(i)' = Busy(i)
      BY <2>1 DEF LiveOthers, IsLive, Busy
    <2>6. QED  BY <2>1, <2>3, <2>4, <2>5 DEF Orderly
  <1>4. QED  BY <1>2, <1>3

\* A step is recorded once; what it leaves is looked at when it is recorded.
LEMMA FieldsApart ==
    \A k, l \in Steps : k # l => Fields(k) \cap Fields(l) = {}
  <1>1. Steps = {1, 2, 3, 4}
    BY DEF Steps
  <1>2. /\ Fields(1) = {"root", "home", "before"} /\ Fields(2) = {"user", "owner", "mode"}
        /\ Fields(3) = {"log"} /\ Fields(4) = {"cache"}
    BY DEF Fields
  <1>3. QED  BY <1>1, <1>2

LEMMA FieldsAre ==
    /\ Fields(1) = {"root", "home", "before"} /\ Fields(2) = {"user", "owner", "mode"}
    /\ Fields(3) = {"log"} /\ Fields(4) = {"cache"}
    /\ \A k \in Steps : Fields(k) \subseteq DOMAIN Default
  <1>1. /\ Fields(1) = {"root", "home", "before"} /\ Fields(2) = {"user", "owner", "mode"}
        /\ Fields(3) = {"log"} /\ Fields(4) = {"cache"}
    BY DEF Fields
  <1>2. Steps = {1, 2, 3, 4}
    BY DEF Steps
  <1>3. DOMAIN Default = {"root", "home", "before", "user", "owner", "mode", "log", "cache"}
    BY DEF Default
  <1>4. QED  BY <1>1, <1>2, <1>3

LEMMA StopsOrderly ==
    ASSUME TypeOK, Orderly, Stops  PROVE Orderly'
  <1>1. pc = "snapshot" /\ UndoBelow(idx, recorded) /\ recorded \in SUBSET Steps /\ idx \in Nat
    BY DEF Stops, TypeOK, ProcessType
  <1>2. \A k \in recorded : k < idx
    BY <1>1 DEF Orderly
  <1>3. QED
    BY <1>1, <1>2, UndoBelowOrderly

LEMMA NoSkip ==
    ASSUME TypeOK, Orderly  PROVE ~Skip
  <1>1. idx \in Nat
    BY DEF TypeOK, ProcessType
  <1>2. QED  BY <1>1 DEF Orderly, Skip

LEMMA FinishOrderly ==
    ASSUME TypeOK, Orderly, Finished  PROVE Orderly'
  <1>1. /\ pc = "snapshot" /\ idx = CacheDirStep + 1 /\ pc' = "idle"
        /\ man' = [man EXCEPT ![who].finished = TRUE] /\ UNCHANGED remains
    BY DEF Finished, Exit
  <1>2. who \in Instance /\ man \in [Instance -> Manifests]
    BY DEF TypeOK, ProcessType, Manifests
  <1>3. /\ man'[who] = [man[who] EXCEPT !.finished = TRUE]
        /\ \A i \in Instance \ {who} : man'[i] = man[i]
    BY <1>1, <1>2
  <1>4. man'[who].finished /\ man'[who].steps = man[who].steps
    BY <1>2, <1>3 DEF Manifests
  <1>5. man[who].steps = Steps /\ who \notin remains
    <2>1. man[who].steps = {k \in Steps : k < 5} /\ who \notin remains
      BY <1>1 DEF Orderly
    <2>2. QED  BY <2>1 DEF Steps
  <1>6. \A i \in Instance \ {who} : ~Busy(i)
    BY DEF Busy
  <1>7. \A i \in Instance :
           IF man'[i].finished THEN man'[i].steps = Steps /\ i \notin remains'
           ELSE man'[i].steps # {} => i \in remains'
    BY <1>1, <1>3, <1>4, <1>5, <1>6 DEF Orderly
  <1>8. \A i \in remains' : ~man'[i].finished /\ \A k \in man'[i].steps : Scope(k, i) # "OwnInstance"
    <2>1. remains' \subseteq Instance \ {who}
      BY <1>1, <1>5 DEF TypeOK, ProcessType
    <2>2. QED  BY <1>1, <1>3, <2>1 DEF Orderly
  <1>9. \A i \in Instance : man'[i].steps = {} => man'[i].snap = Default
    <2>1. Steps # {}
      BY DEF Steps
    <2>2. QED  BY <1>3, <1>4, <1>5, <2>1 DEF Orderly
  <1>10. QED
    BY <1>1, <1>7, <1>8, <1>9 DEF Orderly

\* What is recorded of a snapshot does not change with the fields of another step.
LEMMA RecordsElse ==
    ASSUME NEW s, NEW t, NEW k \in Steps, NEW K \in SUBSET Steps, k \notin K,
           \A f \in DOMAIN Default \ Fields(k) : s[f] = t[f]
    PROVE  Records(s, K) = Records(t, K)
  <1>1. ASSUME NEW f \in DOMAIN Default
        PROVE  (IF \E l \in K : f \in Fields(l) THEN s[f] ELSE Default[f])
                 = (IF \E l \in K : f \in Fields(l) THEN t[f] ELSE Default[f])
    <2>1. CASE f \in Fields(k)
      <3>1. ~\E l \in K : f \in Fields(l)
        BY <2>1, FieldsApart
      <3>2. QED  BY <3>1
    <2>2. CASE f \notin Fields(k)
      BY <1>1, <2>2
    <2>3. QED  BY <2>1, <2>2
  <1>2. QED  BY <1>1 DEF Records

\* A snapshot looks only at what its step is about.
LEMMA SnapshotOrderly ==
    ASSUME TypeOK, Orderly, idx \in Steps, pc = "snapshot", NEW s, Snapshotted(s),
           \A f \in DOMAIN Default \ Fields(idx) : s[f] = snap[f]
    PROVE  Orderly'
  <1>1. /\ snap' = s /\ pc' = "run"
        /\ UNCHANGED <<man, remains, who, idx, recorded, others, logfile>>
    BY DEF Snapshotted
  <1>2. recorded \in SUBSET Steps /\ idx \notin recorded
    BY DEF TypeOK, ProcessType, Orderly, Steps
  <1>3. Records(s, recorded) = Records(snap, recorded)
    BY <1>2, RecordsElse
  <1>4. Records(snap', recorded') = man'[who'].snap
    BY <1>1, <1>3 DEF Orderly
  <1>5. LiveOthers(who)' = LiveOthers(who) /\ \A i \in Instance : Busy(i)' = Busy(i)
    BY <1>1 DEF LiveOthers, IsLive, Busy
  <1>6. QED
    BY <1>1, <1>4, <1>5 DEF Orderly

\* The manifest of a run that succeeded.
LEMMA RanOrderly ==
    ASSUME TypeOK, Orderly, pc = "run", Ran
    PROVE  Orderly'
  <1>1. /\ pc' = "snapshot" /\ idx' = idx + 1 /\ recorded' = recorded \cup {idx}
        /\ man' = [man EXCEPT ![who] = Manifest(snap', recorded', FALSE)]
        /\ UNCHANGED <<who, others, logfile, remains>>
    BY DEF Ran
  <1>2. who \in Instance /\ man \in [Instance -> Manifests] /\ idx \in Steps
    BY DEF TypeOK, ProcessType, Manifests
  <1>3. recorded' = {k \in Steps : k < idx'} /\ recorded' # {}
    <2>1. recorded = {k \in Steps : k < idx}
      BY DEF Orderly
    <2>2. QED  BY <1>1, <1>2, <2>1 DEF Steps
  <1>4. /\ man'[who].steps = recorded' /\ man'[who].snap = Records(snap', recorded')
        /\ man'[who].finished = FALSE /\ man'[who].args = logfile
        /\ \A i \in Instance \ {who} : man'[i] = man[i]
    <2>1. man[who].steps # {} => man[who].args = logfile
      BY DEF Orderly
    <2>2. man'[who] = Manifest(snap', recorded', FALSE)
      BY <1>1, <1>2
    <2> DEFINE m == Manifest(snap', recorded', FALSE)
    <2>3. m.steps = recorded' /\ m.snap = Records(snap', recorded') /\ m.finished = FALSE
      BY <1>3 DEF Manifest
    <2>5. m.args = logfile
      BY <1>3, <2>1 DEF Manifest, Kept
    <2>4. QED  BY <1>1, <1>2, <2>2, <2>3, <2>5
  <1>5. LiveOthers(who)' = LiveOthers(who) /\ \A i \in Instance : Busy(i)' = Busy(i)
    BY <1>1, <1>4 DEF LiveOthers, IsLive, Busy, Orderly
  <1>6. /\ who \notin remains /\ remains \subseteq Instance /\ Busy(who)
        /\ \A i \in Instance \ {who} : ~Busy(i)
    BY DEF Orderly, TypeOK, ProcessType, Busy
  <1>7. \A i \in remains' : ~man'[i].finished /\ \A k \in man'[i].steps : Scope(k, i) # "OwnInstance"
    BY <1>1, <1>4, <1>6 DEF Orderly
  <1>8. \A i \in Instance : ~Busy(i)' =>
           IF man'[i].finished THEN man'[i].steps = Steps /\ i \notin remains'
           ELSE man'[i].steps # {} => i \in remains'
    BY <1>1, <1>4, <1>5, <1>6 DEF Orderly
  <1>9. \A i \in Instance : man'[i].steps = {} => man'[i].snap = Default
    BY <1>3, <1>4 DEF Orderly
  <1>10. others' = LiveOthers(who)'
    BY <1>1, <1>5 DEF Orderly
  <1>11. QED
    BY <1>1, <1>3, <1>4, <1>6, <1>7, <1>8, <1>9, <1>10 DEF Orderly

LEMMA FailedOrderly ==
    ASSUME TypeOK, Orderly, pc = "run", Failed, Good'
    PROVE  Orderly' /\ (others = {} \/ Scope(idx, who) = "OwnInstance")
  <1>1. /\ pc' = "undo" /\ UNCHANGED <<man, remains, who, idx, recorded, others, logfile>>
        /\ others = {} \/ Scope(idx, who) = "OwnInstance"
    BY DEF Failed, Good
  <1>2. LiveOthers(who)' = LiveOthers(who) /\ \A i \in Instance : Busy(i)' = Busy(i)
    BY <1>1 DEF LiveOthers, IsLive, Busy
  <1>3. recorded = {k \in Steps : k < idx} /\ man[who].steps = recorded
        /\ (recorded # {} => man[who].args = logfile)
    BY DEF Orderly
  <1>4. ~\E k \in recorded : k > idx
    <2>1. idx \in Nat
      BY DEF TypeOK, ProcessType, Steps
    <2>2. QED  BY <1>3, <2>1 DEF Steps
  <1>5. QED
    BY <1>1, <1>2, <1>3, <1>4 DEF Orderly

LEMMA LeaveSharedOrderly ==
    ASSUME TypeOK, Orderly, LeaveShared
    PROVE  Orderly' /\ idx \in recorded
  <1>1. /\ pc = "undo" /\ others # {} /\ Scope(idx, who) = "Shared" /\ UndoBelow(idx, recorded)
        /\ recorded \in SUBSET Steps /\ idx \in Nat
    BY DEF LeaveShared, HeldBack, TypeOK, ProcessType
  <1>2. idx \in recorded
    BY <1>1 DEF Orderly
  <1>3. \A k \in recorded : ~(k < idx) => others # {} /\ Scope(k, who) # "OwnInstance"
    <2>1. ASSUME NEW k \in recorded, ~(k < idx)  PROVE others # {} /\ Scope(k, who) # "OwnInstance"
      <3>1. k = idx \/ k > idx
        BY <1>1, <2>1 DEF Steps
      <3>2. QED  BY <1>1, <3>1 DEF Orderly
    <2>2. QED  BY <2>1
  <1>4. QED
    BY <1>1, <1>2, <1>3, UndoBelowOrderly

LEMMA UndoneOrderly ==
    ASSUME TypeOK, Orderly, pc = "undo", Undone
    PROVE  Orderly' /\ (others # {} /\ Scope(idx, who) = "Mixed" => idx \in recorded)
  <1> DEFINE K == IF others # {} /\ Scope(idx, who) = "Mixed" THEN recorded ELSE recorded \ {idx}
  <1>1. UndoBelow(idx, K) /\ K \in SUBSET Steps /\ K \subseteq recorded /\ idx \in Nat
    BY DEF Undone, TypeOK, ProcessType
  <1>2. others # {} /\ Scope(idx, who) = "Mixed" => idx \in recorded
    BY DEF Orderly
  <1>3. \A k \in K : ~(k < idx) => others # {} /\ Scope(k, who) # "OwnInstance"
    <2>1. ASSUME NEW k \in K, ~(k < idx)  PROVE others # {} /\ Scope(k, who) # "OwnInstance"
      <3>1. k = idx \/ k > idx
        BY <1>1, <2>1 DEF Steps
      <3>2. k = idx => others # {} /\ Scope(idx, who) = "Mixed"
        BY <2>1
      <3>3. k > idx => others # {} /\ Scope(k, who) # "OwnInstance"
        BY <1>1, <2>1 DEF Orderly
      <3>4. QED  BY <3>1, <3>2, <3>3
    <2>2. QED  BY <2>1
  <1>. HIDE DEF K
  <1>4. QED
    BY <1>1, <1>2, <1>3, UndoBelowOrderly

-----------------------------------------------------------------------------
(* What the instances hold of the steps they have done, and how it moves     *)
(* between the manifest and the process.                                     *)

\* i has done the steps K afterwards and holds of them what it held.
Keeps(i, K) ==
    /\ Done(i)' = K
    /\ \A k \in K : \A f \in Fields(k) : Held(i)'[f] = Held(i)[f]
    /\ K # {} => LogFileOf(i)' = LogFileOf(i)

AllKeep == \A i \in Instance : Keeps(i, Done(i))

\* The step the process is at has been done as well.
Adds(w) ==
    /\ idx \notin Done(w) /\ Done(w)' = Done(w) \cup {idx}
    /\ Held(w) = snap /\ Held(w)' = snap'
    /\ LogFileOf(w) = logfile /\ LogFileOf(w)' = logfile
    /\ \A i \in Instance \ {w} : Keeps(i, Done(i))

\* Who is not at work holds what its manifest says.
LEMMA IdleKeeps ==
    ASSUME NEW i \in Instance, ~Busy(i), ~Busy(i)', man'[i] = man[i]
    PROVE  Keeps(i, Done(i))
  BY DEF Keeps, Done, Held, LogFileOf

LEMMA RecordsHold ==
    ASSUME NEW s, NEW K \in SUBSET Steps, NEW k \in K, NEW f \in Fields(k)
    PROVE  Records(s, K)[f] = s[f]
  <1>1. f \in DOMAIN Default
    BY FieldsAre
  <1>2. QED  BY <1>1 DEF Records

LEMMA BeginView ==
    ASSUME TypeOK, Orderly, Good', NEW i \in Instance, NEW f, Begin(i, f)
    PROVE  AllKeep
  <1>1. /\ pc = "idle" /\ pc' = "snapshot" /\ who' = i
        /\ snap' = man[i].snap /\ recorded' = man[i].steps /\ UNCHANGED man
    BY DEF Begin, Take
  <1>2. man[i].steps = {}
    BY BeginOrderly
  <1>3. Keeps(i, Done(i))
    BY <1>1, <1>2 DEF Keeps, Done, Busy
  <1>4. \A j \in Instance \ {i} : Keeps(j, Done(j))
    BY <1>1, IdleKeeps DEF Busy
  <1>5. QED  BY <1>3, <1>4 DEF AllKeep

LEMMA BeginRollbackView ==
    ASSUME TypeOK, Orderly, NEW i \in Instance, BeginRollback(i, man[i].args)
    PROVE  AllKeep
  <1>1. /\ pc = "idle" /\ pc' = "undo" /\ who' = i /\ logfile' = man[i].args
        /\ snap' = man[i].snap /\ recorded' = man[i].steps /\ UNCHANGED man
    BY DEF BeginRollback, Take
  <1>2. idx' \in man[i].steps
    BY BeginRollbackOrderly
  <1>3. Keeps(i, Done(i))
    BY <1>1, <1>2 DEF Keeps, Done, Busy, Held, LogFileOf
  <1>4. \A j \in Instance \ {i} : Keeps(j, Done(j))
    BY <1>1, IdleKeeps DEF Busy
  <1>5. QED  BY <1>3, <1>4 DEF AllKeep

\* The last undo, or none: what stays is written to the manifest.
LEMMA UndoBelowView ==
    ASSUME TypeOK, Orderly, NEW w \in Instance, w = who, pc \in {"snapshot", "undo"}, NEW K \in SUBSET recorded, UndoBelow(idx, K)
    PROVE  Keeps(w, K) /\ \A i \in Instance \ {w} : Keeps(i, Done(i))
  <1> DEFINE todo == {j \in K : j < idx}
             m == Manifest(snap, K, FALSE)
  <1>1. who \in Instance /\ man \in [Instance -> Manifests] /\ recorded \in SUBSET Steps
    BY DEF TypeOK, ProcessType, Manifests
  <1>2. /\ Busy(w) /\ Held(w) = snap /\ LogFileOf(w) = logfile
        /\ \A i \in Instance \ {w} : ~Busy(i)
    BY DEF Busy, Held, LogFileOf
  <1>3. CASE todo = {}
    <2>1. pc' = "idle" /\ man' = [man EXCEPT ![who] = m]
      BY <1>3 DEF UndoBelow, Exit
    <2>2. man[who].steps # {} => man[who].args = logfile
      BY DEF Orderly
    <2>3. m.steps = K
      BY DEF Manifest, NoManifest
    <2>4. K # {} => m.snap = Records(snap, K) /\ m.args = logfile
      BY <2>2 DEF Manifest, Kept
    <2>. HIDE DEF m, todo
    <2>5. man'[w] = m /\ \A i \in Instance \ {w} : man'[i] = man[i]
      BY <1>1, <2>1
    <2>6. \A i \in Instance : ~Busy(i)'
      BY <2>1 DEF Busy
    <2>7. Done(w)' = K
      BY <1>1, <2>3, <2>5, <2>6 DEF Done
    <2>8. ASSUME NEW k \in K, NEW f \in Fields(k)  PROVE Held(w)'[f] = Held(w)[f]
      <3>1. Held(w)' = Records(snap, K)
        BY <1>1, <2>4, <2>5, <2>6 DEF Held
      <3>2. QED  BY <1>1, <1>2, <3>1, RecordsHold
    <2>9. K # {} => LogFileOf(w)' = LogFileOf(w)
      BY <1>1, <1>2, <2>4, <2>5, <2>6 DEF LogFileOf
    <2>10. QED
      BY <1>2, <2>5, <2>6, <2>7, <2>8, <2>9, IdleKeeps DEF Keeps
  <1>4. CASE todo # {}
    <2>1. /\ pc' = "undo" /\ idx' = Max(todo) /\ recorded' = K
          /\ UNCHANGED <<who, snap, others, logfile, man, remains>>
      BY <1>4 DEF UndoBelow
    <2>2. Max(todo) \in K
      BY <1>1, <1>4, MaxIs
    <2>. HIDE DEF todo
    <2>3. \A i \in Instance : Busy(i)' = Busy(i)
      BY <2>1 DEF Busy
    <2>4. Keeps(w, K)
      BY <1>2, <2>1, <2>2, <2>3 DEF Keeps, Done, Held, LogFileOf, Busy
    <2>5. QED
      BY <1>2, <2>1, <2>3, <2>4, IdleKeeps
  <1>5. QED  BY <1>3, <1>4

LEMMA StopsView ==
    ASSUME TypeOK, Orderly, NEW w \in Instance, w = who, Stops  PROVE AllKeep
  <1>1. pc = "snapshot" /\ UndoBelow(idx, recorded) /\ recorded \in SUBSET recorded
    BY DEF Stops
  <1>2. Keeps(w, recorded) /\ \A i \in Instance \ {w} : Keeps(i, Done(i))
    BY <1>1, UndoBelowView
  <1>3. Done(w) = recorded
    BY <1>1 DEF Done, Busy
  <1>4. QED  BY <1>2, <1>3 DEF AllKeep

LEMMA LeaveSharedView ==
    ASSUME TypeOK, Orderly, NEW w \in Instance, w = who, LeaveShared  PROVE AllKeep
  <1>1. pc = "undo" /\ UndoBelow(idx, recorded) /\ recorded \in SUBSET recorded
    BY DEF LeaveShared
  <1>2. Keeps(w, recorded) /\ \A i \in Instance \ {w} : Keeps(i, Done(i))
    BY <1>1, UndoBelowView
  <1>3. Done(w) = recorded
    BY <1>1, LeaveSharedOrderly DEF Done, Busy
  <1>4. QED  BY <1>2, <1>3 DEF AllKeep

\* The step that is undone leaves the records, unless it is kept for its other half.
LEMMA UndoneView ==
    ASSUME TypeOK, Orderly, NEW w \in Instance, w = who, pc = "undo", Undone
    PROVE  /\ IF others # {} /\ Scope(idx, who) = "Mixed" THEN Keeps(w, Done(w))
              ELSE Keeps(w, Done(w) \ {idx})
           /\ \A i \in Instance \ {w} : Keeps(i, Done(i))
           /\ idx \in Done(w) /\ Held(w) = snap /\ LogFileOf(w) = logfile
  <1>1. /\ Done(w) = recorded \cup {idx} /\ Held(w) = snap /\ LogFileOf(w) = logfile
    BY DEF Done, Held, LogFileOf, Busy
  <1>2. CASE others # {} /\ Scope(idx, who) = "Mixed"
    <2>1. UndoBelow(idx, recorded) /\ recorded \in SUBSET recorded
      BY <1>2 DEF Undone
    <2>2. Keeps(w, recorded) /\ \A i \in Instance \ {w} : Keeps(i, Done(i))
      BY <2>1, UndoBelowView
    <2>3. Done(w) = recorded
      BY <1>1, <1>2, UndoneOrderly
    <2>4. QED  BY <1>1, <1>2, <2>2, <2>3
  <1>3. CASE ~(others # {} /\ Scope(idx, who) = "Mixed")
    <2>1. UndoBelow(idx, recorded \ {idx}) /\ recorded \ {idx} \in SUBSET recorded
      BY <1>3 DEF Undone
    <2>2. Keeps(w, recorded \ {idx}) /\ \A i \in Instance \ {w} : Keeps(i, Done(i))
      BY <2>1, UndoBelowView
    <2>3. Done(w) \ {idx} = recorded \ {idx}
      BY <1>1
    <2>4. QED  BY <1>1, <1>3, <2>2, <2>3
  <1>4. QED  BY <1>2, <1>3

LEMMA FinishView ==
    ASSUME TypeOK, Orderly, NEW w \in Instance, w = who, Finished  PROVE AllKeep
  <1>1. /\ pc = "snapshot" /\ pc' = "idle" /\ man' = [man EXCEPT ![who].finished = TRUE]
    BY DEF Finished, Exit
  <1>2. who \in Instance /\ man \in [Instance -> Manifests] /\ recorded \in SUBSET Steps
    BY DEF TypeOK, ProcessType, Manifests
  <1>3. /\ man'[w] = [man[who] EXCEPT !.finished = TRUE]
        /\ \A i \in Instance \ {w} : man'[i] = man[i]
    BY <1>1, <1>2
  <1>4. /\ man'[w].steps = man[who].steps /\ man'[w].snap = man[who].snap
        /\ man'[w].args = man[who].args
    BY <1>2, <1>3 DEF Manifests
  <1>5. /\ man[who].steps = recorded /\ man[who].snap = Records(snap, recorded)
        /\ recorded # {} => man[who].args = logfile
    BY <1>1 DEF Orderly
  <1>6. /\ Done(w) = recorded /\ Held(w) = snap /\ LogFileOf(w) = logfile
        /\ Done(w)' = recorded /\ Held(w)' = Records(snap, recorded)
        /\ recorded # {} => LogFileOf(w)' = logfile
    BY <1>1, <1>4, <1>5 DEF Done, Held, LogFileOf, Busy
  <1>7. \A k \in recorded : \A f \in Fields(k) : Records(snap, recorded)[f] = snap[f]
    BY <1>2, RecordsHold
  <1>8. Keeps(w, Done(w))
    BY <1>6, <1>7 DEF Keeps
  <1>9. \A i \in Instance \ {w} : Keeps(i, Done(i))
    BY <1>1, <1>3, IdleKeeps DEF Busy
  <1>10. QED  BY <1>8, <1>9 DEF AllKeep

LEMMA SnapshotView ==
    ASSUME TypeOK, Orderly, NEW w \in Instance, w = who, idx \in Steps, pc = "snapshot", NEW s, Snapshotted(s),
           \A f \in DOMAIN Default \ Fields(idx) : s[f] = snap[f]
    PROVE  AllKeep
  <1>1. /\ snap' = s /\ pc' = "run" /\ UNCHANGED <<man, who, recorded, logfile>>
    BY DEF Snapshotted
  <1>2. recorded \in SUBSET Steps /\ idx \notin recorded
    BY DEF TypeOK, ProcessType, Orderly, Steps
  <1>3. \A k \in recorded : \A f \in Fields(k) : s[f] = snap[f]
    BY <1>2, FieldsAre, FieldsApart
  <1>4. /\ Done(w) = recorded /\ Held(w) = snap /\ LogFileOf(w) = logfile
        /\ Done(w)' = recorded /\ Held(w)' = s /\ LogFileOf(w)' = logfile
    BY <1>1 DEF Done, Held, LogFileOf, Busy
  <1>5. Keeps(w, Done(w))
    BY <1>3, <1>4 DEF Keeps
  <1>6. \A i \in Instance \ {w} : Keeps(i, Done(i))
    BY <1>1, IdleKeeps DEF Busy
  <1>7. QED  BY <1>5, <1>6 DEF AllKeep

LEMMA RanView ==
    ASSUME TypeOK, Orderly, NEW w \in Instance, w = who, pc = "run", Ran \/ Failed
    PROVE  Adds(w)
  <1>1. who \in Instance /\ man \in [Instance -> Manifests] /\ idx \in Steps
    BY DEF TypeOK, ProcessType, Manifests
  <1>2. /\ pc' \in {"snapshot", "undo"} /\ UNCHANGED <<who, logfile>>
        /\ \A i \in Instance \ {w} : man'[i] = man[i]
        /\ IF pc' = "undo" THEN recorded' = recorded /\ idx' = idx ELSE recorded' = recorded \cup {idx}
    BY <1>1 DEF Ran, Failed
  <1>3. idx \notin recorded
    BY <1>1 DEF Orderly, Steps
  <1>4. /\ Done(w) = recorded /\ Held(w) = snap /\ LogFileOf(w) = logfile
        /\ Done(w)' = recorded \cup {idx} /\ Held(w)' = snap' /\ LogFileOf(w)' = logfile
    BY <1>2 DEF Done, Held, LogFileOf, Busy
  <1>5. \A i \in Instance \ {w} : Keeps(i, Done(i))
    BY <1>2, IdleKeeps DEF Busy
  <1>6. QED  BY <1>3, <1>4, <1>5 DEF Adds

-----------------------------------------------------------------------------
(* What is on the machine, who says so, and what has to be given back.       *)

Says(f, i, k) == k \in Done(i) /\ Held(i)[f] = "CreatedByUs"

\* The machine before the first command.
FoundOnce ==
    /\ \A i \in Instance :
          /\ found.dir[i].made # "ours" /\ found.user[i] # "ours" /\ found.cache[i] # "ours"
          /\ found.cache[i] = "theirs" => found.dir[i].made = "theirs"
          /\ found.dir[i].made = "absent" => found.dir[i] = NoDirectory
    /\ \A i \in Named : found.dir[i].made = "theirs" => found.dir[Unnamed].made = "theirs"

\* What is theirs is what was found.
Same ==
    \A i \in Instance :
       /\ dir[i].made = "theirs" <=> found.dir[i].made = "theirs"
       /\ user[i] = "theirs" <=> found.user[i] = "theirs"
       /\ cache[i] = "theirs" <=> found.cache[i] = "theirs"

\* What is ours has somebody who says so, by the step that made it.
HomesLeft ==
    /\ \A i \in Named : dir[i].made = "ours" => Says("home", i, OptRootStep)
    /\ dir[Unnamed].made = "ours" => \E i \in Instance : Says("root", i, OptRootStep)
    /\ \A i \in Instance : OptRootStep \in Done(i) => Held(i).before \in {"none", "750"}

UsersLeft == \A i \in Instance : user[i] = "ours" <=> Says("user", i, UserStep)

LogsLeft ==
    \A d \in LogDirs \ written :
       logs[d] = "ours" => \E i \in Instance : Says("log", i, LogDirStep) /\ LogFileOf(i) = d

CachesLeft == \A i \in Instance : cache[i] = "ours" => Says("cache", i, CacheDirStep)

\* The modes that the shared root may be left with.
Bits == LeftWith(found.dir[Unnamed].mode)

\* A directory of theirs is as it was found or somebody knows what it was.
HomesBack ==
    /\ \A i \in Instance : dir[i].made = "absent" => dir[i] = NoDirectory
    /\ \A i \in Named : dir[i].made = "theirs" =>
          IF user[i] = "ours"
          THEN Held(i).owner = found.dir[i].owner /\ Held(i).mode = found.dir[i].mode
          ELSE dir[i] = found.dir[i]
    /\ dir[Unnamed].made = "theirs" =>
          IF user[Unnamed] = "ours"
          THEN /\ Held(Unnamed).owner = found.dir[Unnamed].owner /\ Held(Unnamed).mode \in Bits
               /\ dir[Unnamed].mode \in Bits \cup {"750", "751"}
          ELSE dir[Unnamed].owner = found.dir[Unnamed].owner /\ dir[Unnamed].mode \in Bits

\* A rollback leaves its own home to nobody.
Homeless == \A i \in Named : i \in remains /\ ~Busy(i) => dir[i].made # "ours"

\* What an installation relies on before the step it is at.
Ready ==
    /\ pc \in {"snapshot", "run"} /\ idx > 1 => There(who)
    /\ pc = "run" /\ idx = OptRootStep =>
          /\ snap.root = "Preexisting" => There(Unnamed)
          /\ snap.home = "Preexisting" => There(who)
          /\ who = Unnamed => snap.home = "Untracked"
          /\ snap.before # "none" =>
                snap.before = "750" /\ dir[Unnamed].mode = "750" /\ who # Unnamed
    /\ pc = "run" /\ idx = UserStep =>
          /\ snap.user \in {"Preexisting", "Untracked"}
          /\ snap.user = "Untracked" =>
                user[who] = "absent" /\ snap.owner = dir[who].owner /\ snap.mode = dir[who].mode
    /\ pc = "run" /\ idx = LogDirStep => snap.log \in {"Preexisting", "Untracked"}
    /\ pc = "run" /\ idx = CacheDirStep => snap.cache \in {"Preexisting", "Untracked"}

Left == HomesLeft /\ UsersLeft /\ LogsLeft /\ CachesLeft /\ HomesBack /\ Homeless /\ Ready

RestInv == TheirsInv /\ FoundOnce /\ Same /\ (Good => Orderly /\ Left)

\* What i holds of each step is what it held.
RootAlike(i) ==
    /\ 1 \in Done(i)' <=> 1 \in Done(i)
    /\ 1 \in Done(i) => /\ Held(i)'.root = Held(i).root /\ Held(i)'.home = Held(i).home
                        /\ Held(i)'.before = Held(i).before

UserAlike(i) ==
    /\ 2 \in Done(i)' <=> 2 \in Done(i)
    /\ 2 \in Done(i) => /\ Held(i)'.user = Held(i).user /\ Held(i)'.owner = Held(i).owner
                        /\ Held(i)'.mode = Held(i).mode

LogAlike(i) ==
    /\ 3 \in Done(i)' <=> 3 \in Done(i)
    /\ 3 \in Done(i) => Held(i)'.log = Held(i).log /\ LogFileOf(i)' = LogFileOf(i)

CacheAlike(i) ==
    /\ 4 \in Done(i)' <=> 4 \in Done(i)
    /\ 4 \in Done(i) => Held(i)'.cache = Held(i).cache

LEMMA KeepsAlike ==
    ASSUME NEW i, Keeps(i, Done(i))
    PROVE  RootAlike(i) /\ UserAlike(i) /\ LogAlike(i) /\ CacheAlike(i)
  BY FieldsAre DEF Keeps, RootAlike, UserAlike, LogAlike, CacheAlike

\* An undone step is forgotten, and the others are not.
LEMMA ForgetsAlike ==
    ASSUME NEW i, NEW k \in Steps, Keeps(i, Done(i) \ {k})
    PROVE  /\ k \notin Done(i)'
           /\ k # 1 => RootAlike(i)
           /\ k # 2 => UserAlike(i)
           /\ k # 3 => LogAlike(i)
           /\ k # 4 => CacheAlike(i)
  <1>1. /\ k \notin Done(i)' /\ Done(i)' = Done(i) \ {k}
        /\ \A l \in Done(i)' : LogFileOf(i)' = LogFileOf(i) /\ \A f \in Fields(l) : Held(i)'[f] = Held(i)[f]
    BY DEF Keeps
  <1>2. k # 1 => RootAlike(i)
    BY <1>1, FieldsAre DEF RootAlike
  <1>3. k # 2 => UserAlike(i)
    BY <1>1, FieldsAre DEF UserAlike
  <1>4. k # 3 => LogAlike(i)
    BY <1>1, FieldsAre DEF LogAlike
  <1>5. k # 4 => CacheAlike(i)
    BY <1>1, FieldsAre DEF CacheAlike
  <1>6. QED  BY <1>1, <1>2, <1>3, <1>4, <1>5

\* A step that ran changes what its own snapshot says, and only that.
LEMMA AddsAlike ==
    ASSUME NEW w \in Instance, Adds(w)
    PROVE  /\ \A i \in Instance \ {w} : RootAlike(i) /\ UserAlike(i) /\ LogAlike(i) /\ CacheAlike(i)
           /\ idx # 1 /\ snap'.root = snap.root /\ snap'.home = snap.home /\ snap'.before = snap.before
                => RootAlike(w)
           /\ idx # 2 /\ snap'.user = snap.user /\ snap'.owner = snap.owner /\ snap'.mode = snap.mode
                => UserAlike(w)
           /\ idx # 3 /\ snap'.log = snap.log => LogAlike(w)
           /\ idx # 4 /\ snap'.cache = snap.cache => CacheAlike(w)
  <1>1. \A i \in Instance \ {w} : RootAlike(i) /\ UserAlike(i) /\ LogAlike(i) /\ CacheAlike(i)
    BY KeepsAlike DEF Adds
  <1>2. /\ Done(w)' = Done(w) \cup {idx} /\ Held(w) = snap /\ Held(w)' = snap'
        /\ LogFileOf(w)' = LogFileOf(w)
    BY DEF Adds
  <1>3. QED
    BY <1>1, <1>2 DEF RootAlike, UserAlike, LogAlike, CacheAlike

\* What nobody says anything new about, and nothing new is made of.
LEMMA HomesLeftStay ==
    ASSUME HomesLeft, \A i \in Instance : RootAlike(i),
           \A i \in Instance : dir'[i].made = "ours" => dir[i].made = "ours"
    PROVE  HomesLeft'
  <1>1. Unnamed \in Instance /\ Named \subseteq Instance
    BY DEF Instance
  <1>2. \A i \in Instance : /\ Says("home", i, OptRootStep) => Says("home", i, OptRootStep)'
                            /\ Says("root", i, OptRootStep) => Says("root", i, OptRootStep)'
    BY DEF Says, RootAlike
  <1>3. \A i \in Instance : OptRootStep \in Done(i)' => Held(i)'.before \in {"none", "750"}
    BY DEF HomesLeft, RootAlike
  <1>4. QED  BY <1>1, <1>2, <1>3 DEF HomesLeft

LEMMA UsersLeftStay ==
    ASSUME UsersLeft, \A i \in Instance : UserAlike(i), UNCHANGED user
    PROVE  UsersLeft'
  <1>1. \A i \in Instance : Says("user", i, UserStep)' <=> Says("user", i, UserStep)
    BY DEF Says, UserAlike
  <1>2. QED  BY <1>1 DEF UsersLeft

LEMMA LogsLeftStay ==
    ASSUME LogsLeft, \A i \in Instance : LogAlike(i), UNCHANGED logs, written \subseteq written'
    PROVE  LogsLeft'
  <1>1. \A i \in Instance : Says("log", i, LogDirStep) =>
           Says("log", i, LogDirStep)' /\ LogFileOf(i)' = LogFileOf(i)
    BY DEF Says, LogAlike
  <1>2. QED  BY <1>1 DEF LogsLeft

LEMMA CachesLeftStay ==
    ASSUME CachesLeft, \A i \in Instance : CacheAlike(i), UNCHANGED cache
    PROVE  CachesLeft'
  <1>1. \A i \in Instance : Says("cache", i, CacheDirStep) => Says("cache", i, CacheDirStep)'
    BY DEF Says, CacheAlike
  <1>2. QED  BY <1>1 DEF CachesLeft

LEMMA HomesBackStay ==
    ASSUME HomesBack, UsersLeft, \A i \in Instance : UserAlike(i), UNCHANGED <<dir, user, found>>
    PROVE  HomesBack'
  <1>1. Unnamed \in Instance /\ Named \subseteq Instance
    BY DEF Instance
  <1>2. \A i \in Instance : user[i] = "ours" =>
           Held(i)'.owner = Held(i).owner /\ Held(i)'.mode = Held(i).mode
    BY DEF UsersLeft, Says, UserAlike
  <1>3. Bits' = Bits
    BY DEF Bits, LeftWith
  <1>4. QED  BY <1>1, <1>2, <1>3 DEF HomesBack

\* Nothing happens to the machine.
LEMMA AllStay ==
    ASSUME HomesLeft, UsersLeft, LogsLeft, CachesLeft, HomesBack, AllKeep,
           UNCHANGED <<dir, user, cache, logs, found>>, written \subseteq written'
    PROVE  (HomesLeft /\ UsersLeft /\ LogsLeft /\ CachesLeft /\ HomesBack)'
  <1>1. \A i \in Instance : RootAlike(i) /\ UserAlike(i) /\ LogAlike(i) /\ CacheAlike(i)
    BY KeepsAlike DEF AllKeep
  <1>2. QED
    BY <1>1, HomesLeftStay, UsersLeftStay, LogsLeftStay, CachesLeftStay, HomesBackStay

-----------------------------------------------------------------------------
(* No step makes anything that is not ours.                                  *)

NoneTheirs ==
    \A i \in Instance : /\ dir'[i].made = "theirs" => dir[i].made = "theirs"
                        /\ user'[i] = "theirs" => user[i] = "theirs"
                        /\ cache'[i] = "theirs" => cache[i] = "theirs"

LEMMA RootMadeIs ==
    ASSUME TypeOK
    PROVE  /\ RootMade \in Directory
           /\ snap.root # "Preexisting" => RootMade.made = "ours"
           /\ snap.root = "Preexisting" => /\ RootMade.made = dir[Unnamed].made
                                           /\ RootMade.owner = dir[Unnamed].owner
                                           /\ snap.before = "none" => RootMade = dir[Unnamed]
                                           /\ snap.before # "none" => RootMade.mode = Widened(snap.before)
  <1>1. dir[Unnamed] \in Directory
    BY DEF TypeOK, WorldType, Instance
  <1>2. RootMade \in Directory
    BY RootMadeType
  <1>3. CASE snap.root # "Preexisting"
    BY <1>2, <1>3 DEF RootMade, HandedOver, Level
  <1>4. CASE snap.root = "Preexisting"
    BY <1>1, <1>2, <1>4 DEF RootMade, Directory
  <1>5. QED  BY <1>2, <1>3, <1>4

\* The ways prepare-opt-root and create-odoo-user may stop half-way.
LEMMA HalfCases ==
    ASSUME NEW h \in Halves
    PROVE  \/ h = [dir |-> dir, user |-> user, snap |-> snap, bare |-> snap]
           \/ /\ idx = OptRootStep
              /\ \E root, claimed :
                    /\ root = [dir EXCEPT ![Unnamed] = IF snap.root = "Preexisting" THEN RootMade ELSE Level]
                    /\ claimed = [snap EXCEPT !.root = Made(@)]
                    /\ \/ h = [dir |-> root, user |-> user, snap |-> claimed, bare |-> snap]
                       \/ /\ HomeToMake
                          /\ h = [dir |-> [root EXCEPT ![who] = Level], user |-> user,
                                  snap |-> [claimed EXCEPT !.home = "CreatedByUs"], bare |-> claimed]
           \/ /\ idx = UserStep /\ snap.user = "Untracked" /\ There(who)
              /\ h = [dir |-> dir, user |-> [user EXCEPT ![who] = "ours"],
                      snap |-> [snap EXCEPT !.user = "CreatedByUs"],
                      bare |-> [snap EXCEPT !.user = "CreatedByUs"]]
  BY DEF Halves

LEMMA HalvesNotTheirs ==
    ASSUME TypeOK, NEW h \in Halves
    PROVE  \A i \in Instance : /\ h.dir[i].made = "theirs" => dir[i].made = "theirs"
                               /\ h.user[i] = "theirs" => user[i] = "theirs"
  <1>1. /\ dir \in [Instance -> Directory] /\ user \in [Instance -> Whose] /\ who \in Instance
        /\ Unnamed \in Instance
    BY DEF TypeOK, WorldType, ProcessType, Instance
  <1>2. CASE h = [dir |-> dir, user |-> user, snap |-> snap, bare |-> snap]
    BY <1>2
  <1>3. ASSUME NEW root, NEW claimed,
               root = [dir EXCEPT ![Unnamed] = IF snap.root = "Preexisting" THEN RootMade ELSE Level],
               \/ h = [dir |-> root, user |-> user, snap |-> claimed, bare |-> snap]
               \/ /\ HomeToMake
                  /\ h = [dir |-> [root EXCEPT ![who] = Level], user |-> user,
                          snap |-> [claimed EXCEPT !.home = "CreatedByUs"], bare |-> claimed]
        PROVE  \A i \in Instance : /\ h.dir[i].made = "theirs" => dir[i].made = "theirs"
                                   /\ h.user[i] = "theirs" => user[i] = "theirs"
    <2>1. \A i \in Instance : root[i].made = "theirs" => dir[i].made = "theirs"
      BY <1>1, <1>3, RootMadeIs DEF Level
    <2>2. root \in [Instance -> Directory]
      BY <1>1, <1>3, RootMadeIs, LevelType
    <2>3. CASE h = [dir |-> root, user |-> user, snap |-> claimed, bare |-> snap]
      BY <2>1, <2>3
    <2>4. CASE h = [dir |-> [root EXCEPT ![who] = Level], user |-> user,
                    snap |-> [claimed EXCEPT !.home = "CreatedByUs"], bare |-> claimed]
      BY <1>1, <2>1, <2>2, <2>4 DEF Level
    <2>5. QED  BY <1>3, <2>3, <2>4
  <1>4. CASE h = [dir |-> dir, user |-> [user EXCEPT ![who] = "ours"],
                  snap |-> [snap EXCEPT !.user = "CreatedByUs"],
                  bare |-> [snap EXCEPT !.user = "CreatedByUs"]]
    BY <1>1, <1>4
  <1>5. QED  BY <1>2, <1>3, <1>4, HalfCases

LEMMA LevelRemovedNotTheirs ==
    ASSUME NEW d \in Directories, NEW i, NEW prestate, NEW j \in Instance
    PROVE  LevelRemoved(i, prestate, d)[j].made = "theirs" => d[j].made = "theirs"
  BY DEF LevelRemoved, NoDirectory, Directories

LEMMA RunsNotTheirs ==
    ASSUME TypeOK, RunOptRoot \/ RunUser \/ RunLogDir \/ RunCacheDir  PROVE NoneTheirs
  <1>1. /\ dir \in [Instance -> Directory] /\ user \in [Instance -> Whose] /\ cache \in [Instance -> Whose]
        /\ who \in Instance /\ Unnamed \in Instance
    BY DEF TypeOK, WorldType, ProcessType, Instance
  <1>2. CASE RunOptRoot
    <2>1. HandedOver(Level, who).made = "ours"
      BY DEF HandedOver, Level
    <2>2. \A i \in Instance : dir'[i].made = "theirs" => dir[i].made = "theirs"
      BY <1>1, <1>2, <2>1, RootMadeIs DEF RunOptRoot
    <2>3. QED  BY <1>2, <2>2 DEF RunOptRoot, NoneTheirs
  <1>3. CASE RunUser
    BY <1>1, <1>3 DEF RunUser, NoneTheirs
  <1>4. CASE RunLogDir
    BY <1>4 DEF RunLogDir, NoneTheirs
  <1>5. CASE RunCacheDir
    BY <1>1, <1>5 DEF RunCacheDir, NoneTheirs
  <1>6. QED  BY <1>2, <1>3, <1>4, <1>5

LEMMA UndosNotTheirs ==
    ASSUME TypeOK, UndoOptRoot \/ UndoUser \/ UndoLogDir \/ UndoCacheDir  PROVE NoneTheirs
  <1>1. /\ dir \in [Instance -> Directory] /\ user \in [Instance -> Whose] /\ cache \in [Instance -> Whose]
        /\ who \in Instance /\ Unnamed \in Instance
    BY DEF TypeOK, WorldType, ProcessType, Instance
  <1>2. CASE UndoOptRoot
    <2>1. PICK done \in SUBSET {"home", "mode", "root"} :
            LET home == IF who # Unnamed /\ "home" \in done THEN LevelRemoved(who, snap.home, dir) ELSE dir
                mode == IF "mode" \in done THEN ModeRestored(home) ELSE home
            IN  dir' = IF others = {} /\ "root" \in done THEN LevelRemoved(Unnamed, snap.root, mode) ELSE mode
      BY <1>2 DEF UndoOptRoot
    <2>2. PICK home \in Directories :
            home = IF who # Unnamed /\ "home" \in done THEN LevelRemoved(who, snap.home, dir) ELSE dir
      BY <1>1, LevelRemovedType DEF Directories
    <2>3. PICK mode \in Directories : mode = IF "mode" \in done THEN ModeRestored(home) ELSE home
      BY <2>2, ModeRestoredType
    <2>4. dir' = IF others = {} /\ "root" \in done THEN LevelRemoved(Unnamed, snap.root, mode) ELSE mode
      BY <2>1, <2>2, <2>3
    <2>5. ASSUME NEW i \in Instance  PROVE dir'[i].made = "theirs" => dir[i].made = "theirs"
      <3>1. home[i].made = "theirs" => dir[i].made = "theirs"
        BY <1>1, <2>2, LevelRemovedNotTheirs DEF Directories
      <3>2. mode[i].made = home[i].made
        BY <2>2, <2>3, ModeRestoredKeeps DEF Directories
      <3>3. dir'[i].made = "theirs" => mode[i].made = "theirs"
        BY <2>3, <2>4, LevelRemovedNotTheirs
      <3>4. QED  BY <3>1, <3>2, <3>3
    <2>6. QED  BY <1>2, <2>5 DEF UndoOptRoot, NoneTheirs
  <1>3. CASE UndoUser
    <2>1. \A j \in Instance : HomeGivenBack[j].made = dir[j].made
      BY <1>1 DEF HomeGivenBack, Directory
    <2>2. \A j \in Instance : dir'[j].made = dir[j].made
      BY <1>3, <2>1 DEF UndoUser
    <2>3. \A j \in Instance : user'[j] = "theirs" => user[j] = "theirs"
      BY <1>1, <1>3 DEF UndoUser
    <2>4. QED  BY <1>3, <2>2, <2>3 DEF UndoUser, NoneTheirs
  <1>4. CASE UndoLogDir
    BY <1>4 DEF UndoLogDir, NoneTheirs
  <1>5. CASE UndoCacheDir
    BY <1>1, <1>5 DEF UndoCacheDir, NoneTheirs
  <1>6. QED  BY <1>2, <1>3, <1>4, <1>5

LEMMA NextNotTheirs ==
    ASSUME TypeOK, Next  PROVE NoneTheirs
  <1>1. CASE UNCHANGED <<dir, user, cache>>
    BY <1>1 DEF NoneTheirs
  <1>2. CASE RunHalfway \/ (Die /\ pc = "run")
    <2>1. PICK h \in Halves : dir' = h.dir /\ user' = h.user
      BY <1>2 DEF RunHalfway, Die
    <2>2. UNCHANGED cache
      BY <1>2 DEF RunHalfway, Die
    <2>3. QED  BY <2>1, <2>2, HalvesNotTheirs DEF NoneTheirs
  <1>3. CASE RunOptRoot \/ RunUser \/ RunLogDir \/ RunCacheDir
    BY <1>3, RunsNotTheirs
  <1>4. CASE UndoOptRoot \/ UndoUser \/ UndoLogDir \/ UndoCacheDir
    BY <1>4, UndosNotTheirs
  <1>5. CASE \/ \E i \in Instance : Install(i) \/ Rollback(i)
             \/ Stops \/ Skip \/ Finish \/ LeaveShared
             \/ SnapshotOptRoot \/ SnapshotUser \/ SnapshotLogDir \/ SnapshotCacheDir
             \/ RunFails \/ (Die /\ pc # "run")
    <2>1. UNCHANGED <<dir, user, cache>>
      BY <1>5 DEF Install, Rollback, Begin, BeginRollback, Stops, Skip, Finish, LeaveShared, world,
         SnapshotOptRoot, SnapshotUser, SnapshotLogDir, SnapshotCacheDir, Snapshotted, RunFails, Die
    <2>2. QED  BY <1>1, <2>1
  <1>6. QED
    BY <1>2, <1>3, <1>4, <1>5 DEF Next

\* What is theirs stays what was found.
LEMMA SameStays ==
    ASSUME TheirsInv, TheirsInv', Same, Next, UNCHANGED found
    PROVE  Same'
  <1>1. NoneTheirs
    BY NextNotTheirs DEF TheirsInv
  <1>2. TheirsStay'
    BY DEF TheirsInv
  <1>3. QED  BY <1>1, <1>2 DEF Same, NoneTheirs, TheirsStay

-----------------------------------------------------------------------------
(* The actions that leave the machine alone.                                 *)

LEMMA HomelessStays ==
    ASSUME TypeOK, Homeless, NEW K \in SUBSET recorded, UndoBelow(idx, K), pc # "idle",
           \A i \in Named : dir'[i].made = "ours" => dir[i].made = "ours",
           who \in Named /\ {j \in K : j < idx} = {} /\ K # {} => dir'[who].made # "ours"
    PROVE  Homeless' /\ Ready'
  <1> DEFINE todo == {j \in K : j < idx}
  <1>1. \A i \in Instance \ {who} : ~Busy(i)
    BY DEF Busy
  <1>2. CASE todo = {}
    <2>1. /\ pc' = "idle"
          /\ remains' = IF K = {} THEN remains \ {who} ELSE remains \cup {who}
      BY <1>2 DEF UndoBelow, Exit
    <2>2. Ready'
      BY <2>1 DEF Ready
    <2>. HIDE DEF todo
    <2>3. ASSUME NEW i \in Named, i \in remains'  PROVE dir'[i].made # "ours"
      <3>1. CASE i # who
        BY <1>1, <2>1, <2>3, <3>1 DEF Homeless, Instance
      <3>2. CASE i = who
        BY <1>2, <2>1, <2>3, <3>2 DEF todo
      <3>3. QED  BY <3>1, <3>2
    <2>4. QED  BY <2>2, <2>3 DEF Homeless
  <1>3. CASE todo # {}
    <2>1. pc' = "undo" /\ UNCHANGED <<who, remains>>
      BY <1>3 DEF UndoBelow
    <2>2. \A i \in Instance : Busy(i)' = Busy(i)
      BY <2>1 DEF Busy
    <2>3. Ready'
      BY <2>1 DEF Ready
    <2>4. QED  BY <2>1, <2>2, <2>3 DEF Homeless, Instance
  <1>4. QED  BY <1>2, <1>3

LEMMA BeginsLeft ==
    ASSUME TypeOK, Orderly, Left, Good', NEW i \in Instance, Install(i) \/ Rollback(i), UNCHANGED found
    PROVE  Orderly' /\ Left'
  <1>1. UNCHANGED <<dir, user, cache, logs, written, remains, man>> /\ pc = "idle"
    BY DEF Install, Rollback, Begin, BeginRollback, world
  <1>2. CASE Install(i)
    <2>1. PICK f \in LogsOf[i] : Begin(i, f)
      BY <1>2 DEF Install
    <2>2. Orderly' /\ AllKeep
      BY <2>1, BeginOrderly, BeginView
    <2>3. pc' = "snapshot" /\ idx' = 1
      BY <2>1 DEF Begin
    <2>4. Ready'
      BY <2>3 DEF Ready
    <2>5. Homeless'
      BY <1>1 DEF Left, Homeless, Busy
    <2>6. written \subseteq written'
      BY <1>1
    <2>7. QED  BY <1>1, <2>2, <2>4, <2>5, <2>6, AllStay DEF Left
  <1>3. CASE Rollback(i)
    <2>1. BeginRollback(i, man[i].args)
      BY <1>3 DEF Rollback
    <2>2. Orderly' /\ AllKeep
      BY <2>1, BeginRollbackOrderly, BeginRollbackView
    <2>3. pc' = "undo"
      BY <2>1 DEF BeginRollback
    <2>4. Ready'
      BY <2>3 DEF Ready
    <2>5. Homeless'
      BY <1>1 DEF Left, Homeless, Busy
    <2>6. written \subseteq written'
      BY <1>1
    <2>7. QED  BY <1>1, <2>2, <2>4, <2>5, <2>6, AllStay DEF Left
  <1>4. QED  BY <1>2, <1>3

LEMMA StopsLeft ==
    ASSUME TypeOK, Orderly, Left, Stops \/ LeaveShared, UNCHANGED found
    PROVE  Orderly' /\ Left'
  <1>1. /\ UNCHANGED <<dir, user, cache, logs, written>> /\ pc \in {"snapshot", "undo"}
        /\ UndoBelow(idx, recorded) /\ recorded \in SUBSET recorded
        /\ recorded \in SUBSET Steps /\ idx \in Nat
    BY DEF Stops, LeaveShared, world, TypeOK, ProcessType
  <1>2. PICK w \in Instance : w = who
    BY DEF TypeOK, ProcessType
  <1>3. Orderly' /\ AllKeep
    BY <1>2, StopsOrderly, LeaveSharedOrderly, StopsView, LeaveSharedView
  <1>4. ~(who \in Named /\ {j \in recorded : j < idx} = {} /\ recorded # {})
    <2>1. CASE Stops
      <3>1. recorded = {k \in Steps : k < idx}
        BY <2>1 DEF Stops, Orderly
      <3>2. QED  BY <3>1
    <2>2. CASE LeaveShared
      BY <2>2, InstanceAssumption DEF LeaveShared, HeldBack, Scope
    <2>3. QED  BY <2>1, <2>2
  <1>5. Homeless' /\ Ready'
    BY <1>1, <1>4, HomelessStays DEF Left
  <1>6. written \subseteq written'
    BY <1>1
  <1>7. QED  BY <1>1, <1>3, <1>5, <1>6, AllStay DEF Left

LEMMA FinishLeft ==
    ASSUME TypeOK, Orderly, Left, Finish
    PROVE  Orderly' /\ Left'
  <1>1. /\ UNCHANGED <<dir, user, cache, logs, found, remains>> /\ written \subseteq written'
        /\ pc = "snapshot" /\ pc' = "idle" /\ Finished
    BY DEF Finish, Finished, Exit
  <1>2. PICK w \in Instance : w = who
    BY DEF TypeOK, ProcessType
  <1>3. Orderly' /\ AllKeep
    BY <1>1, <1>2, FinishOrderly, FinishView
  <1>4. who \notin remains
    BY <1>1 DEF Orderly
  <1>5. Homeless' /\ Ready'
    BY <1>1, <1>4 DEF Left, Homeless, Ready, Busy
  <1>6. QED  BY <1>1, <1>3, <1>5, AllStay DEF Left

\* A snapshot finds what it finds.
LEMMA SnapshotsLeft ==
    ASSUME TypeOK, Orderly, Left, UNCHANGED found,
           SnapshotOptRoot \/ SnapshotUser \/ SnapshotLogDir \/ SnapshotCacheDir
    PROVE  Orderly' /\ Left'
  <1>1. PICK s : Snapshotted(s) /\ \A f \in DOMAIN Default \ Fields(idx) : s[f] = snap[f]
    <2>1. DOMAIN Default = {"root", "home", "before", "user", "owner", "mode", "log", "cache"}
      BY DEF Default
    <2>2. snap \in Snapshots
      BY DEF TypeOK, ProcessType
    <2>3. CASE SnapshotOptRoot
      <3>1. PICK s : /\ Snapshotted(s)
                     /\ s = [snap EXCEPT !.root = Verdict(There(Unnamed)),
                                         !.home = Verdict(who # Unnamed /\ There(who)),
                                         !.before = ToWiden]
        BY <2>3 DEF SnapshotOptRoot
      <3>2. \A f \in {"user", "owner", "mode", "log", "cache"} : s[f] = snap[f]
        BY <2>2, <3>1 DEF Snapshots
      <3>3. idx = 1
        BY <2>3 DEF SnapshotOptRoot, At
      <3>4. \A f \in DOMAIN Default \ Fields(idx) : s[f] = snap[f]
        BY <2>1, <3>2, <3>3, FieldsAre
      <3>5. QED  BY <3>1, <3>4
    <2>4. CASE SnapshotUser
      <3>1. PICK s : /\ Snapshotted(s)
                     /\ s = [snap EXCEPT !.user = Verdict(user[who] # "absent"),
                                         !.owner = IF There(who) THEN dir[who].owner ELSE "none",
                                         !.mode = IF There(who) THEN dir[who].mode ELSE "none"]
        BY <2>4 DEF SnapshotUser
      <3>2. \A f \in {"root", "home", "before", "log", "cache"} : s[f] = snap[f]
        BY <2>2, <3>1 DEF Snapshots
      <3>3. idx = 2
        BY <2>4 DEF SnapshotUser, At
      <3>4. \A f \in DOMAIN Default \ Fields(idx) : s[f] = snap[f]
        BY <2>1, <3>2, <3>3, FieldsAre
      <3>5. QED  BY <3>1, <3>4
    <2>5. CASE SnapshotLogDir
      BY <2>1, <2>2, <2>5, FieldsAre DEF SnapshotLogDir, At, Snapshots
    <2>6. CASE SnapshotCacheDir
      BY <2>1, <2>2, <2>6, FieldsAre DEF SnapshotCacheDir, At, Snapshots
    <2>7. QED  BY <2>3, <2>4, <2>5, <2>6
  <1>2. /\ pc = "snapshot" /\ idx \in Steps /\ pc' = "run"
        /\ UNCHANGED <<dir, user, cache, logs, written, remains, who, idx>>
    BY DEF SnapshotOptRoot, SnapshotUser, SnapshotLogDir, SnapshotCacheDir, At, Snapshotted, world, Steps
  <1>3. PICK w \in Instance : w = who
    BY DEF TypeOK, ProcessType
  <1>4. Orderly' /\ AllKeep
    BY <1>1, <1>2, <1>3, SnapshotOrderly, SnapshotView
  <1>5. Homeless'
    BY <1>2 DEF Left, Homeless, Busy
  <1>6. snap' = s /\ snap \in Snapshots /\ who \in Instance
    BY <1>1 DEF Snapshotted, TypeOK, ProcessType
  <1>7. idx > 1 => There(who)
    BY <1>2 DEF Left, Ready
  <1>8. Ready'
    <2>1. CASE SnapshotOptRoot
      <3>1. /\ idx = 1 /\ snap'.root = Verdict(There(Unnamed))
            /\ snap'.home = Verdict(who # Unnamed /\ There(who)) /\ snap'.before = ToWiden
        BY <1>6, <2>1 DEF SnapshotOptRoot, At, Snapshotted, Snapshots
      <3>2. ToWiden # "none" => ToWiden = "750" /\ dir[Unnamed].mode = "750" /\ who # Unnamed
        BY DEF ToWiden, Open
      <3>3. QED  BY <1>2, <3>1, <3>2 DEF Ready, Verdict, There
    <2>2. CASE SnapshotUser
      <3>1. /\ idx = 2 /\ snap'.user = Verdict(user[who] # "absent")
            /\ snap'.owner = IF There(who) THEN dir[who].owner ELSE "none"
            /\ snap'.mode = IF There(who) THEN dir[who].mode ELSE "none"
        BY <1>6, <2>2 DEF SnapshotUser, At, Snapshotted, Snapshots
      <3>2. There(who)
        BY <1>7, <3>1
      <3>3. QED  BY <1>2, <3>1, <3>2 DEF Ready, Verdict, There
    <2>3. CASE SnapshotLogDir
      <3>1. idx = 3 /\ snap'.log \in {"Preexisting", "Untracked"}
        BY <1>6, <2>3 DEF SnapshotLogDir, At, Snapshotted, Snapshots, Verdict
      <3>2. There(who)'
        BY <1>2, <1>7, <3>1 DEF There
      <3>3. QED  BY <1>2, <3>1, <3>2 DEF Ready
    <2>4. CASE SnapshotCacheDir
      <3>1. idx = 4 /\ snap'.cache \in {"Preexisting", "Untracked"}
        BY <1>6, <2>4 DEF SnapshotCacheDir, At, Snapshotted, Snapshots, Verdict
      <3>2. There(who)'
        BY <1>2, <1>7, <3>1 DEF There
      <3>3. QED  BY <1>2, <3>1, <3>2 DEF Ready
    <2>5. QED  BY <2>1, <2>2, <2>3, <2>4
  <1>9. written \subseteq written'
    BY <1>2
  <1>10. QED  BY <1>2, <1>4, <1>5, <1>8, <1>9, AllStay DEF Left

-----------------------------------------------------------------------------
(* The runs, whole or half-way.                                              *)

LEMMA RanRest ==
    ASSUME TypeOK, Left, pc = "run", Ran \/ Failed,
           \A i \in Named \ {who} : dir'[i].made = "ours" => dir[i].made = "ours",
           Ran => There(who)'
    PROVE  Homeless' /\ Ready'
  <1>1. pc' \in {"snapshot", "undo"} /\ UNCHANGED <<who, remains>>
    BY DEF Ran, Failed
  <1>2. \A i \in Instance : Busy(i)' = Busy(i)
    BY <1>1 DEF Busy
  <1>3. \A i \in Named : i \in remains' /\ ~Busy(i)' => i # who
    BY <1>1 DEF Busy
  <1>4. Homeless'
    BY <1>1, <1>2, <1>3 DEF Left, Homeless, Instance
  <1>5. pc' = "snapshot" => There(who)'
    BY DEF Ran, Failed
  <1>6. QED  BY <1>1, <1>4, <1>5 DEF Ready

\* 0751 is not told from what 0750 is widened to.
LEMMA BitsAre == "750" \in Bits <=> "751" \in Bits
  BY DEF Bits, LeftWith

LEMMA RootRuns ==
    ASSUME TypeOK, FoundOnce, Orderly, Left, pc = "run", idx = OptRootStep, NEW w \in Instance, w = who, Adds(w),
           UNCHANGED <<user, cache, logs, written, found>>,
           \A i \in Instance \ {w, Unnamed} : dir'[i] = dir[i],
           w # Unnamed => \/ dir'[w] = dir[w]
                          \/ dir'[w].made = "ours" /\ snap'.home = "CreatedByUs",
           \/ dir'[Unnamed] = dir[Unnamed]
           \/ snap.root = "Preexisting" /\ dir'[Unnamed] = RootMade
           \/ dir'[Unnamed].made = "ours" /\ snap'.root = "CreatedByUs",
           snap'.before = snap.before, snap'.user = snap.user, snap'.owner = snap.owner,
           snap'.mode = snap.mode, snap'.log = snap.log, snap'.cache = snap.cache
    PROVE  (HomesLeft /\ UsersLeft /\ LogsLeft /\ CachesLeft /\ HomesBack)'
  <1>1. /\ \A i \in Instance : UserAlike(i) /\ LogAlike(i) /\ CacheAlike(i)
        /\ \A i \in Instance \ {w} : RootAlike(i)
    BY AddsAlike
  <1>2. UsersLeft' /\ LogsLeft' /\ CachesLeft'
    BY <1>1, UsersLeftStay, LogsLeftStay, CachesLeftStay DEF Left
  <1>3. /\ 1 \notin Done(w) /\ 1 \in Done(w)' /\ Held(w)' = snap'
        /\ Unnamed \in Instance /\ Named \subseteq Instance /\ Unnamed \notin Named
    BY InstanceAssumption DEF Adds, Instance
  <1>4. HomesLeft'
    <2>1. ASSUME NEW i \in Named, dir'[i].made = "ours"  PROVE Says("home", i, OptRootStep)'
      <3>1. dir[i].made = "ours" => Says("home", i, OptRootStep)
        BY DEF Left, HomesLeft
      <3>2. CASE i # w
        BY <1>1, <1>3, <2>1, <3>1, <3>2 DEF Says, RootAlike
      <3>3. CASE i = w
        BY <1>3, <2>1, <3>1, <3>3 DEF Says
      <3>4. QED  BY <3>2, <3>3
    <2>2. ASSUME dir'[Unnamed].made = "ours"  PROVE \E i \in Instance : Says("root", i, OptRootStep)'
      <3>1. CASE snap'.root = "CreatedByUs"
        BY <1>3, <3>1 DEF Says
      <3>2. CASE dir[Unnamed].made = "ours"
        <4>1. PICK i \in Instance : Says("root", i, OptRootStep)
          BY <3>2 DEF Left, HomesLeft
        <4>2. i # w
          BY <1>3, <4>1 DEF Says
        <4>3. Says("root", i, OptRootStep)'
          BY <1>1, <4>1, <4>2 DEF Says, RootAlike
        <4>4. QED  BY <4>3
      <3>3. QED  BY <2>2, <3>1, <3>2, RootMadeIs
    <2>3. ASSUME NEW i \in Instance, OptRootStep \in Done(i)'
          PROVE  Held(i)'.before \in {"none", "750"}
      <3>1. CASE i # w
        BY <1>1, <2>3, <3>1 DEF Left, HomesLeft, RootAlike
      <3>2. CASE i = w
        BY <1>3, <3>2 DEF Left, Ready
      <3>3. QED  BY <3>1, <3>2
    <2>4. QED  BY <2>1, <2>2, <2>3 DEF HomesLeft
  <1>5. HomesBack'
    <2>1. \A i \in Instance : user[i] = "ours" =>
             Held(i)'.owner = Held(i).owner /\ Held(i)'.mode = Held(i).mode
      BY <1>1 DEF Left, UsersLeft, Says, UserAlike
    <2>2. Bits' = Bits
      BY DEF Bits, LeftWith
    <2>3. \/ dir'[Unnamed] = dir[Unnamed]
          \/ dir'[Unnamed].made = "ours"
          \/ /\ dir'[Unnamed].made # "absent" /\ dir'[Unnamed].made = dir[Unnamed].made
             /\ dir'[Unnamed].owner = dir[Unnamed].owner
             /\ dir'[Unnamed].mode = "751" /\ dir[Unnamed].mode = "750"
      <3>1. CASE snap.root = "Preexisting" /\ dir'[Unnamed] = RootMade
        <4>1. snap.before = "none" \/ (snap.before = "750" /\ dir[Unnamed].mode = "750")
          BY DEF Left, Ready
        <4>2. There(Unnamed)
          BY <3>1 DEF Left, Ready
        <4>3. Widened("750") = "751"
          BY DEF Widened
        <4>4. QED  BY <3>1, <4>1, <4>2, <4>3, RootMadeIs DEF There
      <3>2. QED  BY <3>1
    <2>4. \A i \in Instance : dir'[i].made = "absent" => dir'[i] = NoDirectory
      BY <1>3, <2>3 DEF Left, HomesBack
    <2>5. ASSUME NEW i \in Named, dir'[i].made = "theirs"
          PROVE  IF user'[i] = "ours"
                 THEN Held(i)'.owner = found'.dir[i].owner /\ Held(i)'.mode = found'.dir[i].mode
                 ELSE dir'[i] = found'.dir[i]
      <3>1. dir'[i] = dir[i]
        BY <1>3, <2>5
      <3>2. QED  BY <1>3, <2>1, <2>5, <3>1 DEF Left, HomesBack
    <2>6. ASSUME dir'[Unnamed].made = "theirs"
          PROVE  IF user'[Unnamed] = "ours"
                 THEN /\ Held(Unnamed)'.owner = found'.dir[Unnamed].owner /\ Held(Unnamed)'.mode \in Bits'
                      /\ dir'[Unnamed].mode \in Bits' \cup {"750", "751"}
                 ELSE dir'[Unnamed].owner = found'.dir[Unnamed].owner /\ dir'[Unnamed].mode \in Bits'
      <3>1. dir[Unnamed].made = "theirs"
        BY <2>3, <2>6
      <3>2. "750" \in Bits => "751" \in Bits
        BY BitsAre
      <3>3. QED  BY <1>3, <2>1, <2>2, <2>3, <2>6, <3>1, <3>2 DEF Left, HomesBack
    <2>7. QED  BY <2>4, <2>5, <2>6 DEF HomesBack
  <1>6. QED  BY <1>2, <1>4, <1>5

\* A user that is made gets its home, if it is there, and what it was is known.
LEMMA UserRuns ==
    ASSUME TypeOK, FoundOnce, Same, Orderly, Left, pc = "run", idx = UserStep,
           NEW w \in Instance, w = who, Adds(w),
           UNCHANGED <<cache, logs, written, found>>,
           \A i \in Instance \ {w} : dir'[i] = dir[i] /\ user'[i] = user[i],
           \/ dir'[w] = dir[w] /\ user'[w] = user[w] /\ snap'.user = snap.user
           \/ /\ snap.user = "Untracked" /\ user'[w] = "ours" /\ snap'.user = "CreatedByUs"
              /\ dir'[w].made = dir[w].made /\ dir'[w].mode \in {dir[w].mode, "750"},
           snap'.owner = snap.owner, snap'.mode = snap.mode,
           snap'.root = snap.root, snap'.home = snap.home, snap'.before = snap.before,
           snap'.log = snap.log, snap'.cache = snap.cache
    PROVE  (HomesLeft /\ UsersLeft /\ LogsLeft /\ CachesLeft /\ HomesBack)'
  <1>1. /\ \A i \in Instance : RootAlike(i) /\ LogAlike(i) /\ CacheAlike(i)
        /\ \A i \in Instance \ {w} : UserAlike(i)
    BY AddsAlike
  <1>2. \A i \in Instance : dir'[i].made = dir[i].made
    OBVIOUS
  <1>3. HomesLeft' /\ LogsLeft' /\ CachesLeft'
    BY <1>1, <1>2, HomesLeftStay, LogsLeftStay, CachesLeftStay DEF Left
  <1>4. /\ 2 \notin Done(w) /\ 2 \in Done(w)' /\ Held(w)' = snap'
        /\ Unnamed \in Instance /\ Named \subseteq Instance /\ Unnamed \notin Named
    BY InstanceAssumption DEF Adds, Instance
  <1>5. /\ There(w) /\ snap.user \in {"Preexisting", "Untracked"} /\ user[w] # "ours"
        /\ snap.user = "Untracked" =>
              user[w] = "absent" /\ snap.owner = dir[w].owner /\ snap.mode = dir[w].mode
    BY <1>4 DEF Left, Ready, UsersLeft, Says
  <1>6. UsersLeft'
    <2>1. ASSUME NEW i \in Instance  PROVE user'[i] = "ours" <=> Says("user", i, UserStep)'
      <3>1. CASE i # w
        BY <1>1, <3>1 DEF Left, UsersLeft, Says, UserAlike
      <3>2. CASE i = w
        BY <1>4, <1>5, <3>2 DEF Says
      <3>3. QED  BY <3>1, <3>2
    <2>2. QED  BY <2>1 DEF UsersLeft
  <1>7. HomesBack'
    <2>1. \A i \in Instance \ {w} : user[i] = "ours" =>
             Held(i)'.owner = Held(i).owner /\ Held(i)'.mode = Held(i).mode
      BY <1>1 DEF Left, UsersLeft, Says, UserAlike
    <2>2. Bits' = Bits
      BY DEF Bits, LeftWith
    <2>3. \A i \in Instance : dir'[i].made = "absent" => dir'[i] = NoDirectory
      <3>1. dir'[w].made # "absent"
        BY <1>2, <1>5 DEF There
      <3>2. QED  BY <3>1 DEF Left, HomesBack
    <2>4. ASSUME NEW i \in Named, dir'[i].made = "theirs"
          PROVE  IF user'[i] = "ours"
                 THEN Held(i)'.owner = found'.dir[i].owner /\ Held(i)'.mode = found'.dir[i].mode
                 ELSE dir'[i] = found'.dir[i]
      <3>1. dir[i].made = "theirs"
        BY <1>2, <1>4, <2>4
      <3>2. CASE i # w
        BY <1>4, <2>1, <3>1, <3>2 DEF Left, HomesBack
      <3>3. CASE i = w
        <4>1. dir[w] = found.dir[w]
          BY <1>5, <3>1, <3>3 DEF Left, HomesBack
        <4>2. QED  BY <1>4, <1>5, <3>3, <4>1
      <3>4. QED  BY <3>2, <3>3
    <2>5. ASSUME dir'[Unnamed].made = "theirs"
          PROVE  IF user'[Unnamed] = "ours"
                 THEN /\ Held(Unnamed)'.owner = found'.dir[Unnamed].owner /\ Held(Unnamed)'.mode \in Bits'
                      /\ dir'[Unnamed].mode \in Bits' \cup {"750", "751"}
                 ELSE dir'[Unnamed].owner = found'.dir[Unnamed].owner /\ dir'[Unnamed].mode \in Bits'
      <3>1. dir[Unnamed].made = "theirs"
        BY <1>2, <1>4, <2>5
      <3>2. CASE Unnamed # w
        BY <1>4, <2>1, <2>2, <3>1, <3>2 DEF Left, HomesBack
      <3>3. CASE Unnamed = w
        <4>1. dir[w].owner = found.dir[w].owner /\ dir[w].mode \in Bits
          BY <1>5, <3>1, <3>3 DEF Left, HomesBack
        <4>2. QED  BY <1>4, <1>5, <2>2, <3>3, <4>1
      <3>4. QED  BY <3>2, <3>3
    <2>6. QED  BY <2>3, <2>4, <2>5 DEF HomesBack
  <1>8. QED  BY <1>3, <1>6, <1>7

LEMMA LogRuns ==
    ASSUME TypeOK, Left, pc = "run", idx = LogDirStep, NEW w \in Instance, w = who, Adds(w),
           UNCHANGED <<dir, user, cache, written, found>>,
           \/ UNCHANGED <<logs, snap>>
           \/ /\ logfile # None /\ logs' = [logs EXCEPT ![logfile] = "ours"]
              /\ snap' = [snap EXCEPT !.log = "CreatedByUs"]
    PROVE  (HomesLeft /\ UsersLeft /\ LogsLeft /\ CachesLeft /\ HomesBack)'
  <1>1. /\ snap \in Snapshots /\ logs \in [LogDirs -> Whose]
    BY DEF TypeOK, WorldType, ProcessType
  <1>2. /\ snap'.root = snap.root /\ snap'.home = snap.home /\ snap'.before = snap.before
        /\ snap'.user = snap.user /\ snap'.owner = snap.owner /\ snap'.mode = snap.mode
        /\ snap'.cache = snap.cache
    BY <1>1 DEF Snapshots
  <1>3. /\ \A i \in Instance : RootAlike(i) /\ UserAlike(i) /\ CacheAlike(i)
        /\ \A i \in Instance \ {w} : LogAlike(i)
    BY <1>2, AddsAlike
  <1>4. HomesLeft' /\ UsersLeft' /\ CachesLeft' /\ HomesBack'
    BY <1>3, HomesLeftStay, UsersLeftStay, CachesLeftStay, HomesBackStay DEF Left
  <1>5. /\ 3 \notin Done(w) /\ 3 \in Done(w)' /\ Held(w)' = snap' /\ LogFileOf(w)' = logfile
    BY DEF Adds
  <1>6. ASSUME NEW d \in LogDirs \ written, logs'[d] = "ours"
        PROVE  \E i \in Instance : Says("log", i, LogDirStep)' /\ LogFileOf(i)' = d
    <2>1. CASE logs[d] = "ours"
      <3>1. PICK i \in Instance : Says("log", i, LogDirStep) /\ LogFileOf(i) = d
        BY <1>6, <2>1 DEF Left, LogsLeft
      <3>2. i # w
        BY <1>5, <3>1 DEF Says
      <3>3. Says("log", i, LogDirStep)' /\ LogFileOf(i)' = d
        BY <1>3, <3>1, <3>2 DEF Says, LogAlike
      <3>4. QED  BY <3>3
    <2>2. CASE logs[d] # "ours"
      <3>1. d = logfile /\ snap'.log = "CreatedByUs"
        BY <1>1, <1>6, <2>2 DEF Snapshots
      <3>2. Says("log", w, LogDirStep)' /\ LogFileOf(w)' = d
        BY <1>5, <3>1 DEF Says
      <3>3. QED  BY <3>2
    <2>3. QED  BY <2>1, <2>2
  <1>7. LogsLeft'
    BY <1>6 DEF LogsLeft
  <1>8. QED  BY <1>4, <1>7

LEMMA CacheRuns ==
    ASSUME TypeOK, Left, pc = "run", idx = CacheDirStep, NEW w \in Instance, w = who, Adds(w),
           UNCHANGED <<dir, user, logs, written, found>>,
           \/ UNCHANGED cache /\ snap' = snap
           \/ UNCHANGED cache /\ snap' = [snap EXCEPT !.cache = "Preexisting"]
           \/ cache' = [cache EXCEPT ![w] = "ours"] /\ snap' = [snap EXCEPT !.cache = "CreatedByUs"]
    PROVE  (HomesLeft /\ UsersLeft /\ LogsLeft /\ CachesLeft /\ HomesBack)'
  <1>1. snap \in Snapshots /\ cache \in [Instance -> Whose]
    BY DEF TypeOK, WorldType, ProcessType
  <1>2. /\ snap'.root = snap.root /\ snap'.home = snap.home /\ snap'.before = snap.before
        /\ snap'.user = snap.user /\ snap'.owner = snap.owner /\ snap'.mode = snap.mode
        /\ snap'.log = snap.log
    BY <1>1 DEF Snapshots
  <1>3. /\ \A i \in Instance : RootAlike(i) /\ UserAlike(i) /\ LogAlike(i)
        /\ \A i \in Instance \ {w} : CacheAlike(i)
    BY <1>2, AddsAlike
  <1>4. HomesLeft' /\ UsersLeft' /\ LogsLeft' /\ HomesBack'
    BY <1>3, HomesLeftStay, UsersLeftStay, LogsLeftStay, HomesBackStay DEF Left
  <1>5. /\ 4 \notin Done(w) /\ 4 \in Done(w)' /\ Held(w)' = snap'
    BY DEF Adds
  <1>6. ASSUME NEW i \in Instance, cache'[i] = "ours"  PROVE Says("cache", i, CacheDirStep)'
    <2>1. CASE i # w
      BY <1>1, <1>3, <1>6, <2>1 DEF Left, CachesLeft, Says, CacheAlike
    <2>2. CASE i = w
      <3>1. cache[w] # "ours"
        BY <1>5 DEF Left, CachesLeft, Says
      <3>2. snap'.cache = "CreatedByUs"
        BY <1>1, <1>6, <2>2, <3>1 DEF Snapshots
      <3>3. QED  BY <1>5, <2>2, <3>2 DEF Says
    <2>3. QED  BY <2>1, <2>2
  <1>7. CachesLeft'
    BY <1>6 DEF CachesLeft
  <1>8. QED  BY <1>4, <1>7

LEMMA RunsLeft ==
    ASSUME TypeOK, FoundOnce, Same, Orderly, Left, UNCHANGED found,
           RunOptRoot \/ RunUser \/ RunLogDir \/ RunCacheDir
    PROVE  Orderly' /\ Left'
  <1>1. /\ dir \in [Instance -> Directory] /\ user \in [Instance -> Whose] /\ cache \in [Instance -> Whose]
        /\ snap \in Snapshots /\ Unnamed \in Instance /\ Unnamed \notin Named /\ Named \subseteq Instance
        /\ Instance = Named \cup {Unnamed}
    BY InstanceAssumption DEF TypeOK, WorldType, ProcessType, Instance
  <1>2. PICK w \in Instance : w = who
    BY DEF TypeOK, ProcessType
  <1>3. pc = "run" /\ Ran
    BY DEF RunOptRoot, RunUser, RunLogDir, RunCacheDir, Running
  <1>4. Orderly' /\ Adds(w)
    BY <1>2, <1>3, RanOrderly, RanView
  <1>5. CASE RunOptRoot
    <2>1. /\ idx = 1 /\ UNCHANGED <<user, cache, logs, written>>
          /\ snap' = [snap EXCEPT !.root = Made(@), !.home = IF HomeToMake THEN "CreatedByUs" ELSE @]
          /\ dir' = [dir EXCEPT ![Unnamed] = RootMade,
                                ![w] = IF HomeToMake THEN HandedOver(Level, w) ELSE @]
      BY <1>2, <1>5 DEF RunOptRoot, Running
    <2>2. /\ snap'.root = Made(snap.root) /\ snap'.home = IF HomeToMake THEN "CreatedByUs" ELSE snap.home
          /\ snap'.before = snap.before /\ snap'.user = snap.user /\ snap'.owner = snap.owner
          /\ snap'.mode = snap.mode /\ snap'.log = snap.log /\ snap'.cache = snap.cache
      BY <1>1, <2>1 DEF Snapshots
    <2>3. /\ \A i \in Instance \ {w, Unnamed} : dir'[i] = dir[i]
          /\ dir'[Unnamed] = RootMade
          /\ w # Unnamed => dir'[w] = IF HomeToMake THEN HandedOver(Level, w) ELSE dir[w]
      BY <1>1, <1>2, <2>1 DEF HomeToMake
    <2>4. HandedOver(Level, w).made = "ours"
      BY DEF HandedOver, Level
    <2>5. \/ snap.root = "Preexisting" /\ dir'[Unnamed] = RootMade
          \/ dir'[Unnamed].made = "ours" /\ snap'.root = "CreatedByUs"
      BY <2>2, <2>3, RootMadeIs DEF Made
    <2>6. (HomesLeft /\ UsersLeft /\ LogsLeft /\ CachesLeft /\ HomesBack)'
      BY <1>2, <1>3, <1>4, <2>1, <2>2, <2>3, <2>4, <2>5, RootRuns
    <2>7. There(who)'
      <3>1. who' = who
        BY <1>3 DEF Ran
      <3>2. CASE w = Unnamed
        <4>1. snap.root = "Preexisting" => There(Unnamed)
          BY <1>3, <2>1 DEF Left, Ready
        <4>2. RootMade.made # "absent"
          BY <4>1, RootMadeIs DEF There
        <4>3. QED  BY <1>2, <2>3, <3>1, <3>2, <4>2 DEF There
      <3>3. CASE w # Unnamed
        <4>1. snap.home = "Preexisting" => There(who)
          BY <1>3, <2>1 DEF Left, Ready
        <4>2. QED  BY <1>2, <2>3, <2>4, <3>1, <3>3, <4>1 DEF There, HomeToMake
      <3>4. QED  BY <3>2, <3>3
    <2>8. \A i \in Named \ {who} : dir'[i].made = "ours" => dir[i].made = "ours"
      BY <1>1, <1>2, <2>3
    <2>9. QED  BY <1>3, <1>4, <2>6, <2>7, <2>8, RanRest DEF Left
  <1>6. CASE RunUser
    <2>1. /\ idx = 2 /\ UNCHANGED <<cache, logs, written>> /\ snap' = [snap EXCEPT !.user = Made(@)]
          /\ \/ snap.user = "Preexisting" /\ UNCHANGED <<dir, user>>
             \/ /\ snap.user # "Preexisting"
                /\ user' = [user EXCEPT ![w] = "ours"]
                /\ dir' = [dir EXCEPT ![w] = [made |-> IF There(w) THEN @.made ELSE "ours",
                                              owner |-> w, mode |-> "750"]]
      BY <1>2, <1>6 DEF RunUser, Running
    <2>2. /\ snap'.user = Made(snap.user)
          /\ snap'.root = snap.root /\ snap'.home = snap.home /\ snap'.before = snap.before
          /\ snap'.owner = snap.owner /\ snap'.mode = snap.mode /\ snap'.log = snap.log
          /\ snap'.cache = snap.cache
      BY <1>1, <2>1 DEF Snapshots
    <2>3. There(w) /\ snap.user \in {"Preexisting", "Untracked"}
      BY <1>2, <1>3, <2>1 DEF Left, Ready
    <2>4. \/ dir'[w] = dir[w] /\ user'[w] = user[w] /\ snap'.user = snap.user
          \/ /\ snap.user = "Untracked" /\ user'[w] = "ours" /\ snap'.user = "CreatedByUs"
             /\ dir'[w].made = dir[w].made /\ dir'[w].mode \in {dir[w].mode, "750"}
      BY <1>1, <2>1, <2>2, <2>3 DEF Made
    <2>5. \A i \in Instance \ {w} : dir'[i] = dir[i] /\ user'[i] = user[i]
      BY <1>1, <2>1
    <2>6. (HomesLeft /\ UsersLeft /\ LogsLeft /\ CachesLeft /\ HomesBack)'
      BY <1>2, <1>3, <1>4, <2>1, <2>2, <2>4, <2>5, UserRuns
    <2>7. There(who)'
      BY <1>2, <1>3, <2>3, <2>4 DEF There, Ran
    <2>8. \A i \in Named \ {who} : dir'[i].made = "ours" => dir[i].made = "ours"
      BY <1>1, <1>2, <2>5
    <2>9. QED  BY <1>3, <1>4, <2>6, <2>7, <2>8, RanRest DEF Left
  <1>7. CASE RunLogDir
    <2>1. /\ idx = 3 /\ UNCHANGED <<dir, user, cache, written>>
          /\ \/ UNCHANGED <<logs, snap>>
             \/ /\ logfile # None /\ logs' = [logs EXCEPT ![logfile] = "ours"]
                /\ snap' = [snap EXCEPT !.log = "CreatedByUs"]
      BY <1>7 DEF RunLogDir, Running
    <2>2. (HomesLeft /\ UsersLeft /\ LogsLeft /\ CachesLeft /\ HomesBack)'
      BY <1>2, <1>3, <1>4, <2>1, LogRuns
    <2>3. There(who)'
      BY <1>3, <2>1 DEF There, Ran, Left, Ready
    <2>4. \A i \in Named \ {who} : dir'[i].made = "ours" => dir[i].made = "ours"
      BY <2>1
    <2>5. QED  BY <1>3, <1>4, <2>2, <2>3, <2>4, RanRest DEF Left
  <1>8. CASE RunCacheDir
    <2>1. /\ idx = 4 /\ UNCHANGED <<dir, user, logs, written>>
          /\ cache' = [cache EXCEPT ![w] = IF snap.cache = "Preexisting" THEN @ ELSE "ours"]
          /\ snap' = [snap EXCEPT !.cache = Made(@)]
      BY <1>2, <1>8 DEF RunCacheDir, Running
    <2>2. \/ UNCHANGED cache /\ snap' = [snap EXCEPT !.cache = "Preexisting"]
          \/ cache' = [cache EXCEPT ![w] = "ours"] /\ snap' = [snap EXCEPT !.cache = "CreatedByUs"]
      BY <1>1, <2>1 DEF Made
    <2>3. (HomesLeft /\ UsersLeft /\ LogsLeft /\ CachesLeft /\ HomesBack)'
      BY <1>2, <1>3, <1>4, <2>1, <2>2, CacheRuns
    <2>4. There(who)'
      BY <1>3, <2>1 DEF There, Ran, Left, Ready
    <2>5. \A i \in Named \ {who} : dir'[i].made = "ours" => dir[i].made = "ours"
      BY <2>1
    <2>6. QED  BY <1>3, <1>4, <2>3, <2>4, <2>5, RanRest DEF Left
  <1>9. QED  BY <1>5, <1>6, <1>7, <1>8

\* A run that fails is followed by its undo, of what its snapshot then says.
LEMMA FailuresLeft ==
    ASSUME TypeOK, FoundOnce, Same, Orderly, Left, Good', UNCHANGED found, RunHalfway \/ RunFails
    PROVE  Orderly' /\ Left'
  <1>1. /\ dir \in [Instance -> Directory] /\ user \in [Instance -> Whose]
        /\ snap \in Snapshots /\ Unnamed \in Instance /\ Unnamed \notin Named /\ Named \subseteq Instance
        /\ Instance = Named \cup {Unnamed}
    BY InstanceAssumption DEF TypeOK, WorldType, ProcessType, Instance
  <1>2. PICK w \in Instance : w = who
    BY DEF TypeOK, ProcessType
  <1>3. pc = "run" /\ Failed /\ ~Ran
    BY DEF RunHalfway, RunFails, Failed, Ran
  <1>4. Orderly' /\ Adds(w)
    BY <1>2, <1>3, FailedOrderly, RanView
  <1>5. CASE RunHalfway
    <2>1. ~Fault
      BY NoFault
    <2>2. PICK h \in Halves : dir' = h.dir /\ user' = h.user /\ snap' = h.snap
      BY <1>5, <2>1 DEF RunHalfway
    <2>3. UNCHANGED <<cache, logs, written>> /\ idx \in {1, 2}
      BY <1>5 DEF RunHalfway
    <2>4. CASE UNCHANGED <<dir, user, snap>>
      <3>1. CASE idx = 1
        <4>1. (HomesLeft /\ UsersLeft /\ LogsLeft /\ CachesLeft /\ HomesBack)'
          BY <1>2, <1>3, <1>4, <2>3, <2>4, <3>1, RootRuns
        <4>2. QED  BY <1>3, <1>4, <2>4, <4>1, RanRest DEF Left
      <3>2. CASE idx = 2
        <4>1. (HomesLeft /\ UsersLeft /\ LogsLeft /\ CachesLeft /\ HomesBack)'
          BY <1>2, <1>3, <1>4, <2>3, <2>4, <3>2, UserRuns
        <4>2. QED  BY <1>3, <1>4, <2>4, <4>1, RanRest DEF Left
      <3>3. QED  BY <2>3, <3>1, <3>2
    <2>5. CASE /\ idx = UserStep /\ snap.user = "Untracked"
               /\ dir' = dir /\ user' = [user EXCEPT ![who] = "ours"]
               /\ snap' = [snap EXCEPT !.user = "CreatedByUs"]
      <3>1. /\ snap'.user = "CreatedByUs"
            /\ snap'.root = snap.root /\ snap'.home = snap.home /\ snap'.before = snap.before
            /\ snap'.owner = snap.owner /\ snap'.mode = snap.mode /\ snap'.log = snap.log
            /\ snap'.cache = snap.cache
        BY <1>1, <2>5 DEF Snapshots
      <3>2. (HomesLeft /\ UsersLeft /\ LogsLeft /\ CachesLeft /\ HomesBack)'
        BY <1>1, <1>2, <1>3, <1>4, <2>3, <2>5, <3>1, UserRuns
      <3>3. QED  BY <1>3, <1>4, <2>5, <3>2, RanRest DEF Left
    <2>6. ASSUME NEW root, NEW claimed, idx = OptRootStep,
                 root = [dir EXCEPT ![Unnamed] = IF snap.root = "Preexisting" THEN RootMade ELSE Level],
                 claimed = [snap EXCEPT !.root = Made(@)], UNCHANGED user,
                 \/ dir' = root /\ snap' = claimed
                 \/ /\ HomeToMake
                    /\ dir' = [root EXCEPT ![who] = Level]
                    /\ snap' = [claimed EXCEPT !.home = "CreatedByUs"]
          PROVE  Orderly' /\ Left'
      <3>1. /\ claimed.root = Made(snap.root) /\ claimed.home = snap.home
            /\ claimed.before = snap.before /\ claimed.user = snap.user /\ claimed.owner = snap.owner
            /\ claimed.mode = snap.mode /\ claimed.log = snap.log /\ claimed.cache = snap.cache
            /\ claimed \in Snapshots
        BY <1>1, <2>6, MadeType DEF Snapshots
      <3>2. /\ snap'.root = Made(snap.root)
            /\ snap'.before = snap.before /\ snap'.user = snap.user /\ snap'.owner = snap.owner
            /\ snap'.mode = snap.mode /\ snap'.log = snap.log /\ snap'.cache = snap.cache
            /\ dir' # root => snap'.home = "CreatedByUs"
        BY <2>6, <3>1 DEF Snapshots
      <3>3. /\ root[Unnamed] = IF snap.root = "Preexisting" THEN RootMade ELSE Level
            /\ \A i \in Instance \ {Unnamed} : root[i] = dir[i]
            /\ root \in [Instance -> Directory]
        BY <1>1, <2>6, RootMadeIs, LevelType
      <3>4. /\ \A i \in Instance \ {w, Unnamed} : dir'[i] = dir[i]
            /\ dir'[Unnamed] = IF snap.root = "Preexisting" THEN RootMade ELSE Level
            /\ w # Unnamed => dir'[w] = dir[w] \/ (dir'[w] = Level /\ snap'.home = "CreatedByUs")
        <4>1. CASE dir' = root
          BY <3>3, <4>1
        <4>2. CASE HomeToMake /\ dir' = [root EXCEPT ![who] = Level] /\ dir' # root
          BY <1>1, <1>2, <3>2, <3>3, <4>2 DEF HomeToMake
        <4>3. QED  BY <2>6, <4>1, <4>2
      <3>5. Level.made = "ours"
        BY DEF Level
      <3>6. \/ snap.root = "Preexisting" /\ dir'[Unnamed] = RootMade
            \/ dir'[Unnamed].made = "ours" /\ snap'.root = "CreatedByUs"
        BY <3>2, <3>4, <3>5 DEF Made
      <3>7. (HomesLeft /\ UsersLeft /\ LogsLeft /\ CachesLeft /\ HomesBack)'
        BY <1>2, <1>3, <1>4, <2>3, <2>6, <3>2, <3>4, <3>5, <3>6, RootRuns
      <3>8. \A i \in Named \ {who} : dir'[i].made = "ours" => dir[i].made = "ours"
        BY <1>1, <1>2, <3>4
      <3>9. QED  BY <1>3, <1>4, <3>7, <3>8, RanRest DEF Left
    <2>7. CASE h = [dir |-> dir, user |-> user, snap |-> snap, bare |-> snap]
      BY <2>2, <2>4, <2>7
    <2>8. ASSUME NEW root, NEW claimed, idx = OptRootStep,
                 root = [dir EXCEPT ![Unnamed] = IF snap.root = "Preexisting" THEN RootMade ELSE Level],
                 claimed = [snap EXCEPT !.root = Made(@)],
                 \/ h = [dir |-> root, user |-> user, snap |-> claimed, bare |-> snap]
                 \/ /\ HomeToMake
                    /\ h = [dir |-> [root EXCEPT ![who] = Level], user |-> user,
                            snap |-> [claimed EXCEPT !.home = "CreatedByUs"], bare |-> claimed]
          PROVE  Orderly' /\ Left'
      <3>1. /\ UNCHANGED user
            /\ \/ dir' = root /\ snap' = claimed
               \/ /\ HomeToMake
                  /\ dir' = [root EXCEPT ![who] = Level]
                  /\ snap' = [claimed EXCEPT !.home = "CreatedByUs"]
        <4>1. CASE h = [dir |-> root, user |-> user, snap |-> claimed, bare |-> snap]
          <5>1. dir' = root /\ user' = user /\ snap' = claimed
            BY <2>2, <4>1
          <5>2. QED  BY <5>1
        <4>2. CASE /\ HomeToMake
                   /\ h = [dir |-> [root EXCEPT ![who] = Level], user |-> user,
                           snap |-> [claimed EXCEPT !.home = "CreatedByUs"], bare |-> claimed]
          <5>1. dir' = h.dir /\ user' = h.user /\ snap' = h.snap
            BY <2>2
          <5>2. dir' = [root EXCEPT ![who] = Level] /\ user' = user
            BY <4>2, <5>1
          <5>3. snap' = [claimed EXCEPT !.home = "CreatedByUs"]
            BY <4>2, <5>1
          <5>4. QED  BY <4>2, <5>2, <5>3
        <4>3. QED  BY <2>8, <4>1, <4>2
      <3>2. QED  BY <2>6, <2>8, <3>1
    <2>9. CASE /\ idx = UserStep /\ snap.user = "Untracked" /\ There(who)
               /\ h = [dir |-> dir, user |-> [user EXCEPT ![who] = "ours"],
                       snap |-> [snap EXCEPT !.user = "CreatedByUs"],
                       bare |-> [snap EXCEPT !.user = "CreatedByUs"]]
      BY <2>2, <2>5, <2>9
    <2>10. QED
      BY <2>7, <2>8, <2>9, HalfCases
  <1>6. CASE RunFails
    <2>1. /\ idx \in {3, 4} /\ UNCHANGED <<dir, user, cache, written>>
          /\ \/ UNCHANGED <<logs, snap>>
             \/ /\ idx = LogDirStep /\ logfile # None
                /\ logs' = [logs EXCEPT ![logfile] = "ours"]
                /\ snap' = [snap EXCEPT !.log = "CreatedByUs"]
      BY <1>6 DEF RunFails
    <2>2. CASE idx = 3
      <3>1. (HomesLeft /\ UsersLeft /\ LogsLeft /\ CachesLeft /\ HomesBack)'
        BY <1>2, <1>3, <1>4, <2>1, <2>2, LogRuns
      <3>2. QED  BY <1>3, <1>4, <2>1, <3>1, RanRest DEF Left
    <2>3. CASE idx = 4
      <3>1. (HomesLeft /\ UsersLeft /\ LogsLeft /\ CachesLeft /\ HomesBack)'
        BY <1>2, <1>3, <1>4, <2>1, <2>3, CacheRuns
      <3>2. QED  BY <1>3, <1>4, <2>1, <3>1, RanRest DEF Left
    <2>4. QED  BY <2>1, <2>2, <2>3
  <1>7. QED  BY <1>5, <1>6

-----------------------------------------------------------------------------
(* The undos.                                                                *)

\* A home that is ours is removed by the undo of the first step, the last of all.
LEMMA UndoneRest ==
    ASSUME TypeOK, Left, pc = "undo", Undone, idx # OptRootStep,
           \A i \in Named : dir'[i].made = "ours" => dir[i].made = "ours"
    PROVE  Homeless' /\ Ready'
  <1> DEFINE K == recorded \ {idx}
  <1>1. /\ idx \in {2, 3, 4} /\ recorded \in SUBSET Steps
    BY DEF TypeOK, ProcessType, Steps
  <1>2. Scope(idx, who) # "Mixed"
    BY <1>1 DEF Scope
  <1>3. UndoBelow(idx, K) /\ K \in SUBSET recorded
    BY <1>2 DEF Undone
  <1>4. ~(who \in Named /\ {j \in K : j < idx} = {} /\ dir'[who].made = "ours")
    <2>1. SUFFICES ASSUME who \in Named, dir'[who].made = "ours"  PROVE 1 \in {j \in K : j < idx}
      OBVIOUS
    <2>2. Says("home", who, OptRootStep)
      BY <2>1 DEF Left, HomesLeft
    <2>3. 1 \in recorded \cup {idx}
      BY <2>2 DEF Says, Done, Busy
    <2>4. QED  BY <1>1, <2>3
  <1>. HIDE DEF K
  <1>5. QED  BY <1>3, <1>4, HomelessStays DEF Left

LEMMA UndoneAlike ==
    ASSUME TypeOK, Orderly, pc = "undo", Undone, NEW w \in Instance, w = who
    PROVE  /\ idx # 1 => idx \notin Done(w)'
           /\ \A i \in Instance : /\ idx # 1 => RootAlike(i)
                                  /\ idx # 2 => UserAlike(i)
                                  /\ idx # 3 => LogAlike(i)
                                  /\ idx # 4 => CacheAlike(i)
                                  /\ i # w => RootAlike(i) /\ UserAlike(i) /\ LogAlike(i) /\ CacheAlike(i)
           /\ Held(w) = snap /\ LogFileOf(w) = logfile /\ idx \in Done(w)
  <1>1. /\ IF others # {} /\ Scope(idx, w) = "Mixed" THEN Keeps(w, Done(w))
           ELSE Keeps(w, Done(w) \ {idx})
        /\ \A i \in Instance \ {w} : Keeps(i, Done(i))
        /\ idx \in Done(w) /\ Held(w) = snap /\ LogFileOf(w) = logfile
    BY UndoneView
  <1>2. idx \in Steps /\ (idx # 1 => Scope(idx, w) # "Mixed")
    BY DEF TypeOK, ProcessType, Scope, Steps
  <1>3. \A i \in Instance \ {w} : RootAlike(i) /\ UserAlike(i) /\ LogAlike(i) /\ CacheAlike(i)
    BY <1>1, KeepsAlike
  <1>4. CASE Keeps(w, Done(w)) /\ idx = 1
    BY <1>1, <1>3, <1>4, KeepsAlike
  <1>5. CASE Keeps(w, Done(w) \ {idx})
    BY <1>1, <1>2, <1>3, <1>5, ForgetsAlike
  <1>6. QED  BY <1>1, <1>2, <1>4, <1>5

LEMMA UndoLogDirLeft ==
    ASSUME TypeOK, Orderly, Left, Good', UNCHANGED found, UndoLogDir
    PROVE  Orderly' /\ Left'
  <1>1. /\ pc = "undo" /\ idx = 3 /\ Undone /\ UNCHANGED <<dir, user, cache, written>> /\ ~Fault
        /\ logs \in [LogDirs -> Whose]
    BY NoFault DEF UndoLogDir, Undoing, TypeOK, WorldType
  <1>2. PICK w \in Instance : w = who
    BY DEF TypeOK, ProcessType
  <1>3. Orderly'
    BY <1>1, <1>2, UndoneOrderly
  <1>4. /\ \A i \in Instance : RootAlike(i) /\ UserAlike(i) /\ CacheAlike(i) /\ (i # w => LogAlike(i))
        /\ Held(w) = snap /\ LogFileOf(w) = logfile
    BY <1>1, <1>2, UndoneAlike
  <1>5. HomesLeft' /\ UsersLeft' /\ CachesLeft' /\ HomesBack'
    BY <1>1, <1>4, HomesLeftStay, UsersLeftStay, CachesLeftStay, HomesBackStay DEF Left
  <1>6. Homeless' /\ Ready'
    BY <1>1, UndoneRest
  <1>7. ASSUME NEW d \in LogDirs \ written, logs'[d] = "ours"
        PROVE  \E i \in Instance : Says("log", i, LogDirStep)' /\ LogFileOf(i)' = d
    <2>1. logs[d] = "ours"
      BY <1>1, <1>7 DEF UndoLogDir
    <2>2. PICK i \in Instance : Says("log", i, LogDirStep) /\ LogFileOf(i) = d
      BY <2>1 DEF Left, LogsLeft
    <2>3. i # w
      <3>1. SUFFICES ASSUME i = w  PROVE FALSE
        OBVIOUS
      <3>2. snap.log = "CreatedByUs" /\ logfile = d /\ logfile # None /\ logfile \notin written
        BY <1>4, <2>2, <3>1, NoneAssumption DEF Says
      <3>3. logs' = [logs EXCEPT ![logfile] = "absent"]
        BY <1>1, <3>2 DEF UndoLogDir
      <3>4. QED  BY <1>1, <1>7, <3>2, <3>3
    <2>4. Says("log", i, LogDirStep)' /\ LogFileOf(i)' = d
      BY <1>4, <2>2, <2>3 DEF Says, LogAlike
    <2>5. QED  BY <2>4
  <1>8. LogsLeft'
    BY <1>1, <1>7 DEF LogsLeft
  <1>9. QED  BY <1>3, <1>5, <1>6, <1>8 DEF Left

LEMMA UndoCacheDirLeft ==
    ASSUME TypeOK, Orderly, Left, Good', UNCHANGED found, UndoCacheDir
    PROVE  Orderly' /\ Left'
  <1>1. /\ pc = "undo" /\ idx = 4 /\ Undone /\ UNCHANGED <<dir, user, logs, written>> /\ ~Fault
        /\ cache \in [Instance -> Whose]
    BY NoFault DEF UndoCacheDir, Undoing, TypeOK, WorldType
  <1>2. PICK w \in Instance : w = who
    BY DEF TypeOK, ProcessType
  <1>3. Orderly'
    BY <1>1, <1>2, UndoneOrderly
  <1>4. /\ \A i \in Instance : RootAlike(i) /\ UserAlike(i) /\ LogAlike(i) /\ (i # w => CacheAlike(i))
        /\ Held(w) = snap
    BY <1>1, <1>2, UndoneAlike
  <1>5. HomesLeft' /\ UsersLeft' /\ LogsLeft' /\ HomesBack'
    BY <1>1, <1>4, HomesLeftStay, UsersLeftStay, LogsLeftStay, HomesBackStay DEF Left
  <1>6. Homeless' /\ Ready'
    BY <1>1, UndoneRest
  <1>7. ASSUME NEW i \in Instance, cache'[i] = "ours"  PROVE Says("cache", i, CacheDirStep)'
    <2>1. cache[i] = "ours"
      BY <1>1, <1>7 DEF UndoCacheDir
    <2>2. Says("cache", i, CacheDirStep)
      BY <2>1 DEF Left, CachesLeft
    <2>3. i # w
      <3>1. SUFFICES ASSUME i = w  PROVE FALSE
        OBVIOUS
      <3>2. snap.cache = "CreatedByUs"
        BY <1>4, <2>2, <3>1 DEF Says
      <3>3. cache' = [cache EXCEPT ![who] = "absent"]
        BY <1>1, <3>2 DEF UndoCacheDir
      <3>4. QED  BY <1>1, <1>2, <1>7, <3>1, <3>3
    <2>4. QED  BY <1>4, <2>2, <2>3 DEF Says, CacheAlike
  <1>8. CachesLeft'
    BY <1>7 DEF CachesLeft
  <1>9. QED  BY <1>3, <1>5, <1>6, <1>8 DEF Left

\* The user goes, and its home is given back as it was.
LEMMA UndoUserLeft ==
    ASSUME TypeOK, TheirsInv, FoundOnce, Same, Orderly, Left, Good', UNCHANGED found, UndoUser
    PROVE  Orderly' /\ Left'
  <1>1. /\ pc = "undo" /\ idx = 2 /\ Undone /\ UNCHANGED <<cache, logs, written>> /\ ~Fault
        /\ dir \in [Instance -> Directory] /\ user \in [Instance -> Whose] /\ snap \in Snapshots
        /\ found.dir \in [Instance -> Directory]
        /\ Unnamed \in Instance /\ Named \subseteq Instance /\ Unnamed \notin Named
    BY NoFault, InstanceAssumption
       DEF UndoUser, Undoing, TypeOK, WorldType, ProcessType, TheirsInv, FoundType, Instance
  <1>2. PICK w \in Instance : w = who
    BY DEF TypeOK, ProcessType
  <1>3. Orderly'
    BY <1>1, <1>2, UndoneOrderly
  <1>4. /\ \A i \in Instance : RootAlike(i) /\ LogAlike(i) /\ CacheAlike(i) /\ (i # w => UserAlike(i))
        /\ Held(w) = snap /\ 2 \in Done(w) /\ 2 \notin Done(w)'
    BY <1>1, <1>2, UndoneAlike
  <1>5. /\ user[w] = "ours" <=> snap.user = "CreatedByUs"
        /\ \/ snap.user # "CreatedByUs" /\ UNCHANGED <<dir, user>>
           \/ /\ snap.user = "CreatedByUs"
              /\ user' = [user EXCEPT ![w] = "absent"] /\ dir' = HomeGivenBack
    BY <1>1, <1>2, <1>4 DEF UndoUser, Left, UsersLeft, Says
  <1>6. /\ \A i \in Instance : dir'[i].made = dir[i].made
        /\ \A i \in Instance \ {w} : dir'[i] = dir[i] /\ user'[i] = user[i]
        /\ user'[w] # "ours"
    <2>1. /\ \A i \in Instance : HomeGivenBack[i].made = dir[i].made
          /\ \A i \in Instance \ {w} : HomeGivenBack[i] = dir[i]
      BY <1>1, <1>2 DEF HomeGivenBack, Directory
    <2>2. QED  BY <1>1, <1>5, <2>1
  <1>7. HomesLeft' /\ LogsLeft' /\ CachesLeft'
    BY <1>1, <1>4, <1>6, HomesLeftStay, LogsLeftStay, CachesLeftStay DEF Left
  <1>8. Homeless' /\ Ready'
    BY <1>1, <1>6, UndoneRest
  <1>9. UsersLeft'
    <2>1. ASSUME NEW i \in Instance  PROVE user'[i] = "ours" <=> Says("user", i, UserStep)'
      <3>1. CASE i # w
        BY <1>4, <1>6, <3>1 DEF Left, UsersLeft, Says, UserAlike
      <3>2. CASE i = w
        BY <1>4, <1>6, <3>2 DEF Says
      <3>3. QED  BY <3>1, <3>2
    <2>2. QED  BY <2>1 DEF UsersLeft
  <1>10. ASSUME snap.user = "CreatedByUs", dir[w].made = "theirs"
         PROVE  /\ snap.owner # "none" => dir'[w].owner = snap.owner
                /\ snap.mode # "none" => dir'[w].mode = snap.mode
    <2>1. There(who)
      BY <1>2, <1>10 DEF There
    <2>2. dir' = [dir EXCEPT ![who].owner = IF snap.owner = "none" THEN @ ELSE snap.owner,
                             ![who].mode = IF snap.mode = "none" THEN @ ELSE snap.mode]
      BY <1>5, <1>10, <2>1 DEF HomeGivenBack
    <2>3. dir[w] \in Directory
      BY <1>1
    <2>4. dir'[w] = [dir[w] EXCEPT !.owner = IF snap.owner = "none" THEN @ ELSE snap.owner,
                                   !.mode = IF snap.mode = "none" THEN @ ELSE snap.mode]
      BY <1>1, <1>2, <2>2, <2>3 DEF Directory
    <2>5. QED  BY <2>3, <2>4 DEF Directory
  <1>11. HomesBack'
    <2>1. \A i \in Instance \ {w} : user[i] = "ours" =>
             Held(i)'.owner = Held(i).owner /\ Held(i)'.mode = Held(i).mode
      BY <1>4 DEF Left, UsersLeft, Says, UserAlike
    <2>2. Bits' = Bits
      BY DEF Bits, LeftWith
    <2>3. \A i \in Instance : dir'[i].made = "absent" => dir'[i] = NoDirectory
      <3>1. dir[w].made = "absent" => dir'[w] = dir[w]
        BY <1>2, <1>5 DEF HomeGivenBack, There
      <3>2. QED  BY <1>6, <3>1 DEF Left, HomesBack
    <2>4. \A i \in Instance : found.dir[i].owner # "none" /\ found.dir[i].mode # "none"
      BY <1>1, InstanceAssumption DEF Directory, Mode
    <2>5. ASSUME NEW i \in Named, dir'[i].made = "theirs"
          PROVE  IF user'[i] = "ours"
                 THEN Held(i)'.owner = found'.dir[i].owner /\ Held(i)'.mode = found'.dir[i].mode
                 ELSE dir'[i] = found'.dir[i]
      <3>1. dir[i].made = "theirs"
        BY <1>1, <1>6, <2>5
      <3>2. CASE i # w
        BY <1>1, <1>6, <2>1, <3>1, <3>2 DEF Left, HomesBack
      <3>3. CASE i = w /\ snap.user # "CreatedByUs"
        BY <1>1, <1>5, <1>6, <3>1, <3>3 DEF Left, HomesBack
      <3>4. CASE i = w /\ snap.user = "CreatedByUs"
        <4>1. snap.owner = found.dir[w].owner /\ snap.mode = found.dir[w].mode
          BY <1>4, <1>5, <3>1, <3>4 DEF Left, HomesBack
        <4>2. dir'[w].owner = found.dir[w].owner /\ dir'[w].mode = found.dir[w].mode
          BY <1>10, <2>4, <3>1, <3>4, <4>1
        <4>3. dir'[w].made = "theirs" /\ found.dir[w].made = "theirs"
          BY <2>5, <3>1, <3>4 DEF Same
        <4>4. dir'[w] \in Directory /\ found.dir[w] \in Directory
          <5>1. TypeOK'
            BY UndosType, InvSplit
          <5>2. QED  BY <1>1, <5>1 DEF TypeOK, WorldType
        <4>5. dir'[w] = found.dir[w]
          BY <4>2, <4>3, <4>4 DEF Directory
        <4>6. QED  BY <1>6, <3>4, <4>5
      <3>5. QED  BY <3>2, <3>3, <3>4
    <2>6. ASSUME dir'[Unnamed].made = "theirs"
          PROVE  IF user'[Unnamed] = "ours"
                 THEN /\ Held(Unnamed)'.owner = found'.dir[Unnamed].owner /\ Held(Unnamed)'.mode \in Bits'
                      /\ dir'[Unnamed].mode \in Bits' \cup {"750", "751"}
                 ELSE dir'[Unnamed].owner = found'.dir[Unnamed].owner /\ dir'[Unnamed].mode \in Bits'
      <3>1. dir[Unnamed].made = "theirs"
        BY <1>1, <1>6, <2>6
      <3>2. CASE Unnamed # w
        BY <1>1, <1>6, <2>1, <2>2, <3>1, <3>2 DEF Left, HomesBack
      <3>3. CASE Unnamed = w /\ snap.user # "CreatedByUs"
        BY <1>1, <1>5, <1>6, <2>2, <3>1, <3>3 DEF Left, HomesBack
      <3>4. CASE Unnamed = w /\ snap.user = "CreatedByUs"
        <4>1. snap.owner = found.dir[Unnamed].owner /\ snap.mode \in Bits
          BY <1>4, <1>5, <3>1, <3>4 DEF Left, HomesBack
        <4>2. snap.mode # "none"
          BY <1>1, <4>1, <2>4 DEF Bits, LeftWith, Directory, Mode
        <4>3. QED  BY <1>6, <1>10, <2>2, <2>4, <3>1, <3>4, <4>1, <4>2
      <3>5. QED  BY <3>2, <3>3, <3>4
    <2>7. QED  BY <2>3, <2>5, <2>6 DEF HomesBack
  <1>12. QED  BY <1>3, <1>7, <1>8, <1>9, <1>11 DEF Left

\* All three parts of the undo work when nothing fails.
LEMMA AllThree ==
    ASSUME NEW done \in SUBSET {"home", "mode", "root"}, Cardinality(done) = 3
    PROVE  done = {"home", "mode", "root"}
  <1>1. IsFiniteSet({"home", "mode", "root"}) /\ Cardinality({"home", "mode", "root"}) = 3
    <2>1. IsFiniteSet({}) /\ Cardinality({}) = 0
      BY FS_EmptySet
    <2>2. IsFiniteSet({"home"}) /\ Cardinality({"home"}) = 1
      <3>1. {} \cup {"home"} = {"home"}
        OBVIOUS
      <3>2. QED  BY <2>1, <3>1, FS_AddElement
    <2>3. IsFiniteSet({"home", "mode"}) /\ Cardinality({"home", "mode"}) = 2
      <3>1. {"home"} \cup {"mode"} = {"home", "mode"}
        OBVIOUS
      <3>2. QED  BY <2>2, <3>1, FS_AddElement
    <2>4. {"home", "mode"} \cup {"root"} = {"home", "mode", "root"}
      OBVIOUS
    <2>5. QED  BY <2>3, <2>4, FS_AddElement
  <1>2. QED  BY <1>1, FS_Subset

\* No cache is in a directory of ours when its last step is undone.
LEMMA NoCacheLeft ==
    ASSUME TypeOK, FoundOnce, Same, Orderly, Left, pc = "undo", idx = OptRootStep,
           NEW i \in Instance, dir[i].made = "ours", i = who \/ others = {}
    PROVE  cache[i] = "absent"
  <1>1. cache[i] \in {"absent", "ours", "theirs"} /\ who \in Instance
    BY DEF TypeOK, WorldType, Whose, ProcessType
  <1>2. cache[i] # "theirs"
    BY DEF FoundOnce, Same
  <1>3. cache[i] # "ours"
    <2>1. SUFFICES ASSUME Says("cache", i, CacheDirStep)  PROVE FALSE
      BY DEF Left, CachesLeft
    <2>2. Scope(CacheDirStep, i) = "OwnInstance"
      BY DEF Scope
    <2>3. CASE i = who
      <3>1. CacheDirStep \in recorded
        BY <2>1, <2>3 DEF Says, Done, Busy
      <3>2. QED  BY <2>2, <2>3, <3>1 DEF Orderly
    <2>4. CASE i # who
      <3>1. CacheDirStep \in man[i].steps
        BY <2>1, <2>4 DEF Says, Done, Busy
      <3>2. i \in LiveOthers(who)
        BY <2>2, <2>4, <3>1 DEF LiveOthers, IsLive
      <3>3. QED  BY <2>4, <3>2 DEF Orderly
    <2>5. QED  BY <2>3, <2>4
  <1>4. QED  BY <1>1, <1>2, <1>3

\* When nobody else lives no home of another is below a root of ours.
LEMMA NoHomeLeft ==
    ASSUME TypeOK, FoundOnce, Same, Orderly, Left, pc = "undo", others = {},
           dir[Unnamed].made = "ours", NEW i \in Named, i # who
    PROVE  dir[i].made = "absent"
  <1>1. dir[i].made \in {"absent", "ours", "theirs"} /\ i \in Instance /\ Unnamed \in Instance
    BY DEF TypeOK, WorldType, Directory, Whose, Instance
  <1>2. dir[i].made # "theirs"
    BY <1>1 DEF FoundOnce, Same
  <1>3. dir[i].made # "ours"
    <2>1. SUFFICES ASSUME dir[i].made = "ours"  PROVE FALSE
      OBVIOUS
    <2>2. 1 \in man[i].steps /\ ~Busy(i)
      BY <2>1 DEF Left, HomesLeft, Says, Done, Busy
    <2>3. i \notin remains
      BY <2>1, <2>2 DEF Left, Homeless
    <2>4. man[i].steps = Steps
      BY <1>1, <2>2, <2>3 DEF Orderly
    <2>5. i \in LiveOthers(who)
      BY <1>1, <2>4 DEF LiveOthers, IsLive, Scope, Steps
    <2>6. QED  BY <2>5 DEF Orderly
  <1>4. QED  BY <1>1, <1>2, <1>3

\* The directories after the undo of prepare-opt-root.
LEMMA RootUndone ==
    ASSUME TypeOK, TheirsInv, FoundOnce, Same, Orderly, Left, Good', UndoOptRoot
    PROVE  /\ \A i \in Instance \ {who, Unnamed} : dir'[i] = dir[i]
           /\ \A i \in Instance : dir'[i].made = dir[i].made \/ dir'[i] = NoDirectory
           /\ who # Unnamed => dir'[who].made # "ours" /\ (dir'[who] = dir[who] \/ dir'[who] = NoDirectory)
           /\ others = {} /\ snap.root = "CreatedByUs" => dir'[Unnamed].made # "ours"
           /\ \/ dir'[Unnamed] = dir[Unnamed] \/ dir'[Unnamed] = NoDirectory
              \/ /\ snap.before # "none" /\ dir[Unnamed].mode = Widened(snap.before)
                 /\ dir[Unnamed].made # "absent" /\ dir'[Unnamed].made = dir[Unnamed].made
                 /\ dir'[Unnamed].owner = dir[Unnamed].owner /\ dir'[Unnamed].mode = snap.before
  <1>1. /\ pc = "undo" /\ idx = 1 /\ dir \in [Instance -> Directory] /\ snap \in Snapshots
        /\ who \in Instance /\ Unnamed \in Instance /\ Unnamed \notin Named /\ Named \subseteq Instance
        /\ ~Fault /\ Instance = Named \cup {Unnamed}
    BY NoFault, InstanceAssumption DEF UndoOptRoot, Undoing, TypeOK, WorldType, ProcessType, Instance
  <1> DEFINE home == IF who # Unnamed THEN LevelRemoved(who, snap.home, dir) ELSE dir
             mode == ModeRestored(home)
  <1>2. dir' = IF others = {} THEN LevelRemoved(Unnamed, snap.root, mode) ELSE mode
    <2>1. PICK done \in SUBSET {"home", "mode", "root"} :
            /\ LET h == IF who # Unnamed /\ "home" \in done THEN LevelRemoved(who, snap.home, dir) ELSE dir
                   m == IF "mode" \in done THEN ModeRestored(h) ELSE h
               IN  dir' = IF others = {} /\ "root" \in done THEN LevelRemoved(Unnamed, snap.root, m) ELSE m
            /\ Cardinality(done) = 3
      BY <1>1 DEF UndoOptRoot
    <2>2. done = {"home", "mode", "root"}
      BY <2>1, AllThree
    <2>3. "home" \in done /\ "mode" \in done /\ "root" \in done
      BY <2>2
    <2>4. QED  BY <2>1, <2>3
  <1>3. /\ home \in [Instance -> Directory]
        /\ \A i \in Instance \ {who} : home[i] = dir[i]
        /\ home[who] = dir[who] \/ home[who] = NoDirectory
        /\ who # Unnamed => home[who].made # "ours"
        /\ who = Unnamed => home = dir
    <2>1. CASE who = Unnamed
      BY <1>1, <2>1
    <2>2. CASE who # Unnamed
      <3>1. home = LevelRemoved(who, snap.home, dir)
        BY <2>2
      <3>2. home \in [Instance -> Directory] /\ \A i \in Instance \ {who} : home[i] = dir[i]
        BY <1>1, <3>1, LevelRemovedType DEF Directories, LevelRemoved
      <3>3. home[who] = dir[who] \/ home[who] = NoDirectory
        BY <1>1, <3>1 DEF LevelRemoved
      <3>4. home[who].made # "ours"
        <4>1. SUFFICES ASSUME dir[who].made = "ours"  PROVE home[who] = NoDirectory
          BY <3>3 DEF NoDirectory
        <4>2. who \in Named
          BY <1>1, <2>2
        <4>3. snap.home = "CreatedByUs"
          BY <1>1, <4>1, <4>2 DEF Left, HomesLeft, Says, Held, Busy
        <4>4. cache[who] = "absent"
          BY <1>1, <4>1, NoCacheLeft
        <4>5. IsEmpty(who, dir)
          BY <2>2, <4>4 DEF IsEmpty
        <4>6. QED  BY <1>1, <3>1, <4>3, <4>5 DEF LevelRemoved
      <3>5. QED  BY <2>2, <3>2, <3>3, <3>4
    <2>3. QED  BY <2>1, <2>2
  <1>. HIDE DEF home
  <1>4. /\ \A i \in Instance \ {Unnamed} : mode[i] = home[i]
        /\ mode \in [Instance -> Directory]
        /\ \/ mode[Unnamed] = home[Unnamed]
           \/ /\ snap.before # "none" /\ home[Unnamed].mode = Widened(snap.before)
              /\ home[Unnamed].made # "absent" /\ mode[Unnamed].made = home[Unnamed].made
              /\ mode[Unnamed].owner = home[Unnamed].owner /\ mode[Unnamed].mode = snap.before
    <2>1. mode \in [Instance -> Directory]
      BY <1>3, ModeRestoredType DEF Directories
    <2>2. home[Unnamed] \in Directory
      BY <1>1, <1>3
    <2>3. QED  BY <1>1, <1>3, <2>1, <2>2 DEF ModeRestored, Directory
  <1>. HIDE DEF mode
  <1>5. /\ \A i \in Instance \ {Unnamed} : dir'[i] = mode[i]
        /\ dir'[Unnamed] = mode[Unnamed] \/ dir'[Unnamed] = NoDirectory
    BY <1>1, <1>2, <1>4 DEF LevelRemoved
  <1>6. home[Unnamed] = dir[Unnamed]
    BY <1>1, <1>3
  <1>7. ASSUME others = {}, snap.root = "CreatedByUs"  PROVE dir'[Unnamed].made # "ours"
    <2>1. SUFFICES ASSUME dir[Unnamed].made = "ours"  PROVE dir'[Unnamed] = NoDirectory
      <3>1. mode[Unnamed].made = dir[Unnamed].made
        BY <1>4, <1>6
      <3>2. QED  BY <1>5, <3>1 DEF NoDirectory
    <2>2. cache[Unnamed] = "absent"
      BY <1>1, <1>7, <2>1, NoCacheLeft
    <2>3. ASSUME NEW i \in Named  PROVE mode[i].made = "absent"
      <3>1. i \in Instance /\ i # Unnamed /\ mode[i] = home[i]
        BY <1>1, <1>4
      <3>2. CASE i = who
        <4>1. home[i].made # "ours" /\ (home[i] = dir[i] \/ home[i] = NoDirectory)
          BY <1>3, <3>1, <3>2
        <4>2. dir[i].made # "theirs"
          BY <1>1, <2>1, <3>1 DEF FoundOnce, Same
        <4>3. dir[i].made \in {"absent", "ours", "theirs"}
          BY <1>1, <3>1 DEF Directory, Whose
        <4>4. QED  BY <3>1, <4>1, <4>2, <4>3 DEF NoDirectory
      <3>3. CASE i # who
        BY <1>1, <1>3, <1>7, <2>1, <3>1, <3>3, NoHomeLeft
      <3>4. QED  BY <3>2, <3>3
    <2>4. IsEmpty(Unnamed, mode)
      BY <2>2, <2>3 DEF IsEmpty
    <2>5. dir' = [mode EXCEPT ![Unnamed] = NoDirectory]
      BY <1>2, <1>7, <2>4 DEF LevelRemoved
    <2>6. QED  BY <1>1, <1>4, <2>5
  <1>8. \A i \in Instance : dir'[i].made = dir[i].made \/ dir'[i] = NoDirectory
    BY <1>1, <1>3, <1>4, <1>5, <1>6
  <1>9. QED
    BY <1>1, <1>3, <1>4, <1>5, <1>6, <1>7, <1>8

LEMMA UndoOptRootLeft ==
    ASSUME TypeOK, TheirsInv, FoundOnce, Same, Orderly, Left, Good', UNCHANGED found, UndoOptRoot
    PROVE  Orderly' /\ Left'
  <1>1. /\ pc = "undo" /\ idx = 1 /\ Undone /\ UNCHANGED <<user, cache, logs, written>> /\ ~HeldBack
        /\ Unnamed \in Instance /\ Named \subseteq Instance /\ Unnamed \notin Named
        /\ Instance = Named \cup {Unnamed} /\ recorded \in SUBSET Steps
    BY InstanceAssumption DEF UndoOptRoot, Undoing, TypeOK, ProcessType, Instance
  <1>2. PICK w \in Instance : w = who
    BY DEF TypeOK, ProcessType
  <1>3. Orderly'
    BY <1>1, <1>2, UndoneOrderly
  <1>4. /\ \A i \in Instance \ {w, Unnamed} : dir'[i] = dir[i]
        /\ \A i \in Instance : dir'[i].made = dir[i].made \/ dir'[i] = NoDirectory
        /\ w # Unnamed => dir'[w].made # "ours" /\ (dir'[w] = dir[w] \/ dir'[w] = NoDirectory)
        /\ others = {} /\ snap.root = "CreatedByUs" => dir'[Unnamed].made # "ours"
        /\ \/ dir'[Unnamed] = dir[Unnamed] \/ dir'[Unnamed] = NoDirectory
           \/ /\ snap.before # "none" /\ dir[Unnamed].mode = Widened(snap.before)
              /\ dir[Unnamed].made # "absent" /\ dir'[Unnamed].made = dir[Unnamed].made
              /\ dir'[Unnamed].owner = dir[Unnamed].owner /\ dir'[Unnamed].mode = snap.before
    BY <1>2, RootUndone
  <1>5. /\ \A i \in Instance : UserAlike(i) /\ LogAlike(i) /\ CacheAlike(i) /\ (i # w => RootAlike(i))
        /\ Held(w) = snap /\ 1 \in Done(w)
    BY <1>1, <1>2, UndoneAlike
  <1>6. UsersLeft' /\ LogsLeft' /\ CachesLeft'
    BY <1>1, <1>5, UsersLeftStay, LogsLeftStay, CachesLeftStay DEF Left
  <1>7. \A i \in Instance : dir'[i].made = "ours" => dir[i].made = "ours"
    BY <1>4 DEF NoDirectory
  <1>8. Homeless' /\ Ready'
    <2>1. PICK K \in SUBSET recorded : UndoBelow(idx, K)
      BY <1>1 DEF Undone
    <2>2. who \in Named => dir'[who].made # "ours"
      BY <1>1, <1>2, <1>4
    <2>3. QED  BY <1>1, <1>7, <2>1, <2>2, HomelessStays DEF Left
  <1>9. others # {} => RootAlike(w)
    <2>1. others # {} => Scope(idx, w) = "Mixed"
      BY <1>1, <1>2 DEF HeldBack, Scope
    <2>2. others # {} => Keeps(w, Done(w))
      BY <1>1, <1>2, <2>1, UndoneView
    <2>3. QED  BY <2>2, KeepsAlike
  <1>10. HomesLeft'
    <2>1. ASSUME NEW i \in Named, dir'[i].made = "ours"  PROVE Says("home", i, OptRootStep)'
      <3>1. i # w /\ Says("home", i, OptRootStep)
        BY <1>1, <1>4, <1>7, <2>1 DEF Left, HomesLeft
      <3>2. QED  BY <1>1, <1>5, <3>1 DEF Says, RootAlike
    <2>2. ASSUME dir'[Unnamed].made = "ours"  PROVE \E i \in Instance : Says("root", i, OptRootStep)'
      <3>1. PICK i \in Instance : Says("root", i, OptRootStep)
        BY <1>1, <1>7, <2>2 DEF Left, HomesLeft
      <3>2. RootAlike(i)
        <4>1. i = w => snap.root = "CreatedByUs"
          BY <1>5, <3>1 DEF Says
        <4>2. QED  BY <1>4, <1>5, <1>9, <2>2, <4>1
      <3>3. Says("root", i, OptRootStep)'
        BY <3>1, <3>2 DEF Says, RootAlike
      <3>4. QED  BY <3>3
    <2>3. ASSUME NEW i \in Instance, OptRootStep \in Done(i)'
          PROVE  Held(i)'.before \in {"none", "750"}
      <3>1. RootAlike(i)
        <4>1. i = w /\ others = {} => Keeps(w, Done(w) \ {idx})
          BY <1>1, <1>2, UndoneView
        <4>2. i = w => others # {}
          BY <1>1, <2>3, <4>1 DEF Keeps
        <4>3. QED  BY <1>5, <1>9, <4>2
      <3>2. QED  BY <2>3, <3>1 DEF Left, HomesLeft, RootAlike
    <2>4. QED  BY <2>1, <2>2, <2>3 DEF HomesLeft
  <1>11. HomesBack'
    <2>1. \A i \in Instance : user[i] = "ours" =>
             Held(i)'.owner = Held(i).owner /\ Held(i)'.mode = Held(i).mode
      BY <1>5 DEF Left, UsersLeft, Says, UserAlike
    <2>2. Bits' = Bits
      BY DEF Bits, LeftWith
    <2>3. \/ dir'[Unnamed] = dir[Unnamed] \/ dir'[Unnamed] = NoDirectory
          \/ /\ dir[Unnamed].mode = "751" /\ dir'[Unnamed].mode = "750"
             /\ dir[Unnamed].made # "absent" /\ dir'[Unnamed].made = dir[Unnamed].made
             /\ dir'[Unnamed].owner = dir[Unnamed].owner
      <3>1. snap.before \in {"none", "750"} /\ Widened("750") = "751"
        BY <1>5 DEF Left, HomesLeft, Widened
      <3>2. QED  BY <1>4, <3>1
    <2>4. \A i \in Instance \ {Unnamed} : dir'[i] = dir[i] \/ dir'[i] = NoDirectory
      BY <1>4
    <2>5. \A i \in Instance : dir'[i].made = "absent" => dir'[i] = NoDirectory
      BY <2>3, <2>4 DEF Left, HomesBack
    <2>6. ASSUME NEW i \in Named, dir'[i].made = "theirs"
          PROVE  IF user'[i] = "ours"
                 THEN Held(i)'.owner = found'.dir[i].owner /\ Held(i)'.mode = found'.dir[i].mode
                 ELSE dir'[i] = found'.dir[i]
      <3>1. dir'[i] = dir[i]
        BY <1>1, <2>4, <2>6 DEF NoDirectory
      <3>2. QED  BY <1>1, <2>1, <2>6, <3>1 DEF Left, HomesBack
    <2>7. ASSUME dir'[Unnamed].made = "theirs"
          PROVE  IF user'[Unnamed] = "ours"
                 THEN /\ Held(Unnamed)'.owner = found'.dir[Unnamed].owner /\ Held(Unnamed)'.mode \in Bits'
                      /\ dir'[Unnamed].mode \in Bits' \cup {"750", "751"}
                 ELSE dir'[Unnamed].owner = found'.dir[Unnamed].owner /\ dir'[Unnamed].mode \in Bits'
      <3>1. dir[Unnamed].made = "theirs" /\ dir'[Unnamed] # NoDirectory
        BY <2>3, <2>7 DEF NoDirectory
      <3>2. "751" \in Bits => "750" \in Bits
        BY BitsAre
      <3>3. QED  BY <1>1, <2>1, <2>2, <2>3, <3>1, <3>2 DEF Left, HomesBack
    <2>8. QED  BY <2>5, <2>6, <2>7 DEF HomesBack
  <1>12. QED  BY <1>3, <1>6, <1>8, <1>10, <1>11 DEF Left

-----------------------------------------------------------------------------
(* The machine put back.                                                     *)

LEMMA InitRest == Init => RestInv
  <1> SUFFICES ASSUME Init  PROVE RestInv
    OBVIOUS
  <1>1. TheirsInv /\ TypeOK
    BY InitKeeps, InitType
  <1>2. /\ pc = "idle" /\ man = [i \in Instance |-> NoManifest] /\ remains = {} /\ found.dir = dir
        /\ found.user = user /\ found.cache = cache /\ found.logs = logs
        /\ Unnamed \in Instance /\ Named \subseteq Instance
    BY DEF Init, Start, Instance
  <1>3. /\ user \in [Instance -> {"absent", "theirs"}] /\ cache \in [Instance -> {"absent", "theirs"}]
        /\ logs \in [LogDirs -> {"absent", "theirs"}]
        /\ \A i \in Instance : cache[i] = "theirs" => dir[i].owner = i
    BY DEF Init
  <1>4. /\ \A i \in Named : /\ dir[i].made # "ours"
                            /\ dir[i] # NoDirectory => dir[Unnamed] # NoDirectory
                            /\ dir[i].made = "absent" => dir[i] = NoDirectory
        /\ dir[Unnamed] = NoDirectory \/ (dir[Unnamed].made = "theirs" /\ dir[Unnamed].mode \in FoundModes)
    <2>1. PICK root \in Roots(user) : \E h \in Homes(root, user) :
            dir = [i \in Instance |-> IF i = Unnamed THEN root ELSE h[i]]
      BY DEF Init
    <2>2. PICK h \in Homes(root, user) : dir = [i \in Instance |-> IF i = Unnamed THEN root ELSE h[i]]
      BY <2>1
    <2>3. dir[Unnamed] = root /\ \A i \in Named : dir[i] = h[i]
      BY <1>2, <2>2, InstanceAssumption
    <2>4. root = NoDirectory \/ (root.made = "theirs" /\ root.mode \in FoundModes)
      BY DEF Roots
    <2>5. \A i \in Named : /\ h[i] = NoDirectory \/ h[i].made = "theirs"
                           /\ h[i] # NoDirectory => root # NoDirectory
      BY DEF Homes
    <2>6. QED  BY <2>3, <2>4, <2>5 DEF NoDirectory
  <1>5. /\ \A i \in Instance : ~Busy(i) /\ man[i].steps = {} /\ man[i].snap = Default /\ ~man[i].finished
        /\ \A i \in Instance : Done(i) = {}
    BY <1>2 DEF Busy, NoManifest, Done
  <1>6. FoundOnce
    <2>1. \A i \in Instance : dir[i].made # "ours" /\ (dir[i].made = "absent" => dir[i] = NoDirectory)
      BY <1>4 DEF Instance, NoDirectory
    <2>2. \A i \in Instance : cache[i] = "theirs" => dir[i].made = "theirs"
      <3>1. SUFFICES ASSUME NEW i \in Instance, dir[i].owner = i  PROVE dir[i].made = "theirs"
        BY <1>3
      <3>2. dir[i] # NoDirectory
        BY <3>1, InstanceAssumption DEF NoDirectory
      <3>3. dir[i].made \in {"absent", "ours", "theirs"}
        BY <1>1 DEF TypeOK, WorldType, Directory, Whose
      <3>4. QED  BY <2>1, <3>2, <3>3
    <2>3. \A i \in Named : dir[i].made = "theirs" => dir[Unnamed].made = "theirs"
      BY <1>4 DEF NoDirectory
    <2>4. QED  BY <1>2, <1>3, <2>1, <2>2, <2>3 DEF FoundOnce
  <1>7. Same
    BY <1>2 DEF Same
  <1>8. Orderly
    BY <1>2, <1>5 DEF Orderly
  <1>9. HomesLeft /\ UsersLeft /\ LogsLeft /\ CachesLeft
    BY <1>2, <1>3, <1>4, <1>5 DEF HomesLeft, UsersLeft, LogsLeft, CachesLeft, Says, NoDirectory
  <1>10. HomesBack
    <2>1. \A i \in Instance : dir[i].made = "absent" => dir[i] = NoDirectory
      BY <1>2, <1>6 DEF FoundOnce
    <2>2. dir[Unnamed].mode \in Bits
      BY <1>1, <1>2 DEF Bits, LeftWith, TypeOK, WorldType, Directory, Mode
    <2>3. \A i \in Instance : user[i] # "ours"
      BY <1>3
    <2>4. QED  BY <1>2, <2>1, <2>2, <2>3 DEF HomesBack
  <1>11. Homeless /\ Ready
    BY <1>2 DEF Homeless, Ready
  <1>12. QED
    BY <1>1, <1>6, <1>7, <1>8, <1>9, <1>10, <1>11 DEF RestInv, Left

\* Without faults a process does not die.
LEMMA NextLeft ==
    ASSUME RestInv, Next, Good, Good'
    PROVE  Orderly' /\ Left'
  <1>1. TypeOK /\ TheirsInv /\ FoundOnce /\ Same /\ Orderly /\ Left /\ UNCHANGED found
    BY FoundIsFixed DEF RestInv, TheirsInv
  <1>2. ~Skip /\ ~Die
    <2>1. ~Fault
      BY <1>1, NoFault
    <2>2. QED  BY <1>1, <2>1, NoSkip DEF Die, Dies
  <1>3. CASE \E i \in Instance : Install(i) \/ Rollback(i)
    BY <1>1, <1>3, BeginsLeft
  <1>4. CASE Stops \/ LeaveShared
    BY <1>1, <1>4, StopsLeft
  <1>5. CASE Finish
    BY <1>1, <1>5, FinishLeft
  <1>6. CASE SnapshotOptRoot \/ SnapshotUser \/ SnapshotLogDir \/ SnapshotCacheDir
    BY <1>1, <1>6, SnapshotsLeft
  <1>7. CASE RunOptRoot \/ RunUser \/ RunLogDir \/ RunCacheDir
    BY <1>1, <1>7, RunsLeft
  <1>8. CASE RunHalfway \/ RunFails
    BY <1>1, <1>8, FailuresLeft
  <1>9. CASE UndoOptRoot \/ UndoUser \/ UndoLogDir \/ UndoCacheDir
    BY <1>1, <1>9, UndoOptRootLeft, UndoUserLeft, UndoLogDirLeft, UndoCacheDirLeft
  <1>10. QED
    BY <1>2, <1>3, <1>4, <1>5, <1>6, <1>7, <1>8, <1>9 DEF Next

LEMMA NextRest ==
    ASSUME OneLogFile  PROVE RestInv /\ [Next]_vars => RestInv'
  <1> SUFFICES ASSUME RestInv, [Next]_vars  PROVE RestInv'
    OBVIOUS
  <1>1. TypeOK /\ TheirsInv
    BY DEF RestInv, TheirsInv
  <1>2. TheirsInv'
    BY <1>1, NextKeeps
  <1>3. CASE UNCHANGED vars
    <2>1. (FoundOnce /\ Same)'
      BY <1>3 DEF RestInv, vars, world, FoundOnce, Same
    <2>2. Good' => Good
      BY <1>3 DEF Good, vars
    <2>3. Good => Orderly'
      BY <1>3 DEF RestInv, vars, process, Orderly, LiveOthers, IsLive, Busy
    <2>4. Good => Left'
      BY <1>3 DEF RestInv, vars, process, world, Left, HomesLeft, UsersLeft, LogsLeft, CachesLeft,
                  HomesBack, Bits, LeftWith, Homeless, Ready, Says, Done, Held, LogFileOf, Busy, There
    <2>5. QED  BY <1>2, <2>1, <2>2, <2>3, <2>4 DEF RestInv
  <1>4. CASE Next
    <2>1. UNCHANGED found
      BY <1>4, FoundIsFixed
    <2>2. FoundOnce'
      BY <2>1 DEF RestInv, FoundOnce
    <2>3. Same'
      BY <1>2, <1>4, <2>1, SameStays DEF RestInv
    <2>4. Good' => Good
      BY <1>1, GoodBefore
    <2>5. Good' => Orderly' /\ Left'
      BY <1>4, <2>4, NextLeft
    <2>6. QED  BY <1>2, <2>2, <2>3, <2>5 DEF RestInv
  <1>5. QED  BY <1>3, <1>4

\* What an installation made is in some manifest, in whatever order instances
\* fail and go, but for what a failed step could not record.
THEOREM OptRootLeftoversAreRecorded ==
    ASSUME OneLogFile  PROVE Spec => []LeftoversAreRecorded
  <1>1. Init => RestInv
    BY InitRest
  <1>2. RestInv /\ [Next]_vars => RestInv'
    BY NextRest
  <1>3. RestInv => LeftoversAreRecorded
    <2>1. SUFFICES ASSUME RestInv, pc = "idle", Good
                   PROVE  /\ \A i \in Instance :
                                /\ dir[i].made = "ours" =>
                                      \E j \in Instance : \/ i = Unnamed /\ Claimed("root", j, OptRootStep)
                                                          \/ i = j /\ Claimed("home", j, OptRootStep)
                                /\ user[i] = "ours" => Claimed("user", i, UserStep)
                                /\ cache[i] = "ours" => Claimed("cache", i, CacheDirStep)
                          /\ \A d \in LogDirs \ written :
                                logs[d] = "ours" =>
                                   \E i \in Instance : Claimed("log", i, LogDirStep) /\ man[i].args = d
      BY DEF LeftoversAreRecorded, Good
    <2>2. Left
      BY <2>1 DEF RestInv
    <2>3. \A i \in Instance : \A f, k : Says(f, i, k) => Claimed(f, i, k)
      BY <2>1 DEF Says, Claimed, Done, Held, Busy
    <2>4. \A i \in Instance : LogFileOf(i) = man[i].args
      BY <2>1 DEF LogFileOf, Busy
    <2>5. ASSUME NEW i \in Instance, dir[i].made = "ours"
          PROVE  \E j \in Instance : \/ i = Unnamed /\ Claimed("root", j, OptRootStep)
                                     \/ i = j /\ Claimed("home", j, OptRootStep)
      <3>1. CASE i = Unnamed
        BY <2>2, <2>3, <2>5, <3>1 DEF Left, HomesLeft
      <3>2. CASE i # Unnamed
        <4>1. i \in Named
          BY <3>2 DEF Instance
        <4>2. Claimed("home", i, OptRootStep)
          BY <2>2, <2>3, <2>5, <4>1 DEF Left, HomesLeft
        <4>3. QED  BY <4>2
      <3>3. QED  BY <3>1, <3>2
    <2>6. \A i \in Instance : /\ user[i] = "ours" => Claimed("user", i, UserStep)
                              /\ cache[i] = "ours" => Claimed("cache", i, CacheDirStep)
      BY <2>2, <2>3 DEF Left, UsersLeft, CachesLeft
    <2>7. \A d \in LogDirs \ written :
             logs[d] = "ours" => \E i \in Instance : Claimed("log", i, LogDirStep) /\ man[i].args = d
      BY <2>2, <2>3, <2>4 DEF Left, LogsLeft
    <2>8. QED  BY <2>5, <2>6, <2>7
  <1>4. QED  BY <1>1, <1>2, <1>3, PTL DEF Spec

\* When the last manifest is gone, every directory is back as it was found, with
\* its owner and its mode, but for the traversal bit of the shared root, which
\* may stay, or go with a root found 0751.
THEOREM OptRootRemovedMeansRestored ==
    ASSUME OneLogFile
    PROVE  Spec => []RemovedMeansRestored
  <1>1. Init => RestInv
    BY InitRest
  <1>2. RestInv /\ [Next]_vars => RestInv'
    BY NextRest
  <1>3. RestInv => RemovedMeansRestored
    <2>1. SUFFICES ASSUME RestInv, pc = "idle", Good, \A i \in Instance : man[i].steps = {}
                   PROVE  /\ user = found.user /\ cache = found.cache
                          /\ \E mode \in LeftWith(found.dir[Unnamed].mode) :
                                dir = [found.dir EXCEPT ![Unnamed].mode = mode]
      BY DEF RemovedMeansRestored, AllRemoved, Good
    <2>2. Left /\ Same /\ FoundOnce /\ TheirsInv
      BY <2>1 DEF RestInv
    <2>3. \A i \in Instance : \A f, k : ~Says(f, i, k)
      BY <2>1 DEF Says, Done, Busy
    <2>4. /\ dir \in [Instance -> Directory] /\ found.dir \in [Instance -> Directory]
          /\ user \in [Instance -> Whose] /\ found.user \in [Instance -> Whose]
          /\ cache \in [Instance -> Whose] /\ found.cache \in [Instance -> Whose]
          /\ Unnamed \in Instance /\ Instance = Named \cup {Unnamed} /\ Unnamed \notin Named
      BY <2>2, InstanceAssumption DEF TheirsInv, TypeOK, WorldType, FoundType, Instance
    <2>5. \A i \in Instance : user[i] # "ours" /\ cache[i] # "ours" /\ dir[i].made # "ours"
      BY <2>2, <2>3, <2>4 DEF Left, HomesLeft, UsersLeft, CachesLeft
    <2>6. user = found.user
      <3>1. \A i \in Instance : user[i] = found.user[i]
        BY <2>2, <2>4, <2>5 DEF Same, FoundOnce, Whose
      <3>2. QED  BY <2>4, <3>1
    <2>7. cache = found.cache
      <3>1. \A i \in Instance : cache[i] = found.cache[i]
        BY <2>2, <2>4, <2>5 DEF Same, FoundOnce, Whose
      <3>2. QED  BY <2>4, <3>1
    <2>8. \A i \in Instance : /\ dir[i].made = found.dir[i].made
                              /\ dir[i].made = "absent" => dir[i] = found.dir[i]
      <3>1. \A i \in Instance : dir[i].made \in {"absent", "ours", "theirs"}
                                /\ found.dir[i].made \in {"absent", "ours", "theirs"}
        BY <2>4 DEF Directory, Whose
      <3>2. QED  BY <2>2, <2>5, <3>1 DEF Same, FoundOnce, Left, HomesBack
    <2>9. \A i \in Named : dir[i] = found.dir[i]
      <3>1. \A i \in Named : dir[i].made = "absent" \/ dir[i].made = "theirs"
        BY <2>4, <2>5 DEF Directory, Whose
      <3>2. QED  BY <2>2, <2>4, <2>5, <2>8, <3>1 DEF Left, HomesBack
    <2>10. PICK bit \in LeftWith(found.dir[Unnamed].mode) :
             dir[Unnamed].mode = bit /\ dir[Unnamed].owner = found.dir[Unnamed].owner
      <3>1. CASE dir[Unnamed].made = "absent"
        BY <2>4, <2>8, <3>1 DEF LeftWith, Directory, Mode
      <3>2. CASE dir[Unnamed].made = "theirs"
        BY <2>2, <2>4, <2>5, <3>2 DEF Left, HomesBack, Bits
      <3>3. QED  BY <2>4, <2>5, <3>1, <3>2 DEF Directory, Whose
    <2>11. dir = [found.dir EXCEPT ![Unnamed].mode = bit]
      <3>1. dir[Unnamed] \in Directory /\ found.dir[Unnamed] \in Directory
        BY <2>4
      <3>2. dir[Unnamed] = [found.dir[Unnamed] EXCEPT !.mode = bit]
        BY <2>4, <2>8, <2>10, <3>1 DEF Directory
      <3>3. \A i \in Instance : dir[i] = [found.dir EXCEPT ![Unnamed].mode = bit][i]
        BY <2>4, <2>9, <3>2
      <3>4. QED  BY <2>4, <3>3
    <2>12. QED  BY <2>6, <2>7, <2>11
  <1>4. QED  BY <1>1, <1>2, <1>3, PTL DEF Spec

-----------------------------------------------------------------------------
(* A rollback and the others on the machine, with faults or without.         *)

\* While a process is at work the others are those it found when it began.
Current == pc # "idle" => others = LiveOthers(who)

LEMMA NextCurrent == TypeOK /\ Current /\ [Next]_vars => Current'
  <1> SUFFICES ASSUME TypeOK, Current, [Next]_vars  PROVE Current'
    OBVIOUS
  <1>1. man \in [Instance -> Manifests] /\ who \in Instance
    BY DEF TypeOK, ProcessType, Manifests
  <1>2. \/ UNCHANGED <<pc, who, others, man>>
        \/ pc' = "idle"
        \/ \E i \in Instance : who' = i /\ others' = LiveOthers(i) /\ UNCHANGED man
        \/ /\ pc # "idle" /\ UNCHANGED <<who, others>>
           /\ man' = man \/ \E m : man' = [man EXCEPT ![who] = m]
    <2>1. CASE UNCHANGED vars
      BY <2>1 DEF vars, process
    <2>2. CASE \E i \in Instance : Install(i) \/ Rollback(i)
      BY <2>2 DEF Install, Rollback, Begin, BeginRollback, Take
    <2>3. CASE Stops \/ LeaveShared \/ Skip
      BY <2>3 DEF Stops, LeaveShared, UndoBelow, Exit, Skip
    <2>4. CASE Finish \/ Die
      BY <2>4 DEF Finish, Finished, Die, Dies, Exit
    <2>5. CASE SnapshotOptRoot \/ SnapshotUser \/ SnapshotLogDir \/ SnapshotCacheDir
      BY <2>5 DEF SnapshotOptRoot, SnapshotUser, SnapshotLogDir, SnapshotCacheDir, Snapshotted, At
    <2>6. CASE RunOptRoot \/ RunUser \/ RunLogDir \/ RunCacheDir
      BY <2>6 DEF RunOptRoot, RunUser, RunLogDir, RunCacheDir, Running, Ran
    <2>7. CASE RunHalfway \/ RunFails
      BY <2>7 DEF RunHalfway, RunFails, Failed
    <2>8. CASE UndoOptRoot \/ UndoUser \/ UndoLogDir \/ UndoCacheDir
      BY <2>8 DEF UndoOptRoot, UndoUser, UndoLogDir, UndoCacheDir, Undoing, Undone, UndoBelow, Exit
    <2>9. QED
      BY <2>1, <2>2, <2>3, <2>4, <2>5, <2>6, <2>7, <2>8 DEF Next
  <1>3. CASE UNCHANGED <<pc, who, others, man>>
    BY <1>3 DEF Current, LiveOthers, IsLive
  <1>4. CASE pc' = "idle"
    BY <1>4 DEF Current
  <1>5. CASE \E i \in Instance : who' = i /\ others' = LiveOthers(i) /\ UNCHANGED man
    BY <1>5 DEF Current, LiveOthers, IsLive
  <1>6. CASE /\ pc # "idle" /\ UNCHANGED <<who, others>>
             /\ man' = man \/ \E m : man' = [man EXCEPT ![who] = m]
    <2>1. \A j \in Instance \ {who} : man'[j] = man[j]
      BY <1>1, <1>6
    <2>2. LiveOthers(who)' = LiveOthers(who)
      BY <1>6, <2>1 DEF LiveOthers, IsLive
    <2>3. QED  BY <1>6, <2>2 DEF Current
  <1>7. QED  BY <1>2, <1>3, <1>4, <1>5, <1>6

\* What an undo changes of the shared root and of the home of another live one.
LEMMA UndoneNextDoor ==
    ASSUME TypeOK, Current, Next, pc = "undo", NEW i \in Instance \ {who}, IsLive(i)
    PROVE  /\ dir'[i].made = dir[i].made /\ dir'[Unnamed].made = dir[Unnamed].made
           /\ i # Unnamed => dir'[Unnamed].mode = dir[Unnamed].mode
  <1>1. /\ dir \in [Instance -> Directory] /\ snap \in Snapshots /\ who \in Instance /\ Unnamed \in Instance
    BY DEF TypeOK, WorldType, ProcessType, Instance
  <1>2. i \in others /\ (i # Unnamed => i \in others \cap Named)
    BY DEF Current, LiveOthers, Instance
  <1>3. CASE UNCHANGED dir
    BY <1>3
  <1>4. CASE UndoOptRoot
    <2>1. who # Unnamed
      BY <1>2, <1>4 DEF UndoOptRoot, Undoing, HeldBack, Scope
    <2>2. PICK home, done :
             /\ home \in Directories
             /\ home = IF "home" \in done THEN LevelRemoved(who, snap.home, dir) ELSE dir
             /\ dir' = IF "mode" \in done THEN ModeRestored(home) ELSE home
      <3>1. PICK done \in SUBSET {"home", "mode", "root"} :
               LET home == IF who # Unnamed /\ "home" \in done THEN LevelRemoved(who, snap.home, dir) ELSE dir
                   mode == IF "mode" \in done THEN ModeRestored(home) ELSE home
               IN  dir' = IF others = {} /\ "root" \in done THEN LevelRemoved(Unnamed, snap.root, mode) ELSE mode
        BY <1>4 DEF UndoOptRoot
      <3>2. PICK home \in Directories :
               home = IF "home" \in done THEN LevelRemoved(who, snap.home, dir) ELSE dir
        BY <1>1, LevelRemovedType DEF Directories
      <3>3. QED  BY <1>2, <2>1, <3>1, <3>2
    <2>3. home[i] = dir[i] /\ home[Unnamed] = dir[Unnamed]
      BY <1>1, <2>1, <2>2 DEF LevelRemoved
    <2>4. CASE ModeRestored(home) = home \/ "mode" \notin done
      BY <2>2, <2>3, <2>4
    <2>5. CASE ModeRestored(home) # home /\ "mode" \in done
      <3>1. ~TraversedByOthers /\ dir' = [home EXCEPT ![Unnamed].mode = snap.before]
        BY <2>2, <2>5 DEF ModeRestored
      <3>2. i = Unnamed
        BY <1>2, <3>1 DEF TraversedByOthers
      <3>3. dir'[Unnamed].made = home[Unnamed].made
        BY <1>1, <2>2, <3>1 DEF Directories, Directory
      <3>4. QED  BY <2>3, <3>2, <3>3
    <2>6. QED  BY <2>4, <2>5
  <1>5. CASE UndoUser
    <2>1. who # Unnamed
      BY <1>2, <1>5 DEF UndoUser, Undoing, HeldBack, Scope
    <2>2. dir' = dir \/ dir' = HomeGivenBack
      BY <1>5 DEF UndoUser
    <2>3. \A j \in Instance \ {who} : HomeGivenBack[j] = dir[j]
      BY <1>1 DEF HomeGivenBack
    <2>4. QED  BY <1>1, <2>1, <2>2, <2>3
  <1>6. UNCHANGED dir \/ UndoOptRoot \/ UndoUser
    BY DEF Next, Install, Rollback, Begin, BeginRollback, Stops, Skip, Finish, Finished, At,
           SnapshotOptRoot, SnapshotUser, SnapshotLogDir, SnapshotCacheDir, RunOptRoot, RunUser,
           RunLogDir, RunCacheDir, Running, RunHalfway, RunFails, LeaveShared, UndoLogDir,
           UndoCacheDir, Die, world
  <1>7. QED  BY <1>3, <1>4, <1>5, <1>6

\* A rollback, of a failed installation or of a whole one, leaves every other
\* live instance its home and the way to it, whatever faults there are: the root
\* and its traversal bit belong to those who live below it.
THEOREM OptRootShutsNobodyOut == Spec => RollbackShutsNobodyOut
  <1>1. Init => TypeOK /\ Current
    BY InitType DEF Init, Start, Current
  <1>2. TypeOK /\ Current /\ [Next]_vars => TypeOK' /\ Current'
    BY NextType, NextCurrent
  <1>3. TypeOK /\ Current /\ [Next]_vars
          => [pc = "undo" => \A i \in Instance \ {who} :
                 IsLive(i) /\ CanReachHome(i) => CanReachHome(i)']_vars
    <2> SUFFICES ASSUME TypeOK, Current, Next, pc = "undo", NEW i \in Instance \ {who},
                        IsLive(i), CanReachHome(i)
                 PROVE  CanReachHome(i)'
      BY DEF vars
    <2>1. QED  BY UndoneNextDoor DEF CanReachHome, CanWalkIn, There, Open
  <1>4. QED  BY <1>1, <1>2, <1>3, PTL DEF Spec, RollbackShutsNobodyOut

=============================================================================
