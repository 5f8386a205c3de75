--------------------------- MODULE SoftwareProofs ---------------------------
(***************************************************************************)
(* Theorems about Software, for every set of instances, packages, names    *)
(* and groups, every machine they may find and every bound.                *)
(***************************************************************************)
EXTENDS Software, TLAPS, FiniteSetTheorems, WellFoundedInduction

Manifests == [steps : SUBSET Steps, snap : Snapshots, finished : BOOLEAN, args : {"none"}]

ProcessOK == ProcessType(Snapshots, {"none"})

USE DEF DirectoryStep, BootstrapStep, LibrariesStep, WkhtmltopdfStep, CloneStep, VenvStep, RequirementsStep

-----------------------------------------------------------------------------
(* The operators of Commands.                                              *)

\* The greatest of some steps.
LEMMA MaxIn ==
    ASSUME NEW S \in SUBSET Steps, S # {}
    PROVE  Max(S) \in S /\ \A n \in S : n <= Max(S)
  <1>1. S \subseteq {1, 2, 3, 4, 5, 6, 7}
    BY DEF Steps
  <1>2. \E m \in S : \A n \in S : m >= n
    <2>1. CASE 7 \in S  BY <1>1, <2>1
    <2>2. CASE 7 \notin S /\ 6 \in S  BY <1>1, <2>2
    <2>3. CASE 7 \notin S /\ 6 \notin S /\ 5 \in S  BY <1>1, <2>3
    <2>4. CASE 7 \notin S /\ 6 \notin S /\ 5 \notin S /\ 4 \in S  BY <1>1, <2>4
    <2>5. CASE 7 \notin S /\ 6 \notin S /\ 5 \notin S /\ 4 \notin S /\ 3 \in S  BY <1>1, <2>5
    <2>6. CASE 7 \notin S /\ 6 \notin S /\ 5 \notin S /\ 4 \notin S /\ 3 \notin S /\ 2 \in S  BY <1>1, <2>6
    <2>7. CASE 7 \notin S /\ 6 \notin S /\ 5 \notin S /\ 4 \notin S /\ 3 \notin S /\ 2 \notin S /\ 1 \in S  BY <1>1, <2>7
    <2>8. QED  BY <1>1, <2>1, <2>2, <2>3, <2>4, <2>5, <2>6, <2>7
  <1>3. QED  BY <1>2 DEF Max

\* The snapshot of no step is a snapshot, and so is what some records keep of one.
LEMMA DefaultType == Default \in Snapshots
  BY DEF Default, Snapshots, PreState

LEMMA RecordsType ==
    ASSUME NEW s \in Snapshots, NEW K \in SUBSET Steps
    PROVE  Records(s, K) \in Snapshots
  BY DefaultType DEF Records, Snapshots, Default

LEMMA NoManifestType == NoManifest \in Manifests
  BY DefaultType DEF NoManifest, Kept, Manifests

\* A manifest that is written is one.
LEMMA ManifestType ==
    ASSUME ProcessOK, NEW s \in Snapshots, NEW K \in SUBSET Steps, NEW done \in BOOLEAN
    PROVE  Manifest(s, K, done) \in Manifests
  <1>1. man[who] \in Manifests
    BY DEF ProcessOK, ProcessType, Manifests
  <1>2. Records(s, K) \in Snapshots
    BY RecordsType
  <1>3. args = "none"
    BY DEF ProcessOK, ProcessType
  <1>4. QED
    BY <1>1, <1>2, <1>3, NoManifestType DEF Manifest, Manifests, Kept

LEMMA StartType ==
    ASSUME Start  PROVE ProcessOK
  <1>1. man \in [Instance -> Manifests]
    BY NoManifestType DEF Start
  <1>2. 0 \in 0 .. MaxFaults
    BY BoundsAssumption
  <1>3. who \in Instance
    BY InstanceAssumption DEF Start
  <1>4. /\ pc \in {"idle", "snapshot", "run", "undo"} /\ idx \in 1 .. RequirementsStep + 1
        /\ pc \notin {"run", "undo"} /\ recorded \subseteq Steps /\ others \subseteq Instance \ {who}
    BY DEF Start
  <1>5. /\ snap \in Snapshots /\ remains \subseteq Instance
        /\ spoilt \in BOOLEAN /\ faults \in 0 .. MaxFaults /\ args = "none"
    BY <1>2, DefaultType DEF Start
  <1>6. QED
    BY <1>1, <1>3, <1>4, <1>5 DEF ProcessOK, ProcessType, Manifests

\* A process that takes its manifest over.
LEMMA TakeType ==
    ASSUME ProcessOK, NEW i \in Instance, Take(i, "none")
    PROVE  /\ who' \in Instance /\ snap' \in Snapshots /\ recorded' \subseteq Steps
           /\ others' \subseteq Instance \ {who'} /\ args' = "none"
  <1>1. man[i] \in Manifests
    BY DEF ProcessOK, ProcessType, Manifests
  <1>2. QED
    BY <1>1 DEF Take, Manifests, LiveOthers

\* The next undo, or the end of the process.
LEMMA UndoBelowType ==
    ASSUME ProcessOK, NEW k, NEW K \in SUBSET Steps, UndoBelow(k, K),
           spoilt' \in BOOLEAN, faults' \in 0 .. MaxFaults
    PROVE  ProcessOK'
  <1> DEFINE todo == {j \in K : j < k}
  <1>1. CASE todo = {}
    <2>1. Manifest(snap, K, FALSE) \in Manifests
      BY ManifestType DEF ProcessOK, ProcessType
    <2>2. man' \in [Instance -> Manifests]
      <3>1. man \in [Instance -> Manifests]
        BY DEF ProcessOK, ProcessType, Manifests
      <3>2. man' = [man EXCEPT ![who] = Manifest(snap, K, FALSE)]
        BY <1>1 DEF UndoBelow
      <3>3. QED  BY <2>1, <3>1, <3>2
    <2>3. QED
      BY <1>1, <2>2, DefaultType, InstanceAssumption DEF UndoBelow, Exit, ProcessOK, ProcessType, Manifests, Steps
  <1>2. CASE todo # {}
    <2>1. Max(todo) \in Steps
      BY <1>2, MaxIn
    <2>2. idx' = Max(todo)
      BY <1>2 DEF UndoBelow
    <2>. HIDE DEF todo
    <2>5. idx' \in Steps /\ idx' \in 1 .. RequirementsStep + 1
      BY <2>1, <2>2 DEF Steps
    <2>3. /\ pc' = "undo" /\ recorded' \subseteq Steps
          /\ UNCHANGED <<who, snap, others, args, man, remains>>
      BY <1>2 DEF UndoBelow, todo
    <2>4. QED
      BY <2>3, <2>5 DEF ProcessOK, ProcessType
  <1>3. QED  BY <1>1, <1>2

\* The actions of Commands.
LEMMA BeginType ==
    ASSUME ProcessOK, NEW i \in Instance, Begin(i, "none") \/ BeginRollback(i, "none")
    PROVE  ProcessOK'
  <1>1. Take(i, "none")
    BY DEF Begin, BeginRollback
  <1>2. /\ who' \in Instance /\ snap' \in Snapshots /\ recorded' \subseteq Steps
        /\ others' \subseteq Instance \ {who'} /\ args' = "none"
    BY <1>1, TakeType
  <1>3. CASE Begin(i, "none")
    BY <1>2, <1>3 DEF Begin, ProcessOK, ProcessType, Steps
  <1>4. CASE BeginRollback(i, "none")
    <2>1. man[i].steps \in SUBSET Steps
      BY DEF ProcessOK, ProcessType
    <2>2. Max(man[i].steps) \in Steps
      BY <1>4, <2>1, MaxIn DEF BeginRollback
    <2>3. QED
      BY <1>2, <1>4, <2>2 DEF BeginRollback, ProcessOK, ProcessType, Steps
  <1>5. QED  BY <1>3, <1>4

LEMMA StopsType ==
    ASSUME ProcessOK, Stops  PROVE ProcessOK'
  BY UndoBelowType DEF Stops, ProcessOK, ProcessType

LEMMA SkipType ==
    ASSUME ProcessOK, Skip  PROVE ProcessOK'
  BY DEF Skip, ProcessOK, ProcessType, Steps

LEMMA FinishedType ==
    ASSUME ProcessOK, Finished  PROVE ProcessOK'
  <1>1. man' \in [Instance -> Manifests]
    <2>1. man[who] \in Manifests
      BY DEF ProcessOK, ProcessType, Manifests
    <2>2. [man[who] EXCEPT !.finished = TRUE] \in Manifests
      BY <2>1 DEF Manifests
    <2>3. QED
      BY <2>2 DEF Finished, ProcessOK, ProcessType, Manifests
  <1>2. QED
    BY <1>1, DefaultType, InstanceAssumption DEF Finished, Exit, ProcessOK, ProcessType, Manifests, Steps

LEMMA SnapshottedType ==
    ASSUME ProcessOK, NEW s \in Snapshots, idx \in Steps, Snapshotted(s)
    PROVE  ProcessOK'
  BY DEF Snapshotted, ProcessOK, ProcessType

LEMMA RanType ==
    ASSUME ProcessOK, pc = "run", snap' \in Snapshots, Ran
    PROVE  ProcessOK'
  <1>1. recorded' \in SUBSET Steps
    BY DEF Ran, ProcessOK, ProcessType
  <1>2. Manifest(snap', recorded', FALSE) \in Manifests
    BY <1>1, ManifestType
  <1>3. man' \in [Instance -> Manifests]
    BY <1>2 DEF Ran, ProcessOK, ProcessType, Manifests
  <1>4. idx' \in 1 .. RequirementsStep + 1
    BY DEF Ran, ProcessOK, ProcessType, Steps
  <1>5. QED
    BY <1>1, <1>3, <1>4 DEF Ran, ProcessOK, ProcessType, Manifests

LEMMA FailedType ==
    ASSUME ProcessOK, pc = "run", snap' \in Snapshots, Failed, faults' \in 0 .. MaxFaults
    PROVE  ProcessOK'
  BY DEF Failed, ProcessOK, ProcessType

LEMMA LeaveSharedType ==
    ASSUME ProcessOK, LeaveShared  PROVE ProcessOK'
  BY UndoBelowType DEF LeaveShared, ProcessOK, ProcessType

LEMMA FaultType ==
    ASSUME ProcessOK, Fault  PROVE faults' \in 0 .. MaxFaults
  BY BoundsAssumption DEF Fault, ProcessOK, ProcessType

LEMMA UndoneType ==
    ASSUME ProcessOK, Undone, faults' \in 0 .. MaxFaults
    PROVE  ProcessOK'
  BY UndoBelowType DEF Undone, ProcessOK, ProcessType

LEMMA DiesType ==
    ASSUME ProcessOK, Dies  PROVE ProcessOK'
  <1>1. faults' \in 0 .. MaxFaults
    BY FaultType DEF Dies
  <1>2. QED
    BY <1>1, DefaultType, InstanceAssumption DEF Dies, Exit, ProcessOK, ProcessType, Steps

-----------------------------------------------------------------------------
(* The groups and what an installation adds.                               *)

\* Every nonempty set of naturals has a least element.
LEMMA Least ==
    ASSUME NEW S \in SUBSET Nat, S # {}
    PROVE  Min(S) \in S
  <1> DEFINE T == {1 .. n : n \in S}
  <1>1. T \subseteq FiniteSubsetsOf(Nat)
    <2>1. ASSUME NEW n \in S  PROVE 1 .. n \in FiniteSubsetsOf(Nat)
      <3>1. IsFiniteSet(1 .. n)
        BY FS_Interval
      <3>2. QED  BY <3>1 DEF FiniteSubsetsOf
    <2>2. QED  BY <2>1
  <1>2. T # {}
    OBVIOUS
  <1>3. PICK t \in T : \A u \in T : <<u, t>> \notin StrictSubsetOrdering(Nat)
    <2>. HIDE DEF T
    <2>1. QED  BY <1>1, <1>2, WFMin, FS_StrictSubsetOrderingWellFounded
  <1>4. PICK m \in S : t = 1 .. m
    BY <1>3
  <1>5. ASSUME NEW n \in S, n < m  PROVE FALSE
    <2>1. <<1 .. n, 1 .. m>> \notin StrictSubsetOrdering(Nat)
      BY <1>3, <1>4
    <2>2. 1 .. n \subseteq 1 .. m /\ 1 .. n # 1 .. m
      <3>1. m \in 1 .. m /\ m \notin 1 .. n
        BY <1>5
      <3>2. QED  BY <3>1, <1>5
    <2>3. 1 .. n \in SUBSET Nat /\ 1 .. m \in SUBSET Nat
      OBVIOUS
    <2>4. QED  BY <2>1, <2>2, <2>3 DEF StrictSubsetOrdering
  <1>6. \A n \in S : m <= n
    BY <1>5
  <1>7. QED  BY <1>6 DEF Min

\* A group is of names, and none of them is that of wkhtmltopdf's package.
LEMMA GroupNames ==
    ASSUME NEW g \in Groups
    PROVE  /\ g \in Seq(Name) /\ 1 \in DOMAIN g /\ g[1] \in Name
           /\ \A j \in DOMAIN g : g[j] # Wkhtmltox
  <1>1. g \in Seq(Name \ {Wkhtmltox}) /\ g # <<>>
    BY GroupsAssumption
  <1>2. Seq(Name \ {Wkhtmltox}) \subseteq Seq(Name)
    OBVIOUS
  <1>3. \A j \in DOMAIN g : g[j] \in Name \ {Wkhtmltox}
    BY <1>1
  <1>4. 1 \in DOMAIN g
    BY <1>1
  <1>5. QED  BY <1>1, <1>2, <1>3, <1>4

\* The first of some places of a group is one of them.
LEMMA FirstPlace ==
    ASSUME NEW g \in Groups, NEW S \in SUBSET DOMAIN g, S # {}
    PROVE  Min(S) \in S /\ g[Min(S)] \in Name
  <1>1. g \in Seq(Name)
    BY GroupNames
  <1>2. DOMAIN g \subseteq Nat
    BY <1>1
  <1>3. Min(S) \in S
    BY <1>2, Least
  <1>4. QED  BY <1>1, <1>3

\* What a group adds is one of its names, none when one of them is installed, and
\* one when it is required and none is.
LEMMA AddedOf ==
    ASSUME NEW g \in Groups
    PROVE  /\ \A n \in Added(g) : n \in Name /\ \E j \in DOMAIN g : n = g[j]
           /\ \A n \in Added(g) : ~IsInstalled(n)
           /\ g \notin Optional /\ Added(g) = {} => \E j \in DOMAIN g : IsInstalled(g[j])
  <1> DEFINE Inst == {j \in DOMAIN g : IsInstalled(g[j])}
             Re == {j \in DOMAIN g : IsReal(g[j])}
             Virt == {j \in DOMAIN g : IsVirtual(g[j])}
  <1>1. /\ Some(g, IsInstalled) <=> Inst # {}
        /\ Some(g, IsReal) <=> Re # {}
        /\ Some(g, IsVirtual) <=> Virt # {}
    BY DEF Some
  <1>2. FirstOf(g, IsReal) = g[Min(Re)] /\ FirstOf(g, IsVirtual) = g[Min(Virt)]
    BY DEF FirstOf
  <1>3. Added(g) = IF Inst # {} THEN {}
                   ELSE IF Re # {} THEN {g[Min(Re)]}
                   ELSE IF Virt # {} THEN {g[Min(Virt)]}
                   ELSE IF g \in Optional THEN {} ELSE {g[1]}
    BY <1>1, <1>2 DEF Added, Resolvable
  <1>4. g \in Seq(Name) /\ 1 \in DOMAIN g /\ g[1] \in Name
    BY GroupNames
  <1>5. /\ Re # {} => Min(Re) \in DOMAIN g /\ g[Min(Re)] \in Name
        /\ Virt # {} => Min(Virt) \in DOMAIN g /\ g[Min(Virt)] \in Name
    BY FirstPlace
  <1>6. Inst = {} => \A j \in DOMAIN g : ~IsInstalled(g[j])
    OBVIOUS
  <1>7. Inst # {} => \E j \in DOMAIN g : IsInstalled(g[j])
    OBVIOUS
  <1>. HIDE DEF Inst, Re, Virt
  <1>8. \A n \in Added(g) : Inst = {} /\ n \in Name /\ \E j \in DOMAIN g : n = g[j]
    BY <1>3, <1>4, <1>5
  <1>9. g \notin Optional /\ Added(g) = {} => Inst # {}
    BY <1>3
  <1>10. QED  BY <1>6, <1>7, <1>8, <1>9

LEMMA DeltaType == Delta(Tools) \in SUBSET Name /\ Delta(Libraries) \in SUBSET Name
  BY AddedOf DEF Delta, Groups

LEMMA RealType == \A n \in Name : Real(n) \in Package /\ (n # Wkhtmltox => Real(n) # Wkhtmltox)
  BY NamesAssumption DEF Real, Name

\* What an installation puts there, in whole or in part, is never less.
LEMMA WithType ==
    ASSUME pkg \in [Package -> PackageState], NEW names
    PROVE  /\ With(names, "installed") \in [Package -> PackageState]
           /\ \A p \in Package : pkg[p] = "installed" => With(names, "installed")[p] = "installed"
           /\ \A p \in Package : With(names, "installed")[p] = "half" => pkg[p] = "half"
  BY DEF With, PackageState

LEMMA CutType ==
    ASSUME pkg \in [Package -> PackageState], NEW names \in SUBSET Name, NEW q \in Cut(names)
    PROVE  /\ q \in [Package -> PackageState]
           /\ \A p \in Package : pkg[p] = "installed" => q[p] = "installed"
           /\ family = "Fedora" => q = pkg
  <1>1. CASE q = pkg
    BY <1>1
  <1>2. CASE q # pkg
    <2>1. family # "Fedora"
      BY <1>2 DEF Cut
    <2>2. PICK part \in SUBSET names, n \in names :
            q = [With(part, "installed") EXCEPT ![Real(n)] = IF @ = "installed" THEN @ ELSE "half"]
      BY <1>2, <2>1 DEF Cut
    <2>3. Real(n) \in Package
      BY RealType
    <2>4. q \in [Package -> PackageState]
      BY <2>2, <2>3, WithType DEF PackageState
    <2>5. \A p \in Package : pkg[p] = "installed" => q[p] = "installed"
      BY <2>2, <2>3, WithType
    <2>6. QED  BY <2>1, <2>4, <2>5
  <1>3. QED  BY <1>1, <1>2

-----------------------------------------------------------------------------
(* The types of the machine.                                               *)

\* Attempts are only counted while packages or sources are fetched.
Tries == attempt > 0 => pc = "run" /\ idx \in {BootstrapStep, LibrariesStep, CloneStep}

TypeInv == TypeOK /\ Tries

LEMMA TypesOf ==
    ASSUME TypeInv
    PROVE  /\ pkg \in [Package -> PackageState] /\ (family = "Fedora" => ~Broken(pkg))
           /\ index \in BOOLEAN /\ tree \in [Instance -> Tree] /\ attempt \in 0 .. Attempts
           /\ man \in [Instance -> Manifests] /\ who \in Instance /\ snap \in Snapshots
           /\ recorded \in SUBSET Steps /\ others \in SUBSET (Instance \ {who})
           /\ idx \in 1 .. 8 /\ (pc \in {"run", "undo"} => idx \in Steps)
           /\ remains \subseteq Instance /\ spoilt \in BOOLEAN /\ faults \in 0 .. MaxFaults
           /\ WorldType /\ ProcessOK
  BY DEF TypeInv, TypeOK, WorldType, ProcessType, Manifests, ProcessOK

\* A step that changes the packages, one that changes a tree.
LEMMA PackagesType ==
    ASSUME WorldType, UNCHANGED <<machine, tree>>, index' \in BOOLEAN,
           pkg' \in [Package -> PackageState], family = "Fedora" => ~Broken(pkg'),
           attempt' \in 0 .. Attempts, attempt' > 0 => pc' = "run"
    PROVE  WorldType'
  BY DEF WorldType, machine, Broken

LEMMA TreesType ==
    ASSUME WorldType, UNCHANGED <<machine, index, pkg>>, tree' \in [Instance -> Tree],
           attempt' \in 0 .. Attempts, attempt' > 0 => pc' = "run"
    PROVE  WorldType'
  BY DEF WorldType, machine, Broken

LEMMA StandsType ==
    ASSUME WorldType, UNCHANGED world, attempt = 0
    PROVE  WorldType'
  BY DEF WorldType, world, machine, Broken

\* Nothing has failed when nothing is being fetched.
LEMMA NoAttempts ==
    ASSUME TypeInv, pc # "run" \/ idx \notin {BootstrapStep, LibrariesStep, CloneStep}
    PROVE  attempt = 0
  <1>1. attempt \in Nat /\ ~(attempt > 0)
    BY TypesOf, BoundsAssumption DEF TypeInv, Tries
  <1>2. QED  BY <1>1

LEMMA AttemptsType == 0 \in 0 .. Attempts /\ ~(0 > 0)
  BY BoundsAssumption

LEMMA VerdictType == \A b : Verdict(b) \in PreState
  BY DEF Verdict, PreState

LEMMA PreparedType ==
    ASSUME WorldType, who \in Instance
    PROVE  /\ Prepared \in Tree
           /\ \A r \in Sources : [Prepared EXCEPT !.repo = r] \in Tree
           /\ \A r \in Sources : [tree EXCEPT ![who] = [Prepared EXCEPT !.repo = r]] \in [Instance -> Tree]
  <1>1. tree[who] \in Tree
    BY DEF WorldType
  <1>2. \A w \in Whose : MadeDir(w) \in Whose
    BY DEF MadeDir, Whose
  <1>3. PICK t \in Tree : t = tree[who]
    BY <1>1
  <1>4. /\ t.dir \in Whose /\ t.modules \in Whose /\ t.repo \in Sources
        /\ MadeDir(t.dir) \in Whose /\ MadeDir(t.modules) \in Whose
    BY <1>2 DEF Tree
  <1>5. Prepared \in Tree
    BY <1>3, <1>4 DEF Prepared, Tree, Sources
  <1>6. \A r \in Sources : [Prepared EXCEPT !.repo = r] \in Tree
    BY <1>5 DEF Tree
  <1>7. QED  BY <1>5, <1>6 DEF WorldType

-----------------------------------------------------------------------------
(* Every action keeps the types.                                           *)

LEMMA CommandsType ==
    ASSUME TypeInv, \/ \E i \in Instance : Install(i) \/ Rollback(i)
                    \/ Stops \/ Skip \/ Finish \/ LeaveShared
    PROVE  TypeInv'
  <1>1. UNCHANGED world /\ attempt = 0
    BY NoAttempts DEF Install, Rollback, Begin, BeginRollback, Stops, Skip, Finish, Finished, LeaveShared
  <1>2. WorldType'
    BY <1>1, TypesOf, StandsType
  <1>3. ProcessOK'
    BY TypesOf, BeginType, StopsType, SkipType, FinishedType, LeaveSharedType DEF Install, Rollback, Finish
  <1>4. attempt' = 0
    BY <1>1 DEF world
  <1>5. QED  BY <1>2, <1>3, <1>4, AttemptsType DEF TypeInv, TypeOK, Tries, ProcessOK

LEMMA SnapshotsType ==
    ASSUME TypeInv, \/ SnapshotTools \/ SnapshotLibraries \/ SnapshotWkhtmltopdf
                    \/ SnapshotClone \/ SnapshotVenv \/ SnapshotNothing
    PROVE  TypeInv'
  <1>1. UNCHANGED world /\ attempt = 0 /\ idx \in Steps
    <2>1. UNCHANGED world /\ pc = "snapshot"
      BY DEF SnapshotTools, SnapshotLibraries, SnapshotWkhtmltopdf, SnapshotClone, SnapshotVenv,
             SnapshotNothing, At, Snapshotted
    <2>2. idx \in {1, 2, 3, 4, 5, 6, 7}
      BY DEF SnapshotTools, SnapshotLibraries, SnapshotWkhtmltopdf, SnapshotClone, SnapshotVenv,
             SnapshotNothing, At
    <2>3. QED  BY <2>1, <2>2, NoAttempts DEF Steps
  <1>2. WorldType'
    BY <1>1, TypesOf, StandsType
  <1>3. PICK s : Snapshotted(s) /\ s \in Snapshots
    <2>1. snap \in Snapshots
      BY TypesOf
    <2>2. CASE SnapshotTools
      BY <2>1, <2>2, DeltaType DEF SnapshotTools, Snapshots
    <2>3. CASE SnapshotLibraries
      BY <2>1, <2>3, DeltaType DEF SnapshotLibraries, Snapshots
    <2>4. CASE SnapshotWkhtmltopdf
      BY <2>1, <2>4, VerdictType DEF SnapshotWkhtmltopdf, Snapshots
    <2>5. CASE SnapshotClone
      <3>1. Snapshotted([snap EXCEPT !.repo = Verdict(tree[who].repo \in {"whole", "partial", "mixed"})])
        BY <2>5 DEF SnapshotClone
      <3>2. Verdict(tree[who].repo \in {"whole", "partial", "mixed"}) \in PreState
        BY DEF Verdict, PreState
      <3>3. [snap EXCEPT !.repo = Verdict(tree[who].repo \in {"whole", "partial", "mixed"})] \in Snapshots
        BY <2>1, <3>2 DEF Snapshots
      <3>4. QED  BY <3>1, <3>3
    <2>6. CASE SnapshotVenv
      <3>1. Snapshotted([snap EXCEPT !.venv = Verdict(tree[who].venv # "absent")])
        BY <2>6 DEF SnapshotVenv
      <3>2. Verdict(tree[who].venv # "absent") \in PreState
        BY DEF Verdict, PreState
      <3>3. [snap EXCEPT !.venv = Verdict(tree[who].venv # "absent")] \in Snapshots
        BY <2>1, <3>2 DEF Snapshots
      <3>4. QED  BY <3>1, <3>3
    <2>7. CASE SnapshotNothing
      BY <2>1, <2>7 DEF SnapshotNothing
    <2>8. QED  BY <2>2, <2>3, <2>4, <2>5, <2>6, <2>7
  <1>4. ProcessOK'
    BY <1>1, <1>3, TypesOf, SnapshottedType
  <1>5. attempt' = 0
    BY <1>1 DEF world
  <1>6. QED  BY <1>2, <1>4, <1>5, AttemptsType DEF TypeInv, TypeOK, Tries, ProcessOK

\* The end of a run, whether it succeeded or failed, and of an undo.
LEMMA EndsType ==
    ASSUME TypeInv, WorldType', attempt' = 0, snap' \in Snapshots, faults' \in 0 .. MaxFaults,
           (pc = "run" /\ (Ran \/ Failed)) \/ Undone
    PROVE  TypeInv'
  <1>1. ProcessOK'
    <2>1. Undone => UNCHANGED snap \/ snap' = Default
      BY DEF Undone, UndoBelow, Exit
    <2>2. QED  BY TypesOf, RanType, FailedType, UndoneType
  <1>2. QED  BY <1>1, AttemptsType DEF TypeInv, TypeOK, Tries, ProcessOK

\* What a package step wants are names.
LEMMA WantedType ==
    ASSUME TypeInv  PROVE Wanted \in SUBSET Name
  BY TypesOf DEF Wanted, Snapshots

LEMMA PackageRunsType ==
    ASSUME TypeInv, \/ RunDirectory \/ RunPackages \/ PackagesFail
                    \/ RunWkhtmltopdf \/ WkhtmltopdfFails
    PROVE  TypeInv'
  <1>1. CASE RunDirectory
    <2>1. attempt = 0 /\ UNCHANGED world /\ pc = "run" /\ UNCHANGED <<snap, faults>> /\ Ran
      BY <1>1, NoAttempts DEF RunDirectory, Running, Ran
    <2>2. WorldType'
      BY <2>1, TypesOf, StandsType
    <2>3. attempt' = 0
      BY <2>1 DEF world
    <2>4. QED  BY <2>1, <2>2, <2>3, TypesOf, EndsType
  <1>2. CASE RunPackages
    <2>1. /\ pkg' = With(Wanted, "installed") /\ attempt' = 0 /\ index' \in BOOLEAN
          /\ UNCHANGED <<snap, machine, tree, faults>> /\ Ran /\ pc = "run"
      BY <1>2, TypesOf DEF RunPackages, PackageStep, Refreshed, Ran
    <2>2. pkg' \in [Package -> PackageState] /\ (family = "Fedora" => ~Broken(pkg'))
      BY <2>1, TypesOf, WithType DEF Broken
    <2>3. WorldType'
      BY <2>1, <2>2, TypesOf, AttemptsType, PackagesType
    <2>4. QED  BY <2>1, <2>3, TypesOf, EndsType
  <1>3. CASE PackagesFail
    <2>1. /\ UNCHANGED pkg \/ pkg' \in Cut(Wanted)
          /\ attempt' = 0 /\ index' \in BOOLEAN
          /\ UNCHANGED <<snap, machine, tree, faults>> /\ Failed /\ pc = "run"
      <3>1. pkg \in Cut(Wanted)
        BY DEF Cut
      <3>2. UNCHANGED pkg \/ pkg' \in Cut(Wanted)
        BY <1>3, <3>1 DEF PackagesFail
      <3>3. QED  BY <1>3, <3>2, TypesOf DEF PackagesFail, PackageStep, Refreshed
    <2>2. pkg' \in [Package -> PackageState] /\ (family = "Fedora" => ~Broken(pkg'))
      BY <2>1, TypesOf, CutType, WantedType DEF Broken
    <2>3. WorldType'
      BY <2>1, <2>2, TypesOf, AttemptsType, PackagesType
    <2>4. QED  BY <2>1, <2>3, TypesOf, EndsType
  <1>4. CASE RunWkhtmltopdf
    <2>1. /\ UNCHANGED pkg \/ pkg' = With({Wkhtmltox}, "installed")
          /\ UNCHANGED <<index, machine, tree, faults, attempt>> /\ Ran /\ pc = "run" /\ attempt = 0
          /\ snap' = snap \/ snap' = [snap EXCEPT !.wkhtmltox = "CreatedByUs"]
      BY <1>4, NoAttempts DEF RunWkhtmltopdf, Running, Ran
    <2>2. pkg' \in [Package -> PackageState] /\ (family = "Fedora" => ~Broken(pkg'))
      BY <2>1, TypesOf, WithType DEF Broken
    <2>3. WorldType'
      BY <2>1, <2>2, TypesOf, AttemptsType, PackagesType
    <2>4. snap' \in Snapshots
      BY <2>1, TypesOf DEF Snapshots, PreState
    <2>5. QED  BY <2>1, <2>3, <2>4, TypesOf, EndsType
  <1>5. CASE WkhtmltopdfFails
    <2>1. /\ UNCHANGED pkg \/ pkg' \in Cut({Wkhtmltox})
          /\ UNCHANGED <<index, machine, tree, attempt, snap>> /\ Failed /\ pc = "run" /\ attempt = 0
          /\ UNCHANGED faults \/ Fault
      BY <1>5, NoAttempts DEF WkhtmltopdfFails, Running
    <2>2. {Wkhtmltox} \in SUBSET Name
      BY NamesAssumption DEF Name
    <2>3. pkg' \in [Package -> PackageState] /\ (family = "Fedora" => ~Broken(pkg'))
      BY <2>1, <2>2, TypesOf, CutType DEF Broken
    <2>4. WorldType'
      BY <2>1, <2>3, TypesOf, AttemptsType, PackagesType
    <2>5. faults' \in 0 .. MaxFaults
      BY <2>1, TypesOf, FaultType
    <2>6. QED  BY <2>1, <2>4, <2>5, TypesOf, EndsType
  <1>6. QED  BY <1>1, <1>2, <1>3, <1>4, <1>5

LEMMA AskAgainType ==
    ASSUME TypeInv, AskAgain  PROVE TypeInv'
  <1>1. /\ UNCHANGED <<machine, pkg, tree, man, pc, who, idx, snap, recorded, others, args,
                       remains, spoilt, faults>>
        /\ pc = "run" /\ idx \in {BootstrapStep, LibrariesStep}
        /\ index' \in BOOLEAN /\ attempt' = attempt + 1 /\ attempt + 1 < Attempts
    BY TypesOf DEF AskAgain, PackageStep, Refreshed
  <1>2. attempt' \in 0 .. Attempts
    BY <1>1, TypesOf, BoundsAssumption
  <1>3. WorldType'
    BY <1>1, <1>2, TypesOf, PackagesType
  <1>4. ProcessOK'
    BY <1>1, TypesOf DEF ProcessOK, ProcessType
  <1>5. QED  BY <1>1, <1>3, <1>4 DEF TypeInv, TypeOK, Tries, ProcessOK

LEMMA CloneRunsType ==
    ASSUME TypeInv, RunClone \/ RunTarball \/ CloneFails
    PROVE  TypeInv'
  <1>1. /\ UNCHANGED <<machine, index, pkg>> /\ attempt' = 0 /\ pc = "run"
        /\ Ran \/ Failed
        /\ UNCHANGED faults \/ Fault
        /\ snap' = snap \/ snap' = Claimed
    BY DEF RunClone, RunTarball, CloneFails, Running, Ran
  <1>2. tree' \in [Instance -> Tree]
    <2>1. tree[who] \in Tree /\ "whole" \in Sources /\ "mixed" \in Sources /\ "invalid" \in Sources
      BY TypesOf DEF Sources
    <2>2. PICK t \in Tree : t = tree[who]
      BY <2>1
    <2>3. \A r \in Sources : [tree EXCEPT ![who].repo = r] \in [Instance -> Tree]
      <3> TAKE r \in Sources
      <3>1. [t EXCEPT !.repo = r] \in Tree
        BY DEF Tree
      <3>2. [tree EXCEPT ![who].repo = r] = [tree EXCEPT ![who] = [t EXCEPT !.repo = r]]
        BY <2>2
      <3>3. QED  BY <3>1, <3>2, TypesOf
    <2>4. [tree EXCEPT ![who].dir = "ours"] \in [Instance -> Tree]
      <3>1. [t EXCEPT !.dir = "ours"] \in Tree
        BY DEF Tree, Whose
      <3>2. [tree EXCEPT ![who].dir = "ours"] = [tree EXCEPT ![who] = [t EXCEPT !.dir = "ours"]]
        BY <2>2
      <3>3. QED  BY <3>1, <3>2, TypesOf
    <2>5. CASE RunClone
      BY <2>1, <2>5, TypesOf, PreparedType DEF RunClone
    <2>6. CASE RunTarball
      <3>1. PICK r \in Sources : tree' = [tree EXCEPT ![who].repo = r]
        BY <2>1, <2>6, TypesOf DEF RunTarball
      <3>2. QED  BY <2>3, <3>1
    <2>7. CASE CloneFails
      <3>1. CASE UNCHANGED tree
        BY <3>1, TypesOf
      <3>2. CASE tree' = [tree EXCEPT ![who].dir = "ours"]
        BY <2>4, <3>2
      <3>3. CASE tree' = [tree EXCEPT ![who].repo = IF @ = "absent" THEN "invalid" ELSE @]
        <4>1. PICK r \in Sources : r = IF t.repo = "absent" THEN "invalid" ELSE t.repo
          BY <2>1 DEF Tree
        <4>2. tree' = [tree EXCEPT ![who].repo = r]
          BY <2>2, <3>3, <4>1
        <4>3. QED  BY <2>3, <4>2
      <3>4. QED  BY <2>7, <3>1, <3>2, <3>3 DEF CloneFails
    <2>8. QED  BY <2>5, <2>6, <2>7
  <1>3. WorldType'
    BY <1>1, <1>2, TypesOf, AttemptsType, TreesType
  <1>4. snap' \in Snapshots
    BY <1>1, TypesOf DEF Claimed, Snapshots, PreState
  <1>5. faults' \in 0 .. MaxFaults
    BY <1>1, TypesOf, FaultType
  <1>6. QED  BY <1>1, <1>3, <1>4, <1>5, EndsType

\* What a clone that is cut short may leave.
LEMMA TornType ==
    ASSUME NEW repo \in Sources, NEW torn \in Torn(repo)
    PROVE  torn \in Sources /\ Cleaned(torn) \in Sources
  BY DEF Torn, Cleaned, Sources

LEMMA CloneAgainType ==
    ASSUME TypeInv, CloneAgain  PROVE TypeInv'
  <1>1. /\ UNCHANGED <<machine, index, pkg, man, pc, who, idx, recorded, others, args, remains, spoilt>>
        /\ pc = "run" /\ idx = CloneStep /\ attempt < Attempts /\ attempt' = attempt + 1
        /\ snap' = Claimed
        /\ UNCHANGED faults \/ Fault
    BY DEF CloneAgain, Running
  <1>2. PICK torn \in Torn(Prepared.repo) :
            \/ tree' = [tree EXCEPT ![who] = [Prepared EXCEPT !.repo = Cleaned(torn)]]
            \/ tree' = [tree EXCEPT ![who] = [Prepared EXCEPT !.repo = torn]]
    BY DEF CloneAgain
  <1>3. Prepared.repo \in Sources
    BY TypesOf, PreparedType DEF Tree
  <1>4. tree' \in [Instance -> Tree]
    BY <1>2, <1>3, TornType, TypesOf, PreparedType
  <1>5. attempt' \in 0 .. Attempts
    BY <1>1, TypesOf, BoundsAssumption
  <1>6. WorldType'
    BY <1>1, <1>4, <1>5, TypesOf, TreesType
  <1>7. snap' \in Snapshots /\ faults' \in 0 .. MaxFaults
    BY <1>1, TypesOf, FaultType DEF Claimed, Snapshots, PreState
  <1>8. ProcessOK'
    BY <1>1, <1>7, TypesOf DEF ProcessOK, ProcessType
  <1>9. QED  BY <1>1, <1>6, <1>8 DEF TypeInv, TypeOK, Tries, ProcessOK

LEMMA VenvRunsType ==
    ASSUME TypeInv, RunVenv \/ VenvFails \/ RunRequirements \/ RequirementsFail
    PROVE  TypeInv'
  <1>1. /\ UNCHANGED <<machine, index, pkg, attempt>> /\ pc = "run"
        /\ Ran \/ Failed
        /\ idx \in {VenvStep, RequirementsStep}
        /\ UNCHANGED faults \/ Fault
        /\ snap' = snap \/ snap' = [snap EXCEPT !.venv = "CreatedByUs"]
    BY DEF RunVenv, VenvFails, RunRequirements, RequirementsFail, Running, Ran, world
  <1>2. attempt' = 0
    BY <1>1, NoAttempts
  <1>3. tree' \in [Instance -> Tree]
    <2>1. PICK t \in Tree : t = tree[who]
      BY TypesOf
    <2>2. \/ UNCHANGED tree
          \/ tree' = [tree EXCEPT ![who] = [t EXCEPT !.venv = "bare", !.dir = MadeDir(@)]]
          \/ \E v \in {"half", "filled"} : tree' = [tree EXCEPT ![who] = [t EXCEPT !.venv = v]]
      BY <2>1 DEF RunVenv, VenvFails, RunRequirements, RequirementsFail, world
    <2>3. [t EXCEPT !.venv = "bare", !.dir = MadeDir(@)] \in Tree
      <3>1. t.dir \in Whose
        BY DEF Tree
      <3>2. MadeDir(t.dir) \in Whose
        BY <3>1 DEF MadeDir, Whose
      <3>3. QED  BY <3>2 DEF Tree
    <2>4. \A v \in {"half", "filled"} : [t EXCEPT !.venv = v] \in Tree
      BY DEF Tree
    <2>5. QED  BY <2>2, <2>3, <2>4, TypesOf
  <1>4. WorldType'
    BY <1>1, <1>2, <1>3, TypesOf, AttemptsType, TreesType
  <1>5. snap' \in Snapshots
    BY <1>1, TypesOf DEF Snapshots, PreState
  <1>6. faults' \in 0 .. MaxFaults
    BY <1>1, TypesOf, FaultType
  <1>7. QED  BY <1>1, <1>2, <1>4, <1>5, <1>6, EndsType

\* A removal, with the repairs before it.
LEMMA PurgeType ==
    ASSUME TypeInv, NEW names, Purge(names)
    PROVE  /\ pkg' \in [Package -> PackageState] /\ faults' \in 0 .. MaxFaults
           /\ family = "Fedora" => ~Broken(pkg')
  <1>1. faults' \in 0 .. MaxFaults
    BY TypesOf, FaultType DEF Purge
  <1>2. /\ Repaired(pkg) \in [Package -> PackageState]
        /\ \A n \in Package : Repaired(pkg)[n] # "half"
    BY TypesOf DEF Repaired, PackageState
  <1>3. /\ Removed(Repaired(pkg), names) \in [Package -> PackageState]
        /\ \A n \in Package : Removed(Repaired(pkg), names)[n] # "half"
    BY <1>2 DEF Removed, PackageState
  <1>4. pkg' = pkg \/ pkg' = Repaired(pkg) \/ pkg' = Removed(Repaired(pkg), names)
    BY DEF Purge
  <1>5. QED  BY <1>1, <1>2, <1>3, <1>4, TypesOf DEF Broken

LEMMA UndosType ==
    ASSUME TypeInv, UndoTools \/ UndoLibraries \/ UndoWkhtmltopdf \/ UndoClone \/ UndoVenv \/ UndoNothing
    PROVE  TypeInv'
  <1>1. Undone /\ pc = "undo" /\ UNCHANGED <<machine, index, attempt>>
    BY DEF UndoTools, UndoLibraries, UndoWkhtmltopdf, UndoClone, UndoVenv, UndoNothing, Undoing, world
  <1>2. attempt = 0 /\ attempt' = 0
    BY <1>1, NoAttempts
  <1>3. snap' \in Snapshots
    BY <1>1, TypesOf, DefaultType DEF Undone, UndoBelow, Exit
  <1>4. CASE UNCHANGED pkg /\ tree' \in [Instance -> Tree] /\ faults' \in 0 .. MaxFaults
    BY <1>1, <1>2, <1>3, <1>4, TypesOf, AttemptsType, TreesType, EndsType
  <1>5. CASE UndoTools \/ UndoLibraries \/ UndoWkhtmltopdf
    <2>1. UNCHANGED tree /\ ((\E names : Purge(names)) \/ UNCHANGED <<pkg, faults>>)
      BY <1>5 DEF UndoTools, UndoLibraries, UndoWkhtmltopdf
    <2>2. CASE UNCHANGED <<pkg, faults>>
      BY <1>4, <2>1, <2>2, TypesOf
    <2>3. CASE \E names : Purge(names)
      <3>1. /\ pkg' \in [Package -> PackageState] /\ faults' \in 0 .. MaxFaults
            /\ family = "Fedora" => ~Broken(pkg')
        BY <2>3, PurgeType
      <3>2. WorldType'
        BY <1>1, <1>2, <2>1, <3>1, TypesOf, AttemptsType, PackagesType
      <3>3. QED  BY <1>1, <1>2, <1>3, <3>1, <3>2, EndsType
    <2>4. QED  BY <2>1, <2>2, <2>3
  <1>6. PICK t \in Tree : t = tree[who]
    BY TypesOf
  <1>7. CASE UndoClone
    <2>1. UNCHANGED pkg /\ (UNCHANGED faults \/ Fault)
      BY <1>7 DEF UndoClone
    <2>2. tree' = tree \/ \E u \in Tree : tree' = [tree EXCEPT ![who] = u]
      <3>1. \A repo, modules \in BOOLEAN :
              [t EXCEPT !.repo = IF repo THEN "absent" ELSE @,
                        !.modules = IF modules THEN "absent" ELSE @] \in Tree
        BY DEF Tree, Sources, Whose
      <3>2. \A u \in Tree : WithoutContainer(u) \in Tree
        BY DEF WithoutContainer, Tree, Whose
      <3>3. QED  BY <1>6, <1>7, <3>1, <3>2 DEF UndoClone
    <2>3. tree' \in [Instance -> Tree]
      BY <2>2, TypesOf
    <2>4. faults' \in 0 .. MaxFaults
      BY <2>1, TypesOf, FaultType
    <2>5. QED  BY <1>4, <2>1, <2>3, <2>4
  <1>8. CASE UndoVenv
    <2>1. UNCHANGED pkg /\ (UNCHANGED faults \/ Fault)
      BY <1>8 DEF UndoVenv
    <2>2. [t EXCEPT !.venv = "absent"] \in Tree
      BY DEF Tree
    <2>3. tree' = tree \/ tree' = [tree EXCEPT ![who] = [t EXCEPT !.venv = "absent"]]
      BY <1>6, <1>8 DEF UndoVenv
    <2>4. tree' \in [Instance -> Tree]
      BY <2>2, <2>3, TypesOf
    <2>5. faults' \in 0 .. MaxFaults
      BY <2>1, TypesOf, FaultType
    <2>6. QED  BY <1>4, <2>1, <2>4, <2>5
  <1>9. CASE UndoNothing
    <2>1. UNCHANGED <<pkg, tree, faults>>
      BY <1>9 DEF UndoNothing, world
    <2>2. QED  BY <1>4, <2>1, TypesOf
  <1>10. QED  BY <1>5, <1>7, <1>8, <1>9

LEMMA DieType ==
    ASSUME TypeInv, Die  PROVE TypeInv'
  <1>1. Dies /\ attempt' = 0 /\ UNCHANGED <<machine, index>>
    BY DEF Die
  <1>2. ProcessOK'
    BY <1>1, TypesOf, DiesType
  <1>3. CASE UNCHANGED tree /\ (UNCHANGED pkg \/ pkg' \in Cut(Wanted) \/ pkg' \in Cut({Wkhtmltox}))
    <2>0. {Wkhtmltox} \in SUBSET Name
      BY NamesAssumption DEF Name
    <2>1. pkg' \in [Package -> PackageState] /\ (family = "Fedora" => ~Broken(pkg'))
      BY <1>3, <2>0, TypesOf, CutType, WantedType DEF Broken
    <2>2. WorldType'
      BY <1>1, <1>3, <2>1, TypesOf, AttemptsType, PackagesType
    <2>3. QED  BY <1>1, <1>2, <2>2, AttemptsType DEF TypeInv, TypeOK, Tries, ProcessOK
  <1>4. CASE UNCHANGED pkg /\ \E torn \in Torn(Prepared.repo) :
                                tree' = [tree EXCEPT ![who] = [Prepared EXCEPT !.repo = torn]]
    <2>1. Prepared.repo \in Sources
      BY TypesOf, PreparedType DEF Tree
    <2>2. tree' \in [Instance -> Tree]
      BY <1>4, <2>1, TornType, TypesOf, PreparedType
    <2>3. WorldType'
      BY <1>1, <1>4, <2>2, TypesOf, AttemptsType, TreesType
    <2>4. QED  BY <1>1, <1>2, <2>3, AttemptsType DEF TypeInv, TypeOK, Tries, ProcessOK
  <1>5. QED  BY <1>3, <1>4 DEF Die

LEMMA InitType ==
    ASSUME Init  PROVE TypeInv
  <1>1. ProcessOK
    BY StartType DEF Init
  <1>2. tree \in [Instance -> Tree]
    BY TreesAssumption DEF Init
  <1>3. pkg \in [Package -> {"absent", "other", "installed"}]
    BY DEF Init
  <1>4. attempt = 0 /\ release \in Releases /\ family \in {"Debian", "Fedora"} /\ index \in BOOLEAN
    BY DEF Init
  <1>5. QED
    BY <1>1, <1>2, <1>3, <1>4, AttemptsType
       DEF TypeInv, TypeOK, WorldType, PackageState, Broken, Tries, ProcessOK

LEMMA NextType ==
    ASSUME TypeInv, [Next]_vars  PROVE TypeInv'
  <1>1. CASE UNCHANGED vars
    BY <1>1 DEF vars, world, machine, TypeInv, TypeOK, WorldType, ProcessType, Broken, Tries
  <1>2. CASE Next
    BY <1>2, CommandsType, SnapshotsType, PackageRunsType, AskAgainType, CloneRunsType, CloneAgainType,
       VenvRunsType, UndosType, DieType DEF Next
  <1>3. QED  BY <1>1, <1>2

\* The variables keep their types, and rpm is never left half-way.
THEOREM SoftwareTypeOK == Spec => []TypeOK
  <1>1. TypeInv => TypeOK
    BY DEF TypeInv
  <1>2. QED  BY <1>1, InitType, NextType, PTL DEF Spec

-----------------------------------------------------------------------------
(* What was found stays.                                                   *)

\* What is kept of a tree that was found.
TreeKept(f, t) ==
    /\ f.dir = "theirs" => t.dir = "theirs"
    /\ f.repo \notin {"absent", "invalid"} => t.repo = f.repo /\ t.modules = f.modules
    /\ f.venv # "absent" => t.venv = f.venv \/ (f.venv = "bare" /\ t.venv = "filled")

\* What a snapshot of i would have removed was not there before, and no delta is of
\* wkhtmltopdf's package.
SnapOK(s, i) ==
    /\ \A n \in s.tools \cup s.libraries : /\ n \in Package => found.pkg[n] # "installed"
                                          /\ Real(n) # Wkhtmltox
    /\ s.wkhtmltox = "CreatedByUs" => found.pkg[Wkhtmltox] # "installed"
    /\ s.repo = "CreatedByUs" => found.tree[i].repo \in {"absent", "invalid"}
    /\ s.venv = "CreatedByUs" => found.tree[i].venv = "absent"

FoundOK ==
    found.pkg \in [Package -> {"absent", "other", "installed"}] /\ found.tree \in [Instance -> FoundTrees]

SnapsOK ==
    /\ \A i \in Instance : SnapOK(man[i].snap, i)
    /\ pc # "idle" => SnapOK(snap, who)

\* What the snapshot before a run did not find was not there before either.
RunOK ==
    pc = "run" =>
        /\ idx = WkhtmltopdfStep /\ snap.wkhtmltox # "Preexisting" => found.pkg[Wkhtmltox] # "installed"
        /\ idx = CloneStep /\ snap.repo # "Preexisting" => found.tree[who].repo \in {"absent", "invalid"}
        /\ idx = VenvStep /\ snap.venv # "Preexisting" => found.tree[who].venv = "absent"

StaysInv == TypeInv /\ FoundOK /\ FoundStays /\ SnapsOK /\ RunOK

\* The first part of it in terms of one tree.
LEMMA StaysParts ==
    FoundStays <=> /\ \A p \in Package : found.pkg[p] = "installed" => pkg[p] = "installed"
                   /\ \A i \in Instance : TreeKept(found.tree[i], tree[i])
  BY DEF FoundStays, TreeKept

\* The fields of the steps' snapshots.
LEMMA FieldSteps ==
    ASSUME NEW k \in Steps
    PROVE  /\ "tools" \in Fields(k) <=> k = BootstrapStep
           /\ "libraries" \in Fields(k) <=> k = LibrariesStep
           /\ "wkhtmltox" \in Fields(k) <=> k = WkhtmltopdfStep
           /\ "repo" \in Fields(k) <=> k = CloneStep
           /\ "venv" \in Fields(k) <=> k = VenvStep
  <1>1. k \in {1, 2, 3, 4, 5, 6, 7}
    BY DEF Steps
  <1>2. CASE k = 1  BY <1>2 DEF Fields
  <1>3. CASE k = 2  BY <1>3 DEF Fields
  <1>4. CASE k = 3  BY <1>4 DEF Fields
  <1>5. CASE k = 4  BY <1>5 DEF Fields
  <1>6. CASE k = 5  BY <1>6 DEF Fields
  <1>7. CASE k = 6  BY <1>7 DEF Fields
  <1>8. CASE k = 7  BY <1>8 DEF Fields
  <1>9. QED  BY <1>1, <1>2, <1>3, <1>4, <1>5, <1>6, <1>7, <1>8

\* What the records of some steps hold of the snapshots.
LEMMA RecordsFields ==
    ASSUME NEW s \in Snapshots, NEW K \in SUBSET Steps
    PROVE  /\ Records(s, K).tools = IF BootstrapStep \in K THEN s.tools ELSE {}
           /\ Records(s, K).libraries = IF LibrariesStep \in K THEN s.libraries ELSE {}
           /\ Records(s, K).wkhtmltox = IF WkhtmltopdfStep \in K THEN s.wkhtmltox ELSE "Untracked"
           /\ Records(s, K).repo = IF CloneStep \in K THEN s.repo ELSE "Untracked"
           /\ Records(s, K).venv = IF VenvStep \in K THEN s.venv ELSE "Untracked"
  <1>1. Records(s, K).tools = IF BootstrapStep \in K THEN s.tools ELSE {}
    BY FieldSteps DEF Records, Default
  <1>2. Records(s, K).libraries = IF LibrariesStep \in K THEN s.libraries ELSE {}
    BY FieldSteps DEF Records, Default
  <1>3. Records(s, K).wkhtmltox = IF WkhtmltopdfStep \in K THEN s.wkhtmltox ELSE "Untracked"
    BY FieldSteps DEF Records, Default
  <1>4. Records(s, K).repo = IF CloneStep \in K THEN s.repo ELSE "Untracked"
    BY FieldSteps DEF Records, Default
  <1>5. Records(s, K).venv = IF VenvStep \in K THEN s.venv ELSE "Untracked"
    BY FieldSteps DEF Records, Default
  <1>6. QED  BY <1>1, <1>2, <1>3, <1>4, <1>5

\* A manifest that is written: its steps, and what it holds of the snapshots.
LEMMA ManifestFields ==
    \A s \in Snapshots : \A K \in SUBSET Steps :
        /\ Manifest(s, K, FALSE).steps = K /\ Manifest(s, K, FALSE).finished = FALSE
        /\ Manifest(s, K, FALSE).snap.tools = IF BootstrapStep \in K THEN s.tools ELSE {}
        /\ Manifest(s, K, FALSE).snap.libraries = IF LibrariesStep \in K THEN s.libraries ELSE {}
        /\ Manifest(s, K, FALSE).snap.wkhtmltox =
              IF WkhtmltopdfStep \in K THEN s.wkhtmltox ELSE "Untracked"
        /\ Manifest(s, K, FALSE).snap.repo = IF CloneStep \in K THEN s.repo ELSE "Untracked"
        /\ Manifest(s, K, FALSE).snap.venv = IF VenvStep \in K THEN s.venv ELSE "Untracked"
  <1> TAKE s \in Snapshots
  <1> TAKE K \in SUBSET Steps
  <1>1. CASE K = {}
    BY <1>1 DEF Manifest, NoManifest, Default
  <1>2. CASE K # {}
    <2>1. /\ Manifest(s, K, FALSE).snap = Records(s, K) /\ Manifest(s, K, FALSE).steps = K
          /\ Manifest(s, K, FALSE).finished = FALSE
      BY <1>2 DEF Manifest
    <2>2. PICK r : r = Records(s, K)
      OBVIOUS
    <2>3. /\ r.tools = IF BootstrapStep \in K THEN s.tools ELSE {}
          /\ r.libraries = IF LibrariesStep \in K THEN s.libraries ELSE {}
          /\ r.wkhtmltox = IF WkhtmltopdfStep \in K THEN s.wkhtmltox ELSE "Untracked"
          /\ r.repo = IF CloneStep \in K THEN s.repo ELSE "Untracked"
          /\ r.venv = IF VenvStep \in K THEN s.venv ELSE "Untracked"
      BY <2>2, RecordsFields
    <2>4. QED  BY <2>1, <2>2, <2>3
  <1>3. QED  BY <1>1, <1>2

LEMMA ManifestSnapOK ==
    \A s \in Snapshots : \A K \in SUBSET Steps : \A i :
        SnapOK(s, i) => SnapOK(Manifest(s, K, FALSE).snap, i)
  BY ManifestFields DEF SnapOK

\* Nothing recorded, nothing to remove.
LEMMA DefaultSnapOK == \A i : SnapOK(Default, i)
  BY DEF SnapOK, Default

\* The process: what it knows is right as long as what is found does not change.
LEMMA UndoBelowStays ==
    ASSUME TypeInv, SnapsOK, pc # "idle", NEW k, NEW K \in SUBSET Steps, UndoBelow(k, K), UNCHANGED found
    PROVE  SnapsOK' /\ RunOK'
  <1>1. snap \in Snapshots /\ man \in [Instance -> Manifests] /\ who \in Instance
    BY TypesOf
  <1>2. SnapOK(Manifest(snap, K, FALSE).snap, who)
    BY <1>1, ManifestSnapOK DEF SnapsOK
  <1>3. CASE {j \in K : j < k} = {}
    <2>1. pc' = "idle" /\ man' = [man EXCEPT ![who] = Manifest(snap, K, FALSE)]
      BY <1>3 DEF UndoBelow, Exit
    <2>2. \A i \in Instance : SnapOK(man'[i].snap, i)
      BY <1>1, <1>2, <2>1 DEF SnapsOK
    <2>3. QED  BY <2>1, <2>2 DEF SnapsOK, SnapOK, RunOK
  <1>4. CASE {j \in K : j < k} # {}
    <2>1. pc' = "undo" /\ UNCHANGED <<man, snap, who>>
      BY <1>4 DEF UndoBelow
    <2>2. QED  BY <2>1 DEF SnapsOK, SnapOK, RunOK
  <1>5. QED  BY <1>3, <1>4

LEMMA EndsStay ==
    ASSUME TypeInv, SnapsOK, pc = "run", Ran \/ Failed, UNCHANGED found, snap' \in Snapshots, SnapOK(snap', who)
    PROVE  SnapsOK' /\ RunOK'
  <1>1. man \in [Instance -> Manifests] /\ who \in Instance /\ recorded \cup {idx} \in SUBSET Steps
    BY TypesOf
  <1>2. CASE Ran
    <2>1. /\ pc' = "snapshot" /\ recorded' = recorded \cup {idx} /\ UNCHANGED who
          /\ man' = [man EXCEPT ![who] = Manifest(snap', recorded', FALSE)]
      BY <1>2 DEF Ran
    <2>2. SnapOK(Manifest(snap', recorded', FALSE).snap, who)
      BY <1>1, <2>1, ManifestSnapOK
    <2>3. \A i \in Instance : SnapOK(man'[i].snap, i)
      BY <1>1, <2>1, <2>2 DEF SnapsOK
    <2>4. QED  BY <2>1, <2>3 DEF SnapsOK, SnapOK, RunOK
  <1>3. CASE Failed
    <2>1. pc' = "undo" /\ UNCHANGED <<man, who>>
      BY <1>3 DEF Failed
    <2>2. QED  BY <2>1 DEF SnapsOK, SnapOK, RunOK
  <1>4. QED  BY <1>2, <1>3

\* The machine: packages that do not go, a tree of which what was found is kept.
LEMMA PackagesStay ==
    ASSUME StaysInv, UNCHANGED <<found, tree>>,
           \A p \in Package : found.pkg[p] = "installed" /\ pkg[p] = "installed" => pkg'[p] = "installed"
    PROVE  FoundOK' /\ FoundStays'
  BY StaysParts DEF StaysInv, FoundOK, FoundStays, TreeKept

LEMMA TreeStays ==
    ASSUME StaysInv, UNCHANGED <<found, pkg>>, NEW t, tree' = [tree EXCEPT ![who] = t],
           TreeKept(found.tree[who], t)
    PROVE  FoundOK' /\ FoundStays'
  <1>1. \A i \in Instance : TreeKept(found.tree[i], tree'[i])
    BY TypesOf, StaysParts DEF StaysInv
  <1>2. QED  BY <1>1 DEF StaysInv, FoundOK, FoundStays, TreeKept

\* A removal takes nothing that was found.
LEMMA PurgeStays ==
    ASSUME StaysInv, NEW names, Purge(names), \A n \in names : n \in Package => found.pkg[n] # "installed"
    PROVE  \A p \in Package : found.pkg[p] = "installed" /\ pkg[p] = "installed" => pkg'[p] = "installed"
  <1>1. pkg' = pkg \/ pkg' = Repaired(pkg) \/ pkg' = Removed(Repaired(pkg), names)
    BY DEF Purge
  <1>2. \A p \in Package : pkg[p] = "installed" => Repaired(pkg)[p] = "installed"
    BY DEF Repaired
  <1>3. \A p \in Package : p \notin names => Removed(Repaired(pkg), names)[p] = Repaired(pkg)[p]
    BY DEF Removed
  <1>4. QED  BY <1>1, <1>2, <1>3


\* Every action keeps it.
Stays5 == FoundOK /\ FoundStays /\ SnapsOK /\ RunOK

LEMMA WorldStays ==
    ASSUME StaysInv, UNCHANGED <<found, pkg, tree>>
    PROVE  FoundOK' /\ FoundStays'
  BY DEF StaysInv, FoundOK, FoundStays

LEMMA CommandsStay ==
    ASSUME StaysInv, \/ \E i \in Instance : Install(i) \/ Rollback(i)
                     \/ Stops \/ Skip \/ Finish \/ LeaveShared
    PROVE  Stays5'
  <1>1. UNCHANGED <<found, pkg, tree>>
    BY DEF Install, Rollback, Begin, BeginRollback, Stops, Skip, Finish, Finished, LeaveShared, world, machine
  <1>2. FoundOK' /\ FoundStays'
    BY <1>1, WorldStays
  <1>3. ASSUME NEW i \in Instance, Install(i) \/ Rollback(i)
        PROVE  SnapsOK' /\ RunOK'
    <2>1. pc' # "run" /\ who' = i /\ snap' = man[i].snap /\ UNCHANGED man
      BY <1>3 DEF Install, Rollback, Begin, BeginRollback, Take
    <2>2. QED  BY <1>1, <2>1 DEF StaysInv, SnapsOK, SnapOK, RunOK
  <1>4. ASSUME Stops \/ LeaveShared  PROVE SnapsOK' /\ RunOK'
    BY <1>1, <1>4, TypesOf, UndoBelowStays DEF StaysInv, Stops, LeaveShared
  <1>5. ASSUME Skip  PROVE SnapsOK' /\ RunOK'
    BY <1>1, <1>5 DEF Skip, StaysInv, SnapsOK, SnapOK, RunOK
  <1>6. ASSUME Finish  PROVE SnapsOK' /\ RunOK'
    <2>1. /\ pc' = "idle"
          /\ \A i \in Instance : man'[i].snap = man[i].snap
      BY <1>6, TypesOf DEF StaysInv, Finish, Finished, Exit, Manifests
    <2>2. QED  BY <1>1, <2>1 DEF StaysInv, SnapsOK, SnapOK, RunOK
  <1>7. QED  BY <1>2, <1>3, <1>4, <1>5, <1>6 DEF Stays5

\* No name of a delta is that of a package that was found installed, nor of
\* wkhtmltopdf's.
LEMMA DeltaNew ==
    ASSUME StaysInv, NEW groups \in {Tools, Libraries}, NEW n \in Delta(groups)
    PROVE  (n \in Package => found.pkg[n] # "installed") /\ Real(n) # Wkhtmltox
  <1>1. PICK g \in Groups : n \in Added(g)
    BY DEF Delta, Groups
  <1>2. ~IsInstalled(n)
    BY <1>1, AddedOf
  <1>3. Real(n) # Wkhtmltox
    <2>1. n \in Name /\ n # Wkhtmltox
      BY <1>1, AddedOf, GroupNames
    <2>2. QED  BY <2>1, RealType
  <1>4. QED  BY <1>2, <1>3, StaysParts DEF IsInstalled, StaysInv

LEMMA SnapshotsStay ==
    ASSUME StaysInv, \/ SnapshotTools \/ SnapshotLibraries \/ SnapshotWkhtmltopdf
                     \/ SnapshotClone \/ SnapshotVenv \/ SnapshotNothing
    PROVE  Stays5'
  <1>1. /\ UNCHANGED <<found, pkg, tree, man, who, idx>> /\ pc = "snapshot" /\ pc' = "run"
        /\ snap \in Snapshots /\ SnapOK(snap, who)
    BY TypesOf DEF SnapshotTools, SnapshotLibraries, SnapshotWkhtmltopdf, SnapshotClone, SnapshotVenv,
           SnapshotNothing, At, Snapshotted, world, machine, StaysInv, SnapsOK
  <1>2. FoundOK' /\ FoundStays'
    BY <1>1, WorldStays
  <1>3. Verdict(TRUE) = "Preexisting" /\ Verdict(FALSE) = "Untracked"
    BY DEF Verdict
  <1>14. PICK vr : vr = Verdict(tree[who].repo \in {"whole", "partial", "mixed"})
    OBVIOUS
  <1>15. PICK vv : vv = Verdict(tree[who].venv # "absent")
    OBVIOUS
  <1>4. /\ \A n \in snap'.tools \cup snap'.libraries : /\ n \in Package => found.pkg[n] # "installed"
                                                      /\ Real(n) # Wkhtmltox
        /\ \/ snap'.wkhtmltox = snap.wkhtmltox /\ idx # WkhtmltopdfStep
           \/ \E right \in BOOLEAN : SaysItIs(right) /\ snap'.wkhtmltox = Verdict(right)
        /\ \/ snap'.repo = snap.repo /\ idx # CloneStep
           \/ /\ snap'.repo = vr
              /\ tree[who].repo \notin {"other branch", "unborn"}
        /\ \/ snap'.venv = snap.venv /\ idx # VenvStep
           \/ snap'.venv = vv
    <2>1. CASE SnapshotTools
      <3>1. /\ snap'.tools = Delta(Tools) /\ snap'.libraries = snap.libraries
            /\ snap'.wkhtmltox = snap.wkhtmltox /\ snap'.repo = snap.repo /\ snap'.venv = snap.venv
            /\ idx = BootstrapStep
        BY <1>1, <2>1 DEF SnapshotTools, Snapshotted, Snapshots, At
      <3>2. QED  BY <1>1, <3>1, DeltaNew DEF SnapOK
    <2>2. CASE SnapshotLibraries
      <3>0. snap' = [snap EXCEPT !.libraries = Delta(Libraries)] /\ idx = LibrariesStep
        BY <2>2 DEF SnapshotLibraries, Snapshotted, At
      <3>1. /\ snap'.libraries = Delta(Libraries) /\ snap'.tools = snap.tools
            /\ snap'.wkhtmltox = snap.wkhtmltox /\ snap'.repo = snap.repo /\ snap'.venv = snap.venv
            /\ idx = LibrariesStep
        BY <1>1, <3>0 DEF Snapshots
      <3>2. QED  BY <1>1, <3>1, DeltaNew DEF SnapOK
    <2>3. CASE SnapshotWkhtmltopdf
      <3>0. PICK right \in BOOLEAN : SaysItIs(right) /\ snap' = [snap EXCEPT !.wkhtmltox = Verdict(right)]
        BY <2>3 DEF SnapshotWkhtmltopdf, Snapshotted
      <3>1. /\ snap'.libraries = snap.libraries /\ snap'.tools = snap.tools
            /\ snap'.wkhtmltox = Verdict(right)
            /\ snap'.repo = snap.repo /\ snap'.venv = snap.venv /\ idx = WkhtmltopdfStep
        BY <1>1, <2>3, <3>0 DEF SnapshotWkhtmltopdf, Snapshots, At
      <3>2. QED  BY <1>1, <3>0, <3>1 DEF SnapOK
    <2>4. CASE SnapshotClone
      <3>0. PICK v : /\ v = Verdict(tree[who].repo \in {"whole", "partial", "mixed"})
                     /\ snap' = [snap EXCEPT !.repo = v]
        BY <2>4 DEF SnapshotClone, Snapshotted
      <3>3. idx = CloneStep
        BY <2>4 DEF SnapshotClone, At
      <3>7. tree[who].repo \notin {"other branch", "unborn"}
        BY <2>4 DEF SnapshotClone
      <3>4. /\ snap'.libraries = snap.libraries /\ snap'.tools = snap.tools /\ snap'.repo = v
            /\ snap'.wkhtmltox = snap.wkhtmltox /\ snap'.venv = snap.venv
        BY <1>1, <3>0 DEF Snapshots
      <3>1. /\ snap'.libraries = snap.libraries /\ snap'.tools = snap.tools
            /\ snap'.repo = vr
            /\ tree[who].repo \notin {"other branch", "unborn"}
            /\ snap'.wkhtmltox = snap.wkhtmltox /\ snap'.venv = snap.venv /\ idx = CloneStep
        BY <1>14, <3>0, <3>3, <3>4, <3>7
      <3>5. \A n \in snap'.tools \cup snap'.libraries :
              (n \in Package => found.pkg[n] # "installed") /\ Real(n) # Wkhtmltox
        BY <1>1, <3>1 DEF SnapOK
      <3>6. idx # WkhtmltopdfStep /\ idx # VenvStep
        BY <3>3
      <3>2. QED  BY <3>4, <3>5, <3>6, <3>7, <3>0, <1>14
    <2>5. CASE SnapshotVenv
      <3>0. snap' = [snap EXCEPT !.venv = vv]
        BY <1>15, <2>5 DEF SnapshotVenv, Snapshotted
      <3>3. idx = VenvStep
        BY <2>5 DEF SnapshotVenv, At
      <3>1. /\ snap'.libraries = snap.libraries /\ snap'.tools = snap.tools /\ snap'.venv = vv
            /\ snap'.wkhtmltox = snap.wkhtmltox /\ snap'.repo = snap.repo
        BY <1>1, <3>0 DEF Snapshots
      <3>5. \A n \in snap'.tools \cup snap'.libraries :
              (n \in Package => found.pkg[n] # "installed") /\ Real(n) # Wkhtmltox
        BY <1>1, <3>1 DEF SnapOK
      <3>6. idx # WkhtmltopdfStep /\ idx # CloneStep
        BY <3>3
      <3>2. QED  BY <3>1, <3>5, <3>6
    <2>6. CASE SnapshotNothing
      <3>1. snap' = snap /\ idx \in {DirectoryStep, RequirementsStep}
        BY <2>6 DEF SnapshotNothing, Snapshotted, At
      <3>2. \A n \in snap'.tools \cup snap'.libraries :
              (n \in Package => found.pkg[n] # "installed") /\ Real(n) # Wkhtmltox
        BY <1>1, <3>1 DEF SnapOK
      <3>3. idx # WkhtmltopdfStep /\ idx # CloneStep /\ idx # VenvStep
        BY <3>1
      <3>4. QED  BY <3>1, <3>2, <3>3
    <2>7. QED  BY <2>1, <2>2, <2>3, <2>4, <2>5, <2>6
  <1>5. /\ found.pkg[Wkhtmltox] = "installed" => IsInstalled(Wkhtmltox)
        /\ found.tree[who].repo \notin {"absent", "invalid"} => tree[who].repo = found.tree[who].repo
        /\ found.tree[who].venv # "absent" => tree[who].venv # "absent"
        /\ found.tree[who].repo \in Sources
    <2>1. TreeKept(found.tree[who], tree[who])
      BY TypesOf, StaysParts DEF StaysInv
    <2>2. found.tree[who] \in Tree
      BY TypesOf, TreesAssumption DEF StaysInv, FoundOK
    <2>3. QED  BY <2>1, <2>2, StaysParts, NamesAssumption DEF StaysInv, TreeKept, IsInstalled, Tree
  <1>6. snap'.wkhtmltox # "Preexisting" /\ idx = WkhtmltopdfStep => found.pkg[Wkhtmltox] # "installed"
    <2> SUFFICES ASSUME idx = WkhtmltopdfStep, snap'.wkhtmltox # "Preexisting", found.pkg[Wkhtmltox] = "installed"
                 PROVE  FALSE
      OBVIOUS
    <2>1. PICK right \in BOOLEAN : SaysItIs(right) /\ snap'.wkhtmltox = Verdict(right)
      BY <1>4
    <2>2. pkg[Wkhtmltox] = "installed"
      BY StaysParts, NamesAssumption DEF StaysInv
    <2>3. right = TRUE
      BY <2>1, <2>2 DEF SaysItIs
    <2>4. QED  BY <1>3, <2>1, <2>3
  <1>7. snap'.repo # "Preexisting" /\ idx = CloneStep => found.tree[who].repo \in {"absent", "invalid"}
    BY <1>4, <1>5, <1>14 DEF Verdict, Sources
  <1>8. snap'.venv # "Preexisting" /\ idx = VenvStep => found.tree[who].venv = "absent"
    BY <1>4, <1>5, <1>15 DEF Verdict
  <1>9. \A b : Verdict(b) # "CreatedByUs"
    BY DEF Verdict
  <1>10. SnapOK(snap', who)
    BY <1>1, <1>4, <1>9, <1>14, <1>15 DEF SnapOK
  <1>11. SnapsOK'
    BY <1>1, <1>10 DEF StaysInv, SnapsOK, SnapOK
  <1>12. RunOK'
    BY <1>1, <1>6, <1>7, <1>8 DEF RunOK
  <1>13. QED  BY <1>2, <1>11, <1>12 DEF Stays5

LEMMA PackageRunsStay ==
    ASSUME StaysInv, \/ RunDirectory \/ RunPackages \/ PackagesFail
                     \/ RunWkhtmltopdf \/ WkhtmltopdfFails
    PROVE  Stays5'
  <1>1. /\ pc = "run"
        /\ Ran \/ Failed
        /\ UNCHANGED <<found, tree>>
        /\ snap' = snap \/ (snap' = [snap EXCEPT !.wkhtmltox = "CreatedByUs"]
                              /\ idx = WkhtmltopdfStep /\ snap.wkhtmltox # "Preexisting")
        /\ UNCHANGED pkg \/ pkg' \in Cut(Wanted) \/ pkg' \in Cut({Wkhtmltox})
                         \/ \E names : pkg' = With(names, "installed")
    BY DEF RunDirectory, RunPackages, PackagesFail, RunWkhtmltopdf, WkhtmltopdfFails, Running, PackageStep,
           world, machine, Cut
  <1>2. \A p \in Package : pkg[p] = "installed" => pkg'[p] = "installed"
    <2>1. {Wkhtmltox} \in SUBSET Name /\ Wanted \in SUBSET Name
      BY NamesAssumption, WantedType DEF Name, StaysInv
    <2>2. QED  BY <1>1, <2>1, TypesOf, CutType, WithType DEF StaysInv
  <1>3. FoundOK' /\ FoundStays'
    BY <1>1, <1>2, PackagesStay
  <1>4. snap' \in Snapshots /\ SnapOK(snap', who)
    <2>1. snap \in Snapshots /\ SnapOK(snap, who)
      BY <1>1, TypesOf DEF StaysInv, SnapsOK
    <2>2. QED  BY <1>1, <2>1 DEF StaysInv, RunOK, SnapOK, Snapshots, PreState
  <1>5. QED  BY <1>1, <1>3, <1>4, EndsStay DEF StaysInv, Stays5

LEMMA AskAgainStays ==
    ASSUME StaysInv, AskAgain  PROVE Stays5'
  <1>1. UNCHANGED <<found, pkg, tree, man, pc, who, idx, snap>>
    BY DEF AskAgain, machine
  <1>2. QED  BY <1>1, WorldStays DEF StaysInv, Stays5, SnapsOK, SnapOK, RunOK

\* The sources of who, when the snapshot did not find any, were not found.
LEMMA PreparedKept ==
    ASSUME StaysInv, found.tree[who].repo \in {"absent", "invalid"}, NEW r
    PROVE  TreeKept(found.tree[who], [Prepared EXCEPT !.repo = r])
  <1>1. tree[who] \in Tree /\ TreeKept(found.tree[who], tree[who])
    BY TypesOf, StaysParts DEF StaysInv
  <1>2. PICK t \in Tree : t = tree[who]
    BY <1>1
  <1>3. [Prepared EXCEPT !.repo = r].dir = MadeDir(t.dir) /\ [Prepared EXCEPT !.repo = r].venv = t.venv
    BY <1>2 DEF Prepared, Tree
  <1>4. QED  BY <1>1, <1>2, <1>3 DEF TreeKept, MadeDir

LEMMA CloneRunsStay ==
    ASSUME StaysInv, RunClone \/ CloneAgain \/ RunTarball \/ CloneFails
    PROVE  Stays5'
  <1>1. /\ pc = "run" /\ idx = CloneStep /\ UNCHANGED <<found, pkg>>
        /\ snap' = snap \/ (snap' = Claimed /\ snap.repo # "Preexisting")
        /\ UNCHANGED tree \/ snap.repo # "Preexisting"
    BY DEF RunClone, CloneAgain, RunTarball, CloneFails, Running, machine
  <1>2. snap.repo # "Preexisting" => found.tree[who].repo \in {"absent", "invalid"}
    BY <1>1 DEF StaysInv, RunOK
  <1>3. FoundOK' /\ FoundStays'
    <2>1. CASE UNCHANGED tree
      BY <1>1, <2>1, WorldStays
    <2>2. CASE snap.repo # "Preexisting"
      <3>1. PICK t \in Tree : t = tree[who] /\ TreeKept(found.tree[who], t)
        BY TypesOf, StaysParts DEF StaysInv
      <3>2. \/ UNCHANGED tree
            \/ \E r : tree' = [tree EXCEPT ![who] = [Prepared EXCEPT !.repo = r]]
            \/ \E r : tree' = [tree EXCEPT ![who] = [t EXCEPT !.repo = r]]
            \/ t.dir = "absent" /\ tree' = [tree EXCEPT ![who] = [t EXCEPT !.dir = "ours"]]
        BY <3>1 DEF RunClone, CloneAgain, RunTarball, CloneFails
      <3>3. ASSUME NEW r, tree' = [tree EXCEPT ![who] = [Prepared EXCEPT !.repo = r]]
            PROVE  FoundOK' /\ FoundStays'
        BY <1>1, <1>2, <2>2, <3>3, PreparedKept, TreeStays
      <3>4. ASSUME NEW r, tree' = [tree EXCEPT ![who] = [t EXCEPT !.repo = r]]
            PROVE  FoundOK' /\ FoundStays'
        <4>1. TreeKept(found.tree[who], [t EXCEPT !.repo = r])
          BY <1>2, <2>2, <3>1 DEF TreeKept, Tree
        <4>2. QED  BY <1>1, <3>4, <4>1, TreeStays
      <3>5. ASSUME t.dir = "absent", tree' = [tree EXCEPT ![who] = [t EXCEPT !.dir = "ours"]]
            PROVE  FoundOK' /\ FoundStays'
        <4>1. TreeKept(found.tree[who], [t EXCEPT !.dir = "ours"])
          BY <1>2, <2>2, <3>1, <3>5 DEF TreeKept, Tree
        <4>2. QED  BY <1>1, <3>5, <4>1, TreeStays
      <3>6. QED  BY <1>1, <3>2, <3>3, <3>4, <3>5, WorldStays
    <2>3. QED  BY <1>1, <2>1, <2>2
  <1>4. snap' \in Snapshots /\ SnapOK(snap', who)
    <2>1. snap \in Snapshots /\ SnapOK(snap, who)
      BY <1>1, TypesOf DEF StaysInv, SnapsOK
    <2>2. QED  BY <1>1, <1>2, <2>1 DEF Claimed, SnapOK, Snapshots, PreState
  <1>5. CASE CloneAgain
    <2>1. UNCHANGED <<man, pc, who, idx>> /\ snap' = Claimed
      BY <1>5 DEF CloneAgain
    <2>2. SnapsOK'
      BY <1>1, <1>4, <2>1 DEF StaysInv, SnapsOK, SnapOK
    <2>3. RunOK'
      BY <1>1, <1>2, <2>1 DEF RunOK
    <2>4. QED  BY <1>3, <2>2, <2>3 DEF Stays5
  <1>6. CASE RunClone \/ RunTarball \/ CloneFails
    <2>1. Ran \/ Failed
      BY <1>6 DEF RunClone, RunTarball, CloneFails
    <2>2. QED  BY <1>1, <1>3, <1>4, <2>1, EndsStay DEF StaysInv, Stays5
  <1>7. QED  BY <1>5, <1>6

LEMMA VenvRunsStay ==
    ASSUME StaysInv, RunVenv \/ VenvFails \/ RunRequirements \/ RequirementsFail
    PROVE  Stays5'
  <1>1. /\ pc = "run" /\ UNCHANGED <<found, pkg>>
        /\ Ran \/ Failed
        /\ snap' = snap \/ (snap' = [snap EXCEPT !.venv = "CreatedByUs"]
                              /\ idx = VenvStep /\ snap.venv # "Preexisting")
    BY DEF RunVenv, VenvFails, RunRequirements, RequirementsFail, Running, machine, world
  <1>2. idx = VenvStep /\ snap.venv # "Preexisting" => found.tree[who].venv = "absent"
    BY <1>1 DEF StaysInv, RunOK
  <1>3. FoundOK' /\ FoundStays'
    <2>1. PICK t \in Tree : t = tree[who] /\ TreeKept(found.tree[who], t)
      BY TypesOf, StaysParts DEF StaysInv
    <2>2. \/ UNCHANGED tree
          \/ /\ idx = VenvStep /\ snap.venv # "Preexisting"
             /\ tree' = [tree EXCEPT ![who] = [t EXCEPT !.venv = "bare", !.dir = MadeDir(@)]]
          \/ /\ idx = VenvStep /\ snap.venv # "Preexisting"
             /\ tree' = [tree EXCEPT ![who] = [t EXCEPT !.venv = "half"]]
          \/ /\ t.venv \in {"bare", "filled"}
             /\ tree' = [tree EXCEPT ![who] = [t EXCEPT !.venv = "filled"]]
      BY <2>1 DEF RunVenv, VenvFails, RunRequirements, RequirementsFail, world, Running
    <2>3. CASE UNCHANGED tree
      BY <1>1, <2>3, WorldStays
    <2>4. CASE /\ idx = VenvStep /\ snap.venv # "Preexisting"
               /\ tree' = [tree EXCEPT ![who] = [t EXCEPT !.venv = "bare", !.dir = MadeDir(@)]]
      <3>1. TreeKept(found.tree[who], [t EXCEPT !.venv = "bare", !.dir = MadeDir(@)])
        BY <1>2, <2>1, <2>4 DEF TreeKept, Tree, MadeDir
      <3>2. QED  BY <1>1, <2>4, <3>1, TreeStays
    <2>5. CASE /\ idx = VenvStep /\ snap.venv # "Preexisting"
               /\ tree' = [tree EXCEPT ![who] = [t EXCEPT !.venv = "half"]]
      <3>1. TreeKept(found.tree[who], [t EXCEPT !.venv = "half"])
        BY <1>2, <2>1, <2>5 DEF TreeKept, Tree
      <3>2. QED  BY <1>1, <2>5, <3>1, TreeStays
    <2>6. CASE /\ t.venv \in {"bare", "filled"}
               /\ tree' = [tree EXCEPT ![who] = [t EXCEPT !.venv = "filled"]]
      <3>1. TreeKept(found.tree[who], [t EXCEPT !.venv = "filled"])
        BY <2>1, <2>6 DEF TreeKept, Tree
      <3>2. QED  BY <1>1, <2>6, <3>1, TreeStays
    <2>7. QED  BY <2>2, <2>3, <2>4, <2>5, <2>6
  <1>4. snap' \in Snapshots /\ SnapOK(snap', who)
    <2>1. snap \in Snapshots /\ SnapOK(snap, who)
      BY <1>1, TypesOf DEF StaysInv, SnapsOK
    <2>2. QED  BY <1>1, <1>2, <2>1 DEF SnapOK, Snapshots, PreState
  <1>5. QED  BY <1>1, <1>3, <1>4, EndsStay DEF StaysInv, Stays5


LEMMA UndosStay ==
    ASSUME StaysInv, UndoTools \/ UndoLibraries \/ UndoWkhtmltopdf \/ UndoClone \/ UndoVenv \/ UndoNothing
    PROVE  Stays5'
  <1>1. Undone /\ pc = "undo" /\ UNCHANGED found
    BY DEF UndoTools, UndoLibraries, UndoWkhtmltopdf, UndoClone, UndoVenv, UndoNothing, Undoing, world, machine
  <1>2. SnapOK(snap, who) /\ snap \in Snapshots /\ who \in Instance
    BY <1>1, TypesOf DEF StaysInv, SnapsOK
  <1>3. SnapsOK' /\ RunOK'
    <2>1. recorded \in SUBSET Steps /\ recorded \ {idx} \in SUBSET Steps
      BY TypesOf DEF StaysInv
    <2>2. UndoBelow(idx, recorded) \/ UndoBelow(idx, recorded \ {idx})
      BY <1>1 DEF Undone
    <2>3. QED  BY <1>1, <2>1, <2>2, UndoBelowStays DEF StaysInv
  <1>4. PICK t \in Tree : t = tree[who] /\ TreeKept(found.tree[who], t)
    BY TypesOf, StaysParts DEF StaysInv
  <1>5. FoundOK' /\ FoundStays'
    <2>1. CASE UndoTools \/ UndoLibraries \/ UndoWkhtmltopdf
      <3>1. UNCHANGED tree
        BY <2>1 DEF UndoTools, UndoLibraries, UndoWkhtmltopdf
      <3>2. \/ UNCHANGED pkg \/ Purge(snap.tools) \/ Purge(snap.libraries)
            \/ snap.wkhtmltox = "CreatedByUs" /\ Purge({Wkhtmltox})
        BY <2>1 DEF UndoTools, UndoLibraries, UndoWkhtmltopdf
      <3>3. \A p \in Package : found.pkg[p] = "installed" /\ pkg[p] = "installed" => pkg'[p] = "installed"
        BY <1>2, <3>2, PurgeStays DEF SnapOK
      <3>4. QED  BY <1>1, <3>1, <3>3, PackagesStay
    <2>2. CASE UndoClone
      <3>1. UNCHANGED pkg
        BY <2>2 DEF UndoClone
      <3>2. CASE UNCHANGED tree
        BY <1>1, <3>1, <3>2, WorldStays
      <3>3. CASE ~UNCHANGED tree
        <4>1. snap.repo = "CreatedByUs"
          BY <2>2, <3>3 DEF UndoClone
        <4>2. PICK repo \in BOOLEAN : \E modules, container \in BOOLEAN :
                LET u == [tree[who] EXCEPT !.repo = IF repo THEN "absent" ELSE @,
                                           !.modules = IF modules THEN "absent" ELSE @]
                IN  tree' = [tree EXCEPT ![who] = IF container THEN WithoutContainer(u) ELSE u]
          BY <2>2, <4>1 DEF UndoClone
        <4>3. PICK modules \in BOOLEAN, container \in BOOLEAN :
                LET u == [tree[who] EXCEPT !.repo = IF repo THEN "absent" ELSE @,
                                           !.modules = IF modules THEN "absent" ELSE @]
                IN  tree' = [tree EXCEPT ![who] = IF container THEN WithoutContainer(u) ELSE u]
          BY <4>2
        <4>4. PICK u \in Tree : u = [t EXCEPT !.repo = IF repo THEN "absent" ELSE @,
                                              !.modules = IF modules THEN "absent" ELSE @]
          BY DEF Tree, Sources, Whose
        <4>5. found.tree[who].repo \in {"absent", "invalid"}
          BY <1>2, <4>1 DEF SnapOK
        <4>6. u.dir = t.dir /\ u.venv = t.venv
          BY <4>4 DEF Tree
        <4>7. TreeKept(found.tree[who], u)
          BY <1>4, <4>5, <4>6 DEF TreeKept
        <4>8. TreeKept(found.tree[who], WithoutContainer(u))
          BY <4>5, <4>7 DEF TreeKept, WithoutContainer, IsEmpty, Tree
        <4>9. tree' = [tree EXCEPT ![who] = u] \/ tree' = [tree EXCEPT ![who] = WithoutContainer(u)]
          BY <1>4, <4>3, <4>4
        <4>10. QED  BY <1>1, <3>1, <4>7, <4>8, <4>9, TreeStays
      <3>4. QED  BY <3>2, <3>3
    <2>3. CASE UndoVenv
      <3>1. UNCHANGED pkg
        BY <2>3 DEF UndoVenv
      <3>2. CASE UNCHANGED tree
        BY <1>1, <3>1, <3>2, WorldStays
      <3>3. CASE snap.venv = "CreatedByUs" /\ tree' = [tree EXCEPT ![who] = [t EXCEPT !.venv = "absent"]]
        <4>1. TreeKept(found.tree[who], [t EXCEPT !.venv = "absent"])
          BY <1>2, <1>4, <3>3 DEF TreeKept, SnapOK, Tree
        <4>2. QED  BY <1>1, <3>1, <3>3, <4>1, TreeStays
      <3>4. QED  BY <1>4, <2>3, <3>2, <3>3 DEF UndoVenv
    <2>4. CASE UndoNothing
      BY <1>1, <2>4, WorldStays DEF UndoNothing, world
    <2>5. QED  BY <2>1, <2>2, <2>3, <2>4 DEF UndoTools
  <1>6. QED  BY <1>3, <1>5 DEF Stays5

LEMMA DieStays ==
    ASSUME StaysInv, Die  PROVE Stays5'
  <1>1. Dies /\ UNCHANGED <<man, found>> /\ pc' = "idle"
    BY DEF Die, Dies, Exit, machine
  <1>2. SnapsOK' /\ RunOK'
    BY <1>1 DEF StaysInv, SnapsOK, SnapOK, RunOK
  <1>3. FoundOK' /\ FoundStays'
    <2>0. {Wkhtmltox} \in SUBSET Name
      BY NamesAssumption DEF Name
    <2>1. CASE UNCHANGED tree /\ (UNCHANGED pkg \/ pkg' \in Cut(Wanted) \/ pkg' \in Cut({Wkhtmltox}))
      BY <1>1, <2>0, <2>1, TypesOf, CutType, WantedType, PackagesStay DEF StaysInv
    <2>2. CASE /\ UNCHANGED pkg /\ Running(CloneStep) /\ snap.repo # "Preexisting"
               /\ \E torn : tree' = [tree EXCEPT ![who] = [Prepared EXCEPT !.repo = torn]]
      <3>1. found.tree[who].repo \in {"absent", "invalid"}
        BY <2>2 DEF StaysInv, RunOK, Running
      <3>2. QED  BY <1>1, <2>2, <3>1, PreparedKept, TreeStays
    <2>3. QED  BY <1>1, <2>1, <2>2 DEF Die
  <1>4. QED  BY <1>2, <1>3 DEF Stays5

LEMMA InitStays ==
    ASSUME Init  PROVE StaysInv
  <1>1. found = [pkg |-> pkg, tree |-> tree] /\ pc = "idle" /\ tree \in [Instance -> FoundTrees]
    BY DEF Init, Start
  <1>2. pkg \in [Package -> {"absent", "other", "installed"}]
    BY DEF Init
  <1>3. FoundOK /\ FoundStays
    BY <1>1, <1>2 DEF FoundOK, FoundStays
  <1>4. \A i \in Instance : man[i].snap = Default
    BY DEF Init, Start, NoManifest
  <1>5. SnapsOK /\ RunOK
    BY <1>1, <1>4, DefaultSnapOK DEF SnapsOK, RunOK
  <1>6. QED  BY <1>3, <1>5, InitType DEF StaysInv

LEMMA NextStays ==
    ASSUME StaysInv, [Next]_vars  PROVE StaysInv'
  <1>1. TypeInv'
    BY NextType DEF StaysInv
  <1>2. CASE UNCHANGED vars
    BY <1>1, <1>2 DEF vars, world, machine, StaysInv, FoundOK, FoundStays, SnapsOK, SnapOK, RunOK
  <1>3. CASE Next
    <2>1. Stays5'
      BY <1>3, CommandsStay, SnapshotsStay, PackageRunsStay, AskAgainStays, CloneRunsStay,
         VenvRunsStay, UndosStay, DieStays DEF Next
    <2>2. QED  BY <1>1, <2>1 DEF Stays5, StaysInv
  <1>4. QED  BY <1>2, <1>3

\* Whatever fails, dies or leaves a package manager half-way, no package that was
\* found is removed, but a wkhtmltox of another version than the pinned one, nor a
\* directory of theirs, nor sources or a virtualenv that were there.
THEOREM SoftwareFoundStays == Spec => []FoundStays
  <1>1. StaysInv => FoundStays
    BY DEF StaysInv
  <1>2. QED  BY <1>1, InitStays, NextStays, PTL DEF Spec

-----------------------------------------------------------------------------
(* What the process and the manifests say of each other.                   *)

Shareds == {BootstrapStep, LibrariesStep, WkhtmltopdfStep}

Book ==
    /\ pc \in {"snapshot", "run"} => recorded = man[who].steps
    /\ pc # "idle" => others = LiveOthers(who)

NoFault == faults = 0 /\ ~spoilt

\* Without a fault a run has recorded the steps before the one it is at, a rollback
\* leaves no step above the one it is at but what others share, and a manifest is
\* that of a whole installation or holds only such steps.
Clean ==
    /\ pc \in {"snapshot", "run"} => recorded = 1 .. idx - 1 /\ who \notin remains
    /\ pc = "undo" => \A k \in recorded : k > idx => k \in Shareds
    /\ \A i \in Instance : man[i].finished => man[i].steps = Steps
    /\ \A i \in remains : man[i].steps \subseteq Shareds /\ ~man[i].finished
    /\ \A i \in Instance \ remains : i # who \/ pc = "idle" => man[i].steps = {} \/ man[i].finished

CleanInv == TypeInv /\ Book /\ (NoFault => Clean)

LEMMA SharedScope ==
    ASSUME NEW k \in Steps, NEW i
    PROVE  Scope(k, i) = IF k \in Shareds THEN "Shared" ELSE "OwnInstance"
  BY DEF Scope, Shareds

\* A finished instance lives for the others.
LEMMA FinishedLives ==
    ASSUME CleanInv, NoFault, NEW i \in Instance, man[i].finished, i # who, pc # "idle"
    PROVE  i \in others
  <1>1. man[i].steps = Steps
    BY DEF CleanInv, Clean
  <1>2. DirectoryStep \in Steps /\ DirectoryStep \notin Shareds
    BY DEF Steps, Shareds
  <1>3. IsLive(i)
    BY <1>1, <1>2, SharedScope DEF IsLive
  <1>4. QED  BY <1>3 DEF CleanInv, Book, LiveOthers

\* Who else lives does not depend on the process's own manifest.
LEMMA OthersSame ==
    ASSUME Book, pc # "idle", UNCHANGED <<who, others>>,
           UNCHANGED man \/ \E m : man' = [man EXCEPT ![who] = m], man \in [Instance -> Manifests]
    PROVE  others' = LiveOthers(who)'
  <1>1. \A j \in Instance \ {who} : man'[j] = man[j]
    OBVIOUS
  <1>2. QED  BY <1>1 DEF Book, LiveOthers, IsLive

LEMMA ManifestSteps ==
    \A s, K : Manifest(s, K, FALSE).steps = K /\ Manifest(s, K, FALSE).finished = FALSE
  BY DEF Manifest, NoManifest

LEMMA UndoBelowClean ==
    ASSUME TypeInv, Book, pc # "idle", NEW k \in 1 .. 8, NEW K \in SUBSET Steps, UndoBelow(k, K)
    PROVE  /\ Book'
           /\ Clean /\ (\A j \in K : j >= k => j \in Shareds) => Clean'
  <1>1. man \in [Instance -> Manifests] /\ who \in Instance /\ snap \in Snapshots /\ remains \subseteq Instance
    BY TypesOf
  <1>2. CASE {j \in K : j < k} = {}
    <2>1. /\ pc' = "idle" /\ man' = [man EXCEPT ![who] = Manifest(snap, K, FALSE)]
          /\ remains' = IF K = {} THEN remains \ {who} ELSE remains \cup {who}
      BY <1>2 DEF UndoBelow, Exit
    <2>0. Manifest(snap, K, FALSE).steps = K /\ Manifest(snap, K, FALSE).finished = FALSE
      BY ManifestSteps
    <2>2. man'[who].steps = K /\ man'[who].finished = FALSE
      BY <1>1, <2>0, <2>1
    <2>3. \A i \in Instance : i # who => man'[i] = man[i]
      BY <1>1, <2>1
    <2>4. ASSUME Clean, \A j \in K : j >= k => j \in Shareds  PROVE Clean'
      <3>1. K \subseteq Shareds
        BY <1>2, <2>4 DEF Steps
      <3>2. \A i \in Instance : man'[i].finished => man'[i].steps = Steps
        BY <2>2, <2>3, <2>4 DEF Clean
      <3>3. \A i \in remains' : man'[i].steps \subseteq Shareds /\ ~man'[i].finished
        BY <1>1, <2>1, <2>2, <2>3, <2>4, <3>1 DEF Clean
      <3>4. \A i \in Instance \ remains' : man'[i].steps = {} \/ man'[i].finished
        BY <1>1, <2>1, <2>2, <2>3, <2>4 DEF Clean
      <3>5. QED  BY <2>1, <3>2, <3>3, <3>4 DEF Clean
    <2>5. Book'
      BY <2>1 DEF Book
    <2>6. QED  BY <2>4, <2>5
  <1>3. CASE {j \in K : j < k} # {}
    <2>1. /\ pc' = "undo" /\ recorded' = K /\ idx' = Max({j \in K : j < k})
          /\ UNCHANGED <<who, snap, others, man, remains>>
      BY <1>3 DEF UndoBelow
    <2>2. \A j \in {j \in K : j < k} : j <= idx'
      BY <1>3, <2>1, MaxIn
    <2>3. Book'
      BY <1>1, <2>1, OthersSame DEF Book
    <2>4. ASSUME Clean, \A j \in K : j >= k => j \in Shareds  PROVE Clean'
      <3>1. idx' \in Steps
        <4>1. {j \in K : j < k} \in SUBSET Steps
          OBVIOUS
        <4>2. QED  BY <1>3, <2>1, <4>1, MaxIn
      <3>2. \A j \in recorded' : j > idx' => j \in Shareds
        BY <2>1, <2>2, <2>4, <3>1 DEF Steps
      <3>3. QED  BY <2>1, <2>4, <3>2 DEF Clean
    <2>5. QED  BY <2>3, <2>4
  <1>4. QED  BY <1>2, <1>3


\* What an action is for the process.
Processes ==
    \/ \E i \in Instance : Install(i) \/ Rollback(i)
    \/ Stops \/ Skip \/ Finish \/ LeaveShared
    \/ pc = "snapshot" /\ idx \in Steps /\ \E s : Snapshotted(s)
    \/ pc = "run" /\ (Ran \/ Failed)
    \/ AskAgain \/ CloneAgain
    \/ pc = "undo" /\ Undone
    \/ Dies

LEMMA NextProcesses ==
    ASSUME TypeInv, Next
    PROVE  Processes /\ UNCHANGED found /\ (spoilt => spoilt')
           /\ (UNCHANGED faults \/ faults' = faults + 1)
  <1>1. Processes
    <2>1. CASE \/ SnapshotTools \/ SnapshotLibraries \/ SnapshotWkhtmltopdf
               \/ SnapshotClone \/ SnapshotVenv \/ SnapshotNothing
      <3>1. pc = "snapshot" /\ idx \in {1, 2, 3, 4, 5, 6, 7}
        BY <2>1 DEF SnapshotTools, SnapshotLibraries, SnapshotWkhtmltopdf, SnapshotClone, SnapshotVenv,
                    SnapshotNothing, At
      <3>2. \E s : Snapshotted(s)
        BY <2>1 DEF SnapshotTools, SnapshotLibraries, SnapshotWkhtmltopdf, SnapshotClone, SnapshotVenv,
                    SnapshotNothing
      <3>3. QED  BY <3>1, <3>2 DEF Processes, Steps
    <2>2. CASE \/ RunDirectory \/ RunPackages \/ PackagesFail \/ RunWkhtmltopdf \/ WkhtmltopdfFails
               \/ RunClone \/ RunTarball \/ CloneFails
               \/ RunVenv \/ VenvFails \/ RunRequirements \/ RequirementsFail
      BY <2>2 DEF Processes, RunDirectory, RunPackages, PackagesFail, PackageStep, RunWkhtmltopdf,
                  WkhtmltopdfFails, RunClone, RunTarball, CloneFails, RunVenv, VenvFails, RunRequirements,
                  RequirementsFail, Running
    <2>3. CASE \/ UndoTools \/ UndoLibraries \/ UndoWkhtmltopdf
               \/ UndoClone \/ UndoVenv \/ UndoNothing
      BY <2>3 DEF Processes, UndoTools, UndoLibraries, UndoWkhtmltopdf, UndoClone, UndoVenv, UndoNothing, Undoing
    <2>4. QED  BY <2>1, <2>2, <2>3 DEF Next, Processes, Die
  <1>2. UNCHANGED found /\ (UNCHANGED faults \/ Fault)
    <2>1. CASE \/ \E i \in Instance : Install(i) \/ Rollback(i)
               \/ Stops \/ Skip \/ Finish \/ LeaveShared
      BY <2>1 DEF Install, Rollback, Begin, BeginRollback, Stops, Skip, Finish, Finished, LeaveShared, world, machine
    <2>2. CASE \/ SnapshotTools \/ SnapshotLibraries \/ SnapshotWkhtmltopdf
               \/ SnapshotClone \/ SnapshotVenv \/ SnapshotNothing
      BY <2>2 DEF SnapshotTools, SnapshotLibraries, SnapshotWkhtmltopdf, SnapshotClone, SnapshotVenv,
                  SnapshotNothing, Snapshotted, world, machine
    <2>3. CASE \/ RunDirectory \/ RunPackages \/ AskAgain \/ PackagesFail
               \/ RunWkhtmltopdf \/ WkhtmltopdfFails
      BY <2>3 DEF RunDirectory, RunPackages, AskAgain, PackagesFail, RunWkhtmltopdf, WkhtmltopdfFails, Ran,
                  world, machine
    <2>4. CASE \/ RunClone \/ CloneAgain \/ RunTarball \/ CloneFails
               \/ RunVenv \/ VenvFails \/ RunRequirements \/ RequirementsFail
      BY <2>4 DEF RunClone, CloneAgain, RunTarball, CloneFails, RunVenv, VenvFails, RunRequirements,
                  RequirementsFail, Ran, world, machine
    <2>5. CASE \/ UndoTools \/ UndoLibraries \/ UndoWkhtmltopdf
               \/ UndoClone \/ UndoVenv \/ UndoNothing
      BY <2>5 DEF UndoTools, UndoLibraries, UndoWkhtmltopdf, Purge, UndoClone, UndoVenv, UndoNothing,
                  world, machine
    <2>6. CASE Die
      BY <2>6 DEF Die, Dies, machine
    <2>7. QED  BY <2>1, <2>2, <2>3, <2>4, <2>5, <2>6 DEF Next
  <1>3. spoilt => spoilt'
    BY <1>1 DEF Processes, Install, Rollback, Begin, BeginRollback, Stops, Skip, Finish, Finished, LeaveShared,
                Snapshotted, Ran, Failed, AskAgain, CloneAgain, Undone, Dies
  <1>4. QED  BY <1>1, <1>2, <1>3 DEF Fault

\* What has not gone wrong by now had not before, and no process has died.
LEMMA NoFaultBefore ==
    ASSUME TypeInv, Next, NoFault'
    PROVE  NoFault /\ UNCHANGED faults /\ ~Fault /\ ~Dies
  <1>1. faults \in Nat /\ faults' = 0
    BY TypesOf, BoundsAssumption DEF NoFault
  <1>2. UNCHANGED faults
    BY <1>1, NextProcesses
  <1>3. QED  BY <1>1, <1>2, NextProcesses DEF NoFault, Fault, Dies

LEMMA NextClean ==
    ASSUME CleanInv, [Next]_vars  PROVE CleanInv'
  <1>1. TypeInv'
    BY NextType DEF CleanInv
  <1>2. CASE UNCHANGED vars
    BY <1>1, <1>2 DEF vars, world, machine, CleanInv, Book, LiveOthers, IsLive, NoFault, Clean
  <1>3. CASE Next
    <2>1. /\ man \in [Instance -> Manifests] /\ who \in Instance /\ snap \in Snapshots
          /\ recorded \in SUBSET Steps /\ idx \in 1 .. 8 /\ snap' \in Snapshots /\ remains \subseteq Instance
          /\ recorded \cup {idx} \in SUBSET Steps \/ idx \notin Steps
          /\ recorded \ {idx} \in SUBSET Steps
      BY <1>1, TypesOf DEF CleanInv, TypeInv, TypeOK, ProcessType
    <2>2. NoFault' => NoFault
      BY <1>3, NoFaultBefore DEF CleanInv
    <2>3. SUFFICES Book' /\ (NoFault' => Clean')
      BY <1>1 DEF CleanInv
    <2>4. CASE \E i \in Instance : Install(i) \/ Rollback(i)
      <3>1. PICK i \in Instance : Install(i) \/ Rollback(i)
        BY <2>4
      <3>2. /\ who' = i /\ recorded' = man[i].steps /\ others' = LiveOthers(i) /\ UNCHANGED <<man, remains>>
            /\ pc = "idle" /\ pc' \in {"snapshot", "undo"}
        BY <3>1 DEF Install, Rollback, Begin, BeginRollback, Take
      <3>3. Book'
        BY <3>2 DEF Book, LiveOthers, IsLive
      <3>4. ASSUME NoFault', Clean  PROVE Clean'
        <4>1. CASE Install(i)
          <5>1. pc' = "snapshot" /\ idx' = 1 /\ ~man[i].finished /\ i \notin remains
            BY <3>4, <4>1 DEF Install, Begin, NoFault
          <5>2. man[i].steps = {}
            BY <3>2, <3>4, <5>1 DEF Clean
          <5>3. recorded' = 1 .. idx' - 1 /\ who' \notin remains'
            BY <3>2, <5>1, <5>2
          <5>4. QED  BY <3>2, <3>4, <5>1, <5>3 DEF Clean
        <4>2. CASE Rollback(i)
          <5>1. pc' = "undo" /\ idx' = Max(man[i].steps) /\ man[i].steps # {}
            BY <4>2 DEF Rollback, BeginRollback
          <5>2. man[i].steps \in SUBSET Steps
            BY <2>1 DEF Manifests
          <5>3. idx' \in Steps /\ \A k \in recorded' : k <= idx'
            BY <3>2, <5>1, <5>2, MaxIn
          <5>4. \A k \in recorded' : ~(k > idx')
            BY <3>2, <5>2, <5>3 DEF Steps
          <5>5. QED  BY <3>2, <3>4, <5>1, <5>4 DEF Clean
        <4>3. QED  BY <3>1, <4>1, <4>2
      <3>5. QED  BY <2>2, <3>3, <3>4 DEF CleanInv
    <2>5. CASE Stops \/ LeaveShared
      <3>1. UndoBelow(idx, recorded) /\ pc # "idle"
        BY <2>5 DEF Stops, LeaveShared
      <3>2. NoFault => \A j \in recorded : j >= idx => j \in Shareds
        <4>1. CASE Stops
          BY <2>1, <4>1 DEF Stops, CleanInv, Clean
        <4>2. CASE LeaveShared
          <5>1. pc = "undo" /\ idx \in Steps /\ idx \in Shareds
            BY <4>2, TypesOf, SharedScope DEF LeaveShared, HeldBack, CleanInv
          <5>2. QED  BY <2>1, <5>1 DEF CleanInv, Clean, Steps
        <4>3. QED  BY <2>5, <4>1, <4>2
      <3>3. QED  BY <2>1, <2>2, <3>1, <3>2, UndoBelowClean DEF CleanInv
    <2>6. CASE Skip
      <3>1. UNCHANGED <<man, remains, pc, who, recorded, others>> /\ pc = "snapshot" /\ idx \in recorded
        BY <2>6 DEF Skip
      <3>2. Book'
        BY <3>1, <2>1, OthersSame DEF CleanInv, Book
      <3>3. NoFault => FALSE
        BY <2>1, <3>1 DEF CleanInv, Clean
      <3>4. QED  BY <2>2, <3>2, <3>3
    <2>7. CASE Finish
      <3>1. /\ pc = "snapshot" /\ idx = 8 /\ man' = [man EXCEPT ![who].finished = TRUE]
            /\ pc' = "idle" /\ UNCHANGED remains
        BY <2>7 DEF Finish, Finished, Exit
      <3>2. \A i \in Instance : man'[i].steps = man[i].steps /\ (i # who => man'[i] = man[i])
        BY <2>1, <3>1 DEF Manifests
      <3>3. man'[who].finished = TRUE
        BY <2>1, <3>1 DEF Manifests
      <3>4. ASSUME Clean  PROVE Clean'
        <4>1. man[who].steps = Steps
          BY <3>1, <3>4 DEF Clean, CleanInv, Book, Steps
        <4>2. who \notin remains
          BY <3>1, <3>4 DEF Clean
        <4>3. QED  BY <2>1, <3>1, <3>2, <3>3, <3>4, <4>1, <4>2 DEF Clean
      <3>5. Book'
        BY <3>1 DEF Book
      <3>6. QED  BY <2>2, <3>4, <3>5 DEF CleanInv
    <2>8. CASE pc = "snapshot" /\ idx \in Steps /\ \E s : Snapshotted(s)
      <3>1. UNCHANGED <<man, remains, who, idx, recorded, others>> /\ pc = "snapshot" /\ pc' = "run"
        BY <2>8 DEF Snapshotted
      <3>2. Book'
        BY <3>1, <2>1, OthersSame DEF CleanInv, Book
      <3>3. Clean => Clean'
        BY <3>1 DEF Clean
      <3>4. QED  BY <2>2, <3>2, <3>3 DEF CleanInv
    <2>9. CASE AskAgain \/ CloneAgain
      <3>1. UNCHANGED <<man, remains, who, idx, recorded, others, pc>> /\ pc = "run"
        BY <2>9 DEF AskAgain, CloneAgain, PackageStep, Running
      <3>2. Book'
        BY <3>1, <2>1, OthersSame DEF CleanInv, Book
      <3>3. Clean => Clean'
        BY <3>1 DEF Clean
      <3>4. QED  BY <2>2, <3>2, <3>3 DEF CleanInv
    <2>10. CASE pc = "run" /\ Ran
      <3>1. /\ pc' = "snapshot" /\ idx' = idx + 1 /\ recorded' = recorded \cup {idx}
            /\ man' = [man EXCEPT ![who] = Manifest(snap', recorded', FALSE)]
            /\ UNCHANGED <<who, others, remains>>
        BY <2>10 DEF Ran
      <3>2. recorded' \in SUBSET Steps /\ idx \in Steps
        BY <2>1, <2>10, <3>1, TypesOf DEF CleanInv
      <3>3. Manifest(snap', recorded', FALSE).steps = recorded' /\ Manifest(snap', recorded', FALSE).finished = FALSE
        BY ManifestSteps
      <3>4. man'[who].steps = recorded' /\ man'[who].finished = FALSE /\ \A i \in Instance : i # who => man'[i] = man[i]
        BY <2>1, <3>1, <3>3
      <3>5. others' = LiveOthers(who)'
        BY <2>1, <2>10, <3>1, OthersSame DEF CleanInv
      <3>6. Book'
        BY <3>1, <3>4, <3>5 DEF Book
      <3>7. ASSUME Clean  PROVE Clean'
        <4>1. recorded = 1 .. idx - 1 /\ who \notin remains
          BY <2>10, <3>7 DEF Clean
        <4>2. recorded' = 1 .. idx' - 1
          BY <2>1, <3>1, <4>1
        <4>3. \A i \in Instance : man'[i].finished => man'[i].steps = Steps
          BY <3>4, <3>7 DEF Clean
        <4>4. \A i \in remains : man'[i] = man[i]
          BY <2>1, <3>4, <4>1
        <4>5. \A i \in Instance \ remains : i # who => man'[i].steps = {} \/ man'[i].finished
          BY <3>4, <3>7 DEF Clean
        <4>6. QED  BY <2>1, <3>1, <3>7, <4>1, <4>2, <4>3, <4>4, <4>5 DEF Clean
      <3>8. QED  BY <2>2, <3>6, <3>7 DEF CleanInv
    <2>11. CASE pc = "run" /\ Failed
      <3>1. UNCHANGED <<man, remains, who, idx, recorded, others>> /\ pc = "run" /\ pc' = "undo"
        BY <2>11 DEF Failed
      <3>2. Book'
        BY <3>1, <2>1, OthersSame DEF CleanInv, Book
      <3>3. ASSUME Clean  PROVE Clean'
        <4>1. \A k \in recorded : ~(k > idx)
          BY <2>1, <3>1, <3>3 DEF Clean
        <4>2. QED  BY <3>1, <3>3, <4>1 DEF Clean
      <3>4. QED  BY <2>2, <3>2, <3>3 DEF CleanInv
    <2>12. CASE pc = "undo" /\ Undone
      <3>1. idx \in Steps
        BY <2>12, TypesOf DEF CleanInv
      <3>2. UndoBelow(idx, recorded \ {idx})
        BY <2>12, <3>1, SharedScope DEF Undone
      <3>3. NoFault => \A j \in recorded \ {idx} : j >= idx => j \in Shareds
        BY <2>1, <2>12, <3>1 DEF CleanInv, Clean, Steps
      <3>4. QED  BY <2>1, <2>2, <2>12, <3>2, <3>3, UndoBelowClean DEF CleanInv
    <2>13. CASE Dies
      <3>1. pc' = "idle" /\ ~NoFault'
        BY <1>3, <2>13, NoFaultBefore DEF Dies, Exit, CleanInv
      <3>2. QED  BY <3>1 DEF Book
    <2>14. QED
      BY <1>3, <2>4, <2>5, <2>6, <2>7, <2>8, <2>9, <2>10, <2>11, <2>12, <2>13, NextProcesses
         DEF Processes, CleanInv
  <1>4. QED  BY <1>2, <1>3

LEMMA InitClean ==
    ASSUME Init  PROVE CleanInv
  BY InitType DEF Init, Start, CleanInv, Book, Clean, NoManifest

-----------------------------------------------------------------------------
(* A finished instance is whole.                                           *)

\* What an instance has once it has run some steps.
Has(i, K) ==
    /\ BootstrapStep \in K => \A g \in Tools \ Optional : Satisfied(g)
    /\ LibrariesStep \in K => \A g \in Libraries \ Optional : Satisfied(g)
    /\ WkhtmltopdfStep \in K => pkg[Wkhtmltox] = "installed"
    /\ CloneStep \in K => tree[i].repo = "whole"
    /\ RequirementsStep \in K => tree[i].venv = "filled"

InDelta(g, names) == \E j \in DOMAIN g : g[j] \in names

\* What a snapshot says of the machine the run finds.
RunWhole ==
    pc = "run" =>
        /\ idx = BootstrapStep => \A g \in Tools \ Optional : Satisfied(g) \/ InDelta(g, snap.tools)
        /\ idx = LibrariesStep => \A g \in Libraries \ Optional : Satisfied(g) \/ InDelta(g, snap.libraries)
        /\ idx = WkhtmltopdfStep /\ snap.wkhtmltox = "Preexisting" => pkg[Wkhtmltox] = "installed"
        /\ idx = CloneStep /\ snap.repo = "Preexisting" => tree[who].repo = "whole"
        /\ idx = CloneStep /\ attempt > 0 => tree[who].repo = "absent"

OthersWhole ==
    \A i \in Instance : man[i].finished /\ (i # who \/ pc = "idle") => Has(i, Steps)

SourcesOK == \A i \in Instance : tree[i].repo \notin {"partial", "mixed"}

Whole ==
    /\ OthersWhole
    /\ pc \in {"snapshot", "run"} => Has(who, recorded)
    /\ SourcesOK
    /\ RunWhole

WholeInv == CleanInv /\ (NoFault => Whole)

\* An installation takes nothing away from anybody.
LEMMA InstallsKeep ==
    ASSUME \A p \in Package : pkg[p] = "installed" => pkg'[p] = "installed", UNCHANGED tree
    PROVE  /\ \A g \in Groups : Satisfied(g) => Satisfied(g)'
           /\ \A i, K : Has(i, K) => Has(i, K)'
  <1>1. ASSUME NEW g \in Groups, Satisfied(g)  PROVE Satisfied(g)'
    <2>1. PICK j \in DOMAIN g : pkg[Real(g[j])] = "installed"
      BY <1>1 DEF Satisfied
    <2>2. g[j] \in Name
      <3>1. g \in Seq(Name)
        BY GroupNames
      <3>2. QED  BY <3>1
    <2>3. Real(g[j]) \in Package
      BY <2>2, RealType
    <2>4. pkg'[Real(g[j])] = "installed"
      BY <2>1, <2>3
    <2>5. QED  BY <2>4 DEF Satisfied
  <1>2. \A i, K : Has(i, K) => Has(i, K)'
    BY <1>1, NamesAssumption DEF Has, Groups
  <1>3. QED  BY <1>1, <1>2

\* Nor does what happens in the tree of one to another.
LEMMA TreesKeep ==
    ASSUME UNCHANGED pkg, \A i \in Instance \ {who} : tree'[i] = tree[i]
    PROVE  \A i \in Instance \ {who} : Has(i, Steps) => Has(i, Steps)'
  BY DEF Has, Satisfied

\* Who else has finished stays whole when what it has is kept.
LEMMA OthersKept ==
    ASSUME WholeInv, NoFault, pc # "idle",
           \A i \in Instance \ {who} : man'[i] = man[i],
           (who' = who /\ pc' # "idle") \/ (pc' = "idle" /\ ~man'[who].finished),
           \A i \in Instance \ {who} : man[i].finished /\ Has(i, Steps) => Has(i, Steps)'
    PROVE  OthersWhole'
  BY DEF WholeInv, Whole, OthersWhole

\* What the end of a run, or an undo, does to the manifests.
LEMMA RunFrame ==
    ASSUME TypeInv, pc = "run", Ran \/ Failed
    PROVE  /\ \A i \in Instance \ {who} : man'[i] = man[i]
           /\ who' = who /\ pc' # "idle"
  BY TypesOf DEF Ran, Failed

LEMMA UndoFrame ==
    ASSUME TypeInv, NEW k, NEW K, UndoBelow(k, K)
    PROVE  /\ \A i \in Instance \ {who} : man'[i] = man[i]
           /\ (who' = who /\ pc' # "idle") \/ (pc' = "idle" /\ ~man'[who].finished)
           /\ pc' \in {"idle", "undo"}
  <1>1. Manifest(snap, K, FALSE).finished = FALSE
    BY ManifestSteps
  <1>2. QED  BY <1>1, TypesOf DEF UndoBelow, Exit

LEMMA CommandsWhole ==
    ASSUME WholeInv, NoFault, Clean', \/ \E i \in Instance : Install(i) \/ Rollback(i)
                              \/ Stops \/ Skip \/ Finish \/ LeaveShared
    PROVE  Whole'
  <1>1. UNCHANGED <<pkg, tree>>
    BY DEF Install, Rollback, Begin, BeginRollback, Stops, Skip, Finish, Finished, LeaveShared, world
  <1>2. (\A i, K : Has(i, K) => Has(i, K)') /\ SourcesOK'
    BY <1>1, InstallsKeep DEF WholeInv, Whole, SourcesOK
  <1>3. CASE \E i \in Instance : Install(i) \/ Rollback(i)
    <2>1. UNCHANGED man /\ pc = "idle" /\ ((pc' = "snapshot" /\ idx' = 1) \/ pc' = "undo")
      BY <1>3 DEF Install, Rollback, Begin, BeginRollback
    <2>2. pc' \in {"snapshot", "run"} => Has(who, recorded)'
      <3>1. pc' = "snapshot" => recorded' = {}
        BY <2>1 DEF Clean
      <3>2. QED  BY <2>1, <3>1 DEF Has
    <2>3. OthersWhole'
      BY <1>2, <1>3 DEF WholeInv, Whole, OthersWhole, Install, Rollback, Begin, BeginRollback
    <2>4. QED  BY <1>2, <2>1, <2>2, <2>3 DEF Whole, RunWhole
  <1>4. CASE Stops \/ LeaveShared
    <2>1. UndoBelow(idx, recorded) /\ pc # "idle"
      BY <1>4 DEF Stops, LeaveShared
    <2>2. QED  BY <1>2, <2>1, UndoFrame, OthersKept DEF Whole, RunWhole, WholeInv, CleanInv
  <1>5. CASE Skip
    <2>1. pc = "snapshot" /\ idx \in recorded
      BY <1>5 DEF Skip
    <2>2. recorded = 1 .. idx - 1 /\ idx \in 1 .. 8
      BY <2>1, TypesOf DEF WholeInv, CleanInv, Clean
    <2>3. QED  BY <2>1, <2>2
  <1>6. CASE Finish
    <2>1. /\ pc = "snapshot" /\ idx = 8 /\ man' = [man EXCEPT ![who].finished = TRUE] /\ pc' = "idle"
      BY <1>6 DEF Finish, Finished, Exit
    <2>2. Has(who, Steps)
      <3>1. recorded = Steps
        BY <2>1 DEF WholeInv, CleanInv, Clean, Steps
      <3>2. QED  BY <2>1, <3>1 DEF WholeInv, Whole
    <2>3. \A i \in Instance : i # who => man'[i] = man[i]
      BY <2>1
    <2>4. OthersWhole'
      BY <1>2, <2>1, <2>2, <2>3 DEF WholeInv, Whole, OthersWhole
    <2>5. QED  BY <1>2, <2>1, <2>4 DEF Whole, RunWhole
  <1>7. QED  BY <1>3, <1>4, <1>5, <1>6

\* What an installation of some names changes is what they name.
LEMMA ChangesNamed ==
    ASSUME pkg \in [Package -> PackageState], NEW names \in SUBSET Name, NEW q,
           q = With(names, "installed") \/ q \in Cut(names)
    PROVE  \A p \in Package : q[p] = pkg[p] \/ \E n \in names : Real(n) = p
  <1>1. CASE q = With(names, "installed")
    BY <1>1 DEF With
  <1>2. CASE q \in Cut(names) /\ q # pkg
    <2>1. PICK part \in SUBSET names, n \in names :
            q = [With(part, "installed") EXCEPT ![Real(n)] = IF @ = "installed" THEN @ ELSE "half"]
      BY <1>2 DEF Cut
    <2>2. Real(n) \in Package
      BY RealType
    <2>3. \A p \in Package : p # Real(n) => q[p] = With(part, "installed")[p]
      BY <2>1, <2>2 DEF With
    <2>4. QED  BY <2>3 DEF With
  <1>3. QED  BY <1>1, <1>2

\* Without a fault wkhtmltopdf's package is never left half-way: no delta is of it,
\* and a run of its own step that leaves it so is one.
HalfInv == StaysInv /\ (NoFault => pkg[Wkhtmltox] # "half")

LEMMA NextHalf ==
    ASSUME HalfInv, [Next]_vars  PROVE HalfInv'
  <1>1. StaysInv'
    BY NextStays DEF HalfInv
  <1>2. CASE UNCHANGED vars
    BY <1>1, <1>2 DEF vars, world, HalfInv, NoFault
  <1>3. CASE Next
    <2> SUFFICES ASSUME NoFault'  PROVE pkg'[Wkhtmltox] # "half"
      BY <1>1 DEF HalfInv
    <2>1. NoFault /\ ~Fault /\ ~Dies /\ TypeInv
      BY <1>3, NoFaultBefore DEF HalfInv, StaysInv
    <2>2. /\ pkg \in [Package -> PackageState] /\ Wkhtmltox \in Package /\ pkg[Wkhtmltox] # "half"
          /\ Wanted \in SUBSET Name
      BY <2>1, TypesOf, WantedType, NamesAssumption DEF HalfInv
    <2>3. CASE RunPackages \/ PackagesFail
      <3>1. pkg' = pkg \/ pkg' = With(Wanted, "installed") \/ pkg' \in Cut(Wanted)
        BY <2>3 DEF RunPackages, PackagesFail
      <3>2. pkg'[Wkhtmltox] = pkg[Wkhtmltox] \/ \E n \in Wanted : Real(n) = Wkhtmltox
        <4>1. PICK q : q = pkg'
          OBVIOUS
        <4>2. q = pkg \/ \A p \in Package : q[p] = pkg[p] \/ \E n \in Wanted : Real(n) = p
          BY <2>2, <3>1, <4>1, ChangesNamed
        <4>3. QED  BY <2>2, <4>1, <4>2
      <3>3. SnapOK(snap, who)
        BY <2>3 DEF RunPackages, PackagesFail, PackageStep, HalfInv, StaysInv, SnapsOK
      <3>4. \A n \in Wanted : Real(n) # Wkhtmltox
        BY <3>3 DEF SnapOK, Wanted
      <3>5. QED  BY <2>2, <3>2, <3>4
    <2>4. CASE RunWkhtmltopdf
      <3>1. pkg' = pkg \/ pkg' = With({Wkhtmltox}, "installed")
        BY <2>4 DEF RunWkhtmltopdf
      <3>2. QED  BY <2>2, <3>1, WithType
    <2>5. CASE WkhtmltopdfFails
      BY <2>1, <2>2, <2>5 DEF WkhtmltopdfFails
    <2>6. CASE UndoTools \/ UndoLibraries \/ UndoWkhtmltopdf
      <3>1. UNCHANGED pkg \/ \E names : Purge(names)
        BY <2>6 DEF UndoTools, UndoLibraries, UndoWkhtmltopdf
      <3>2. ASSUME NEW names, Purge(names)  PROVE pkg'[Wkhtmltox] # "half"
        <4>1. UNCHANGED pkg \/ pkg' = Removed(Repaired(pkg), names)
          BY <2>1, <3>2 DEF Purge
        <4>2. Repaired(pkg)[Wkhtmltox] # "half"
          BY <2>2 DEF Repaired
        <4>3. QED  BY <2>2, <4>1, <4>2 DEF Removed
      <3>3. QED  BY <2>2, <3>1, <3>2
    <2>7. CASE \/ \E i \in Instance : Install(i) \/ Rollback(i)
               \/ Stops \/ Skip \/ Finish \/ LeaveShared
      BY <2>2, <2>7 DEF Install, Rollback, Begin, BeginRollback, Stops, Skip, Finish, LeaveShared, world
    <2>8. CASE \/ SnapshotTools \/ SnapshotLibraries \/ SnapshotWkhtmltopdf
               \/ SnapshotClone \/ SnapshotVenv \/ SnapshotNothing
      BY <2>2, <2>8 DEF SnapshotTools, SnapshotLibraries, SnapshotWkhtmltopdf, SnapshotClone, SnapshotVenv,
             SnapshotNothing, Snapshotted, world
    <2>9. CASE \/ RunDirectory \/ AskAgain \/ RunClone \/ CloneAgain \/ RunTarball \/ CloneFails
               \/ RunVenv \/ VenvFails \/ RunRequirements \/ RequirementsFail
      BY <2>2, <2>9 DEF RunDirectory, AskAgain, RunClone, CloneAgain, RunTarball, CloneFails, RunVenv,
             VenvFails, RunRequirements, RequirementsFail, world
    <2>10. CASE UndoClone \/ UndoVenv \/ UndoNothing
      BY <2>2, <2>10 DEF UndoClone, UndoVenv, UndoNothing, world
    <2>11. ~Die
      BY <2>1 DEF Die
    <2>12. QED
      BY <1>3, <2>3, <2>4, <2>5, <2>6, <2>7, <2>8, <2>9, <2>10, <2>11 DEF Next
  <1>4. QED  BY <1>2, <1>3

LEMMA InitHalf ==
    ASSUME Init  PROVE HalfInv
  <1>1. pkg \in [Package -> {"absent", "other", "installed"}]
    BY DEF Init
  <1>2. QED  BY <1>1, InitStays, NamesAssumption DEF HalfInv

\* A required group is satisfied, or something of it is in the delta.
LEMMA DeltaWhole ==
    ASSUME NEW groups \in {Tools, Libraries}
    PROVE  \A g \in groups \ Optional : Satisfied(g) \/ InDelta(g, Delta(groups))
  <1> TAKE g \in groups \ Optional
  <1>1. g \in Groups
    BY DEF Groups
  <1>2. CASE Added(g) = {}
    <2>1. PICK j \in DOMAIN g : IsInstalled(g[j])
      BY <1>1, <1>2, AddedOf
    <2>2. Real(g[j]) = g[j]
      BY <2>1, NamesAssumption DEF IsInstalled, Real
    <2>3. QED  BY <2>1, <2>2 DEF Satisfied, IsInstalled
  <1>3. CASE Added(g) # {}
    <2>1. PICK n \in Added(g) : n \in Name
      BY <1>1, <1>3, AddedOf
    <2>2. PICK j \in DOMAIN g : n = g[j]
      BY <1>1, <2>1, AddedOf
    <2>3. n \in Delta(groups)
      BY <2>1 DEF Delta
    <2>4. QED  BY <2>2, <2>3 DEF InDelta
  <1>4. QED  BY <1>2, <1>3


LEMMA SnapshotsWhole ==
    ASSUME WholeInv, HalfInv, NoFault, \/ SnapshotTools \/ SnapshotLibraries \/ SnapshotWkhtmltopdf
                              \/ SnapshotClone \/ SnapshotVenv \/ SnapshotNothing
    PROVE  Whole'
  <1>1. /\ UNCHANGED <<pkg, tree, man, who, idx, recorded, attempt>> /\ pc = "snapshot" /\ pc' = "run"
        /\ snap \in Snapshots /\ who \in Instance
    BY TypesOf DEF SnapshotTools, SnapshotLibraries, SnapshotWkhtmltopdf, SnapshotClone, SnapshotVenv,
           SnapshotNothing, At, Snapshotted, world, WholeInv, CleanInv
  <1>2. (\A i, K : Has(i, K) => Has(i, K)') /\ SourcesOK'
    BY <1>1, InstallsKeep DEF WholeInv, Whole, SourcesOK
  <1>3. OthersWhole'
    BY <1>1, <1>2 DEF WholeInv, Whole, OthersWhole
  <1>4. Has(who, recorded)'
    BY <1>1, <1>2 DEF WholeInv, Whole
  <1>5. attempt = 0
    BY <1>1, NoAttempts DEF WholeInv, CleanInv
  <1>6. RunWhole'
    <2>1. CASE SnapshotTools
      <3>1. snap'.tools = Delta(Tools) /\ idx = BootstrapStep
        BY <1>1, <2>1 DEF SnapshotTools, Snapshotted, Snapshots, At
      <3>2. \A g \in Tools \ Optional : Satisfied(g) \/ InDelta(g, Delta(Tools))
        BY DeltaWhole
      <3>3. \A g : Satisfied(g) => Satisfied(g)'
        BY <1>1 DEF Satisfied
      <3>4. QED  BY <1>1, <3>1, <3>2, <3>3 DEF RunWhole
    <2>2. CASE SnapshotLibraries
      <3>0. snap' = [snap EXCEPT !.libraries = Delta(Libraries)] /\ idx = LibrariesStep
        BY <2>2 DEF SnapshotLibraries, Snapshotted, At
      <3>1. snap'.libraries = Delta(Libraries)
        BY <1>1, <3>0 DEF Snapshots
      <3>2. \A g \in Libraries \ Optional : Satisfied(g) \/ InDelta(g, Delta(Libraries))
        BY DeltaWhole
      <3>3. \A g : Satisfied(g) => Satisfied(g)'
        BY <1>1 DEF Satisfied
      <3>4. QED  BY <1>1, <3>0, <3>1, <3>2, <3>3 DEF RunWhole
    <2>3. CASE SnapshotWkhtmltopdf
      <3>1. PICK right \in BOOLEAN : SaysItIs(right) /\ snap' = [snap EXCEPT !.wkhtmltox = Verdict(right)]
        BY <2>3 DEF SnapshotWkhtmltopdf, Snapshotted
      <3>2. snap'.wkhtmltox = Verdict(right) /\ idx = WkhtmltopdfStep
        BY <1>1, <2>3, <3>1 DEF Snapshots, SnapshotWkhtmltopdf, At
      <3>3. snap'.wkhtmltox = "Preexisting" => pkg[Wkhtmltox] = "installed"
        <4>1. pkg[Wkhtmltox] # "half"
          BY DEF HalfInv
        <4>2. right = (pkg[Wkhtmltox] = "installed")
          BY <3>1, <4>1 DEF SaysItIs
        <4>3. QED  BY <3>2, <4>2 DEF Verdict
      <3>4. QED  BY <1>1, <3>2, <3>3 DEF RunWhole
    <2>4. CASE SnapshotClone
      <3>0. PICK v : /\ v = Verdict(tree[who].repo \in {"whole", "partial", "mixed"})
                     /\ snap' = [snap EXCEPT !.repo = v]
        BY <2>4 DEF SnapshotClone, Snapshotted
      <3>1. idx = CloneStep
        BY <2>4 DEF SnapshotClone, At
      <3>2. snap'.repo = v
        BY <1>1, <3>0 DEF Snapshots
      <3>3. v = "Preexisting" => tree[who].repo = "whole"
        <4>1. tree[who].repo \notin {"partial", "mixed"}
          BY <1>1 DEF WholeInv, Whole, SourcesOK
        <4>2. QED  BY <3>0, <4>1 DEF Verdict
      <3>4. QED  BY <1>1, <1>5, <3>1, <3>2, <3>3 DEF RunWhole
    <2>5. CASE SnapshotVenv
      <3>1. idx = VenvStep
        BY <2>5 DEF SnapshotVenv, At
      <3>2. QED  BY <1>1, <3>1 DEF RunWhole
    <2>6. CASE SnapshotNothing
      <3>1. idx \in {DirectoryStep, RequirementsStep}
        BY <2>6 DEF SnapshotNothing, At
      <3>2. QED  BY <1>1, <3>1 DEF RunWhole
    <2>7. QED  BY <2>1, <2>2, <2>3, <2>4, <2>5, <2>6
  <1>7. QED  BY <1>2, <1>3, <1>4, <1>6 DEF Whole

\* The end of a run that has kept what the others have.
LEMMA EndsWhole ==
    ASSUME WholeInv, NoFault, pc = "run", Ran \/ Failed,
           \A i \in Instance \ {who} : Has(i, Steps) => Has(i, Steps)',
           SourcesOK',
           \A K : Ran /\ K = recorded \cup {idx} => Has(who, K)'
    PROVE  Whole'
  <1>1. OthersWhole'
    BY RunFrame, OthersKept DEF WholeInv, CleanInv
  <1>2. CASE Ran
    <2>1. pc' = "snapshot" /\ UNCHANGED who /\ recorded' = recorded \cup {idx}
      BY <1>2 DEF Ran
    <2>2. Has(who, recorded)'
      <3>1. PICK K : K = recorded \cup {idx}
        OBVIOUS
      <3>2. Has(who, K)' /\ recorded' = K
        BY <1>2, <2>1, <3>1
      <3>3. QED  BY <3>2 DEF Has
    <2>3. QED  BY <1>1, <2>1, <2>2 DEF Whole, RunWhole
  <1>3. CASE Failed
    <2>1. pc' = "undo"
      BY <1>3 DEF Failed
    <2>2. QED  BY <1>1, <2>1 DEF Whole, RunWhole
  <1>4. QED  BY <1>2, <1>3

\* What is installed from a delta satisfies its groups.
LEMMA WithWhole ==
    ASSUME pkg \in [Package -> PackageState], NEW names, pkg' = With(names, "installed"),
           NEW g \in Groups, Satisfied(g) \/ InDelta(g, names)
    PROVE  Satisfied(g)'
  <1>1. PICK j \in DOMAIN g : pkg[Real(g[j])] = "installed" \/ g[j] \in names
    BY DEF Satisfied, InDelta
  <1>2. g[j] \in Name
    <2>1. g \in Seq(Name)
      BY GroupNames
    <2>2. QED  BY <2>1
  <1>3. Real(g[j]) \in Package
    BY <1>2, RealType
  <1>4. pkg'[Real(g[j])] = "installed"
    BY <1>1, <1>3 DEF With
  <1>5. QED  BY <1>4 DEF Satisfied

LEMMA PackageRunsWhole ==
    ASSUME WholeInv, NoFault, \/ RunDirectory \/ RunPackages \/ PackagesFail
                              \/ RunWkhtmltopdf \/ WkhtmltopdfFails
    PROVE  Whole'
  <1>1. /\ pc = "run" /\ UNCHANGED tree
        /\ Ran \/ Failed
        /\ UNCHANGED pkg \/ pkg' \in Cut(Wanted) \/ pkg' \in Cut({Wkhtmltox})
                         \/ \E names : pkg' = With(names, "installed")
    BY DEF RunDirectory, RunPackages, PackagesFail, RunWkhtmltopdf, WkhtmltopdfFails, Running, PackageStep,
           world, Cut
  <1>2. \A p \in Package : pkg[p] = "installed" => pkg'[p] = "installed"
    <2>1. {Wkhtmltox} \in SUBSET Name /\ Wanted \in SUBSET Name
      BY NamesAssumption, WantedType DEF Name, WholeInv, CleanInv
    <2>2. QED  BY <1>1, <2>1, TypesOf, CutType, WithType DEF WholeInv, CleanInv
  <1>3. /\ \A i, K : Has(i, K) => Has(i, K)'
        /\ SourcesOK'
    BY <1>1, <1>2, InstallsKeep DEF WholeInv, Whole, SourcesOK
  <1>4. \A K : K = recorded => Has(who, K)'
    <2>1. Has(who, recorded) /\ UNCHANGED who
      BY <1>1, RunFrame DEF WholeInv, Whole, CleanInv
    <2>2. QED  BY <1>3, <2>1 DEF Has
  <1>5. ASSUME Ran  PROVE \A K : K = recorded \cup {idx} => Has(who, K)'
    <2> TAKE K
    <2> HAVE K = recorded \cup {idx}
    <2>1. PICK L : L = recorded /\ Has(who, L)'
      BY <1>4
    <2>2. SUFFICES /\ idx = BootstrapStep => \A g \in Tools \ Optional : Satisfied(g)'
                   /\ idx = LibrariesStep => \A g \in Libraries \ Optional : Satisfied(g)'
                   /\ idx = WkhtmltopdfStep => pkg'[Wkhtmltox] = "installed"
                   /\ idx \notin {CloneStep, RequirementsStep}
      BY <2>1 DEF Has
    <2>3. RunWhole
      BY DEF WholeInv, Whole
    <2>4. CASE RunDirectory
      BY <2>4 DEF RunDirectory, Running
    <2>5. CASE RunPackages
      <3>1. pkg' = With(Wanted, "installed") /\ idx \in {BootstrapStep, LibrariesStep}
        BY <2>5 DEF RunPackages, PackageStep
      <3>2. pkg \in [Package -> PackageState]
        BY TypesOf DEF WholeInv, CleanInv
      <3>3. \A g \in Groups : Satisfied(g) \/ InDelta(g, Wanted) => Satisfied(g)'
        BY <3>1, <3>2, WithWhole
      <3>4. CASE idx = BootstrapStep
        <4>1. Wanted = snap.tools
          BY <3>4 DEF Wanted
        <4>2. QED  BY <1>1, <2>3, <3>3, <3>4, <4>1 DEF RunWhole, Groups
      <3>5. CASE idx = LibrariesStep
        <4>1. Wanted = snap.libraries
          BY <3>5 DEF Wanted
        <4>2. QED  BY <1>1, <2>3, <3>3, <3>5, <4>1 DEF RunWhole, Groups
      <3>6. QED  BY <3>1, <3>4, <3>5
    <2>6. CASE RunWkhtmltopdf
      <3>1. /\ idx = WkhtmltopdfStep
            /\ (snap.wkhtmltox = "Preexisting" /\ UNCHANGED pkg) \/ pkg' = With({Wkhtmltox}, "installed")
        BY <2>6 DEF RunWkhtmltopdf, Running
      <3>2. With({Wkhtmltox}, "installed")[Wkhtmltox] = "installed"
        BY NamesAssumption DEF With, Real
      <3>3. QED  BY <1>1, <2>3, <3>1, <3>2 DEF RunWhole
    <2>7. CASE PackagesFail \/ WkhtmltopdfFails
      BY <1>1, <1>5, <2>7 DEF PackagesFail, WkhtmltopdfFails, Failed, Ran
    <2>8. QED  BY <2>4, <2>5, <2>6, <2>7
  <1>6. QED  BY <1>1, <1>3, <1>5, EndsWhole


LEMMA AskAgainWhole ==
    ASSUME WholeInv, NoFault, AskAgain  PROVE Whole'
  <1>1. UNCHANGED <<pkg, tree, man, pc, who, idx, snap, recorded>> /\ idx \in {BootstrapStep, LibrariesStep}
    BY DEF AskAgain, PackageStep
  <1>2. \A g : Satisfied(g) = Satisfied(g)'
    BY <1>1 DEF Satisfied
  <1>3. (\A i, K : Has(i, K) => Has(i, K)') /\ SourcesOK'
    BY <1>1, <1>2 DEF WholeInv, Whole, SourcesOK, Has
  <1>4. OthersWhole' /\ (pc' \in {"snapshot", "run"} => Has(who, recorded)')
    BY <1>1, <1>3 DEF WholeInv, Whole, OthersWhole
  <1>5. RunWhole'
    BY <1>1, <1>2 DEF WholeInv, Whole, RunWhole
  <1>6. QED  BY <1>3, <1>4, <1>5 DEF Whole

\* What is done to the tree of who does not touch what it has recorded.
LEMMA TreeWhole ==
    ASSUME WholeInv, NoFault, pc = "run", Ran \/ Failed, UNCHANGED pkg, NEW t, tree' = [tree EXCEPT ![who] = t],
           t.repo \notin {"partial", "mixed"},
           CloneStep \in recorded => t.repo = "whole",
           idx = CloneStep /\ Ran => t.repo = "whole",
           idx = RequirementsStep /\ Ran => t.venv = "filled",
           idx \in {CloneStep, VenvStep, RequirementsStep}
    PROVE  Whole'
  <1>1. tree \in [Instance -> Tree] /\ who \in Instance /\ who' = who
    BY TypesOf, RunFrame DEF WholeInv, CleanInv
  <1>2. tree'[who] = t /\ \A i \in Instance \ {who} : tree'[i] = tree[i]
    BY <1>1
  <1>3. \A i \in Instance \ {who} : Has(i, Steps) => Has(i, Steps)'
    BY <1>2, TreesKeep
  <1>4. SourcesOK'
    BY <1>2 DEF WholeInv, Whole, SourcesOK
  <1>5. recorded = 1 .. idx - 1 /\ Has(who, recorded)
    BY DEF WholeInv, CleanInv, Clean, Whole
  <1>6. RequirementsStep \notin recorded
    BY <1>5
  <1>7. ASSUME NEW K, Ran, K = recorded \cup {idx}  PROVE Has(who, K)'
    <2>1. \A g : Satisfied(g)' = Satisfied(g)
      BY DEF Satisfied
    <2>2. /\ BootstrapStep \in K => \A g \in Tools \ Optional : Satisfied(g)'
          /\ LibrariesStep \in K => \A g \in Libraries \ Optional : Satisfied(g)'
          /\ WkhtmltopdfStep \in K => pkg'[Wkhtmltox] = "installed"
      BY <1>5, <1>7, <2>1 DEF Has
    <2>3. /\ CloneStep \in K => tree'[who'].repo = "whole"
          /\ RequirementsStep \in K => tree'[who'].venv = "filled"
      BY <1>1, <1>2, <1>6, <1>7
    <2>4. QED  BY <2>2, <2>3 DEF Has
  <1>8. QED  BY <1>3, <1>4, <1>7, EndsWhole

\* The parts of a tree the sources are put in.
LEMMA PreparedParts ==
    ASSUME WorldType, who \in Instance
    PROVE  /\ Prepared.dir = MadeDir(tree[who].dir) /\ Prepared.modules = MadeDir(tree[who].modules)
           /\ Prepared.venv = tree[who].venv
           /\ Prepared.repo = tree[who].repo \/ (tree[who].repo = "invalid" /\ Prepared.repo = "absent")
           /\ \A r \in Sources : /\ [Prepared EXCEPT !.repo = r].repo = r
                                 /\ [Prepared EXCEPT !.repo = r].dir = MadeDir(tree[who].dir)
                                 /\ [Prepared EXCEPT !.repo = r].modules = MadeDir(tree[who].modules)
                                 /\ [Prepared EXCEPT !.repo = r].venv = tree[who].venv
  <1>1. PICK t \in Tree : t = tree[who]
    BY DEF WorldType
  <1>2. /\ Prepared.dir = MadeDir(t.dir) /\ Prepared.modules = MadeDir(t.modules) /\ Prepared.venv = t.venv
        /\ Prepared.repo = t.repo \/ (t.repo = "invalid" /\ Prepared.repo = "absent")
    BY <1>1 DEF Prepared, Tree
  <1>3. Prepared \in Tree
    BY PreparedType
  <1>4. QED  BY <1>1, <1>2, <1>3 DEF Tree

LEMMA CloneRunsWhole ==
    ASSUME WholeInv, NoFault, RunClone \/ RunTarball \/ CloneFails, ~Fault
    PROVE  Whole'
  <1>1. /\ pc = "run" /\ idx = CloneStep /\ UNCHANGED pkg
        /\ Ran \/ Failed
    BY DEF RunClone, RunTarball, CloneFails, Running
  <1>2. PICK t \in Tree : t = tree[who]
    BY TypesOf DEF WholeInv, CleanInv
  <1>3. tree = [tree EXCEPT ![who] = t] /\ t.repo \notin {"partial", "mixed"}
    BY <1>2, TypesOf DEF WholeInv, CleanInv, Whole, SourcesOK
  <1>4. CloneStep \notin recorded
    BY <1>1 DEF WholeInv, CleanInv, Clean
  <1>5. RunWhole
    BY DEF WholeInv, Whole
  <1>6. CASE RunClone
    <2>1. CASE snap.repo = "Preexisting"
      <3>1. UNCHANGED tree /\ t.repo = "whole"
        BY <1>1, <1>2, <1>5, <1>6, <2>1 DEF RunClone, RunWhole
      <3>2. QED  BY <1>1, <1>3, <1>4, <3>1, TreeWhole
    <2>2. CASE snap.repo # "Preexisting"
      <3>1. PICK u : u = [Prepared EXCEPT !.repo = "whole"] /\ tree' = [tree EXCEPT ![who] = u]
        BY <1>6, <2>2 DEF RunClone
      <3>2. u.repo = "whole"
        BY <3>1, TypesOf, PreparedParts DEF WholeInv, CleanInv, Sources
      <3>3. u.repo \notin {"partial", "mixed"} /\ idx # RequirementsStep
        BY <1>1, <3>2
      <3>4. tree' = [tree EXCEPT ![who] = u]
        BY <3>1
      <3>5. QED  BY <1>1, <1>4, <3>2, <3>3, <3>4, TreeWhole
    <2>3. QED  BY <2>1, <2>2
  <1>7. CASE RunTarball
    <2>1. t.repo = "absent"
      BY <1>1, <1>2, <1>5, <1>7, BoundsAssumption DEF RunTarball, RunWhole
    <2>2. PICK u : u = [t EXCEPT !.repo = "whole"] /\ tree' = [tree EXCEPT ![who] = u]
      BY <1>2, <1>7, <2>1 DEF RunTarball
    <2>3. u.repo = "whole"
      BY <2>2 DEF Tree
    <2>4. u.repo \notin {"partial", "mixed"} /\ idx # RequirementsStep
      BY <1>1, <2>3
    <2>5. tree' = [tree EXCEPT ![who] = u]
      BY <2>2
    <2>6. QED  BY <1>1, <1>4, <2>3, <2>4, <2>5, TreeWhole
  <1>8. CASE CloneFails
    <2>1. ~Ran
      BY <1>8 DEF CloneFails, Failed, Ran
    <2>2. \/ UNCHANGED tree
          \/ tree' = [tree EXCEPT ![who] = [t EXCEPT !.repo = IF @ = "absent" THEN "invalid" ELSE @]]
      BY <1>2, <1>8 DEF CloneFails
    <2>3. CASE UNCHANGED tree
      BY <1>1, <1>3, <1>4, <2>1, <2>3, TreeWhole
    <2>4. CASE tree' = [tree EXCEPT ![who] = [t EXCEPT !.repo = IF @ = "absent" THEN "invalid" ELSE @]]
      <3>1. PICK u : u = [t EXCEPT !.repo = IF @ = "absent" THEN "invalid" ELSE @] /\ tree' = [tree EXCEPT ![who] = u]
        BY <2>4
      <3>2. u.repo \notin {"partial", "mixed"}
        BY <1>3, <3>1 DEF Tree
      <3>3. QED  BY <1>1, <1>4, <2>1, <3>1, <3>2, TreeWhole
    <2>5. QED  BY <2>2, <2>3, <2>4
  <1>9. QED  BY <1>6, <1>7, <1>8

LEMMA CloneAgainWhole ==
    ASSUME WholeInv, NoFault, CloneAgain, ~Fault
    PROVE  Whole'
  <1>1. /\ UNCHANGED <<pkg, man, pc, who, idx, recorded>> /\ snap' = Claimed
        /\ pc = "run" /\ idx = CloneStep
    BY DEF CloneAgain, Running
  <1>2. PICK u : u = [Prepared EXCEPT !.repo = "absent"] /\ tree' = [tree EXCEPT ![who] = u]
    BY DEF CloneAgain, Cleaned
  <1>3. tree \in [Instance -> Tree] /\ who \in Instance /\ snap \in Snapshots
    BY TypesOf DEF WholeInv, CleanInv
  <1>4. u.repo = "absent"
    BY <1>2, TypesOf, PreparedParts DEF WholeInv, CleanInv, Sources
  <1>5. tree'[who] = u /\ \A i \in Instance \ {who} : tree'[i] = tree[i]
    BY <1>2, <1>3
  <1>6. OthersWhole'
    <2>1. \A i \in Instance \ {who} : Has(i, Steps) => Has(i, Steps)'
      BY <1>1, <1>5, TreesKeep
    <2>2. QED  BY <1>1, <2>1, OthersKept
  <1>7. Has(who, recorded)'
    <2>1. recorded = 1 .. CloneStep - 1 /\ Has(who, recorded)
      BY <1>1 DEF WholeInv, CleanInv, Clean, Whole
    <2>2. CloneStep \notin recorded /\ RequirementsStep \notin recorded
      BY <2>1
    <2>3. \A g : Satisfied(g)' = Satisfied(g)
      BY <1>1 DEF Satisfied
    <2>4. QED  BY <1>1, <2>1, <2>2, <2>3 DEF Has
  <1>8. SourcesOK'
    BY <1>4, <1>5 DEF WholeInv, Whole, SourcesOK
  <1>9. RunWhole'
    <2>1. snap'.repo = "CreatedByUs"
      BY <1>1, <1>3 DEF Claimed, Snapshots
    <2>2. QED  BY <1>1, <1>4, <1>5, <2>1 DEF RunWhole
  <1>10. QED  BY <1>6, <1>7, <1>8, <1>9 DEF Whole


LEMMA VenvRunsWhole ==
    ASSUME WholeInv, NoFault, RunVenv \/ VenvFails \/ RunRequirements \/ RequirementsFail, ~Fault
    PROVE  Whole'
  <1>1. /\ pc = "run" /\ UNCHANGED pkg /\ idx \in {VenvStep, RequirementsStep}
        /\ Ran \/ Failed
    BY DEF RunVenv, VenvFails, RunRequirements, RequirementsFail, Running, world
  <1>2. PICK t \in Tree : t = tree[who]
    BY TypesOf DEF WholeInv, CleanInv
  <1>3. tree = [tree EXCEPT ![who] = t] /\ t.repo \notin {"partial", "mixed"}
    BY <1>2, TypesOf DEF WholeInv, CleanInv, Whole, SourcesOK
  <1>4. CloneStep \in recorded => t.repo = "whole"
    BY <1>1, <1>2 DEF WholeInv, Whole, Has
  <1>5. CASE RunVenv
    <2>1. idx = VenvStep
      BY <1>5 DEF RunVenv, Running
    <2>2. \/ UNCHANGED tree
          \/ tree' = [tree EXCEPT ![who] = [t EXCEPT !.venv = "bare", !.dir = MadeDir(@)]]
      BY <1>2, <1>5 DEF RunVenv
    <2>3. CASE UNCHANGED tree
      BY <1>1, <1>3, <1>4, <2>1, <2>3, TreeWhole
    <2>4. CASE tree' = [tree EXCEPT ![who] = [t EXCEPT !.venv = "bare", !.dir = MadeDir(@)]]
      <3>1. PICK u : u = [t EXCEPT !.venv = "bare", !.dir = MadeDir(@)] /\ tree' = [tree EXCEPT ![who] = u]
        BY <2>4
      <3>2. u.repo = t.repo
        BY <3>1 DEF Tree
      <3>3. u.repo \notin {"partial", "mixed"} /\ (CloneStep \in recorded => u.repo = "whole")
        BY <1>3, <1>4, <3>2
      <3>4. tree' = [tree EXCEPT ![who] = u] /\ idx # CloneStep /\ idx # RequirementsStep
        BY <2>1, <3>1
      <3>5. QED  BY <1>1, <3>3, <3>4, TreeWhole
    <2>5. QED  BY <2>2, <2>3, <2>4
  <1>6. CASE VenvFails \/ RequirementsFail
    <2>1. UNCHANGED tree /\ ~Ran
      BY <1>6 DEF VenvFails, RequirementsFail, world, Failed, Ran
    <2>2. QED  BY <1>1, <1>3, <1>4, <2>1, TreeWhole
  <1>7. CASE RunRequirements
    <2>1. idx = RequirementsStep
      BY <1>7 DEF RunRequirements, Running
    <2>2. PICK u : u = [t EXCEPT !.venv = "filled"] /\ tree' = [tree EXCEPT ![who] = u]
      BY <1>2, <1>7 DEF RunRequirements
    <2>3. u.repo = t.repo /\ u.venv = "filled"
      BY <2>2 DEF Tree
    <2>4. u.repo \notin {"partial", "mixed"} /\ (CloneStep \in recorded => u.repo = "whole")
      BY <1>3, <1>4, <2>3
    <2>5. tree' = [tree EXCEPT ![who] = u] /\ idx # CloneStep
      BY <2>1, <2>2
    <2>6. QED  BY <1>1, <2>3, <2>4, <2>5, TreeWhole
  <1>8. QED  BY <1>5, <1>6, <1>7

LEMMA UndosWhole ==
    ASSUME WholeInv, NoFault,
           UndoTools \/ UndoLibraries \/ UndoWkhtmltopdf \/ UndoClone \/ UndoVenv \/ UndoNothing
    PROVE  Whole'
  <1>1. Undone /\ pc = "undo" /\ ~HeldBack
    BY DEF UndoTools, UndoLibraries, UndoWkhtmltopdf, UndoClone, UndoVenv, UndoNothing, Undoing
  <1>2. /\ tree \in [Instance -> Tree] /\ who \in Instance /\ idx \in Steps
    BY <1>1, TypesOf DEF WholeInv, CleanInv
  <1>3. /\ \A i \in Instance \ {who} : man'[i] = man[i]
        /\ (who' = who /\ pc' # "idle") \/ (pc' = "idle" /\ ~man'[who].finished)
        /\ pc' \in {"idle", "undo"}
    BY <1>1, UndoFrame DEF Undone, WholeInv, CleanInv
  <1>4. PICK t \in Tree : t = tree[who]
    BY <1>2
  <1>5. t.repo \notin {"partial", "mixed"}
    BY <1>2, <1>4 DEF WholeInv, Whole, SourcesOK
  <1>6. CASE UndoTools \/ UndoLibraries \/ UndoWkhtmltopdf
    <2>1. idx \in Shareds /\ UNCHANGED tree
      BY <1>6 DEF UndoTools, UndoLibraries, UndoWkhtmltopdf, Undoing, Shareds
    <2>2. others = {}
      BY <1>1, <1>2, <2>1, SharedScope DEF HeldBack
    <2>3. \A i \in Instance \ {who} : ~man[i].finished
      BY <1>1, <2>2, FinishedLives DEF WholeInv
    <2>4. OthersWhole'
      BY <1>1, <1>3, <2>3, OthersKept
    <2>5. QED  BY <1>3, <2>1, <2>4 DEF WholeInv, Whole, SourcesOK, RunWhole
  <1>7. CASE UndoClone \/ UndoVenv \/ UndoNothing
    <2>1. UNCHANGED pkg
      BY <1>7 DEF UndoClone, UndoVenv, UndoNothing, world
    <2>2. PICK u : tree' = [tree EXCEPT ![who] = u] /\ u.repo \notin {"partial", "mixed"}
      <3>1. CASE UNCHANGED tree
        BY <1>2, <1>4, <1>5, <3>1
      <3>2. CASE UndoVenv /\ ~UNCHANGED tree
        <4>1. tree' = [tree EXCEPT ![who] = [t EXCEPT !.venv = "absent"]]
          BY <1>4, <3>2 DEF UndoVenv
        <4>2. [t EXCEPT !.venv = "absent"].repo = t.repo
          BY DEF Tree
        <4>3. QED  BY <1>5, <4>1, <4>2
      <3>3. CASE UndoClone /\ ~UNCHANGED tree
        <4>1. PICK repo \in BOOLEAN : \E modules, container \in BOOLEAN :
                LET v == [tree[who] EXCEPT !.repo = IF repo THEN "absent" ELSE @,
                                           !.modules = IF modules THEN "absent" ELSE @]
                IN  tree' = [tree EXCEPT ![who] = IF container THEN WithoutContainer(v) ELSE v]
          BY <3>3 DEF UndoClone
        <4>2. PICK modules \in BOOLEAN, container \in BOOLEAN :
                LET v == [tree[who] EXCEPT !.repo = IF repo THEN "absent" ELSE @,
                                           !.modules = IF modules THEN "absent" ELSE @]
                IN  tree' = [tree EXCEPT ![who] = IF container THEN WithoutContainer(v) ELSE v]
          BY <4>1
        <4>3. PICK v \in Tree : v = [t EXCEPT !.repo = IF repo THEN "absent" ELSE @,
                                              !.modules = IF modules THEN "absent" ELSE @]
          BY DEF Tree, Sources, Whose
        <4>4. v.repo \notin {"partial", "mixed"}
          BY <1>5, <4>3 DEF Tree
        <4>5. WithoutContainer(v).repo = v.repo
          BY DEF WithoutContainer, Tree
        <4>6. tree' = [tree EXCEPT ![who] = v] \/ tree' = [tree EXCEPT ![who] = WithoutContainer(v)]
          BY <1>4, <4>2, <4>3
        <4>7. QED  BY <4>4, <4>5, <4>6
      <3>4. QED  BY <1>7, <3>1, <3>2, <3>3 DEF UndoNothing, world
    <2>3. tree'[who] = u /\ \A i \in Instance \ {who} : tree'[i] = tree[i]
      BY <1>2, <2>2
    <2>4. OthersWhole'
      BY <1>1, <1>3, <2>1, <2>3, TreesKeep, OthersKept
    <2>5. QED  BY <1>3, <2>2, <2>3, <2>4 DEF WholeInv, Whole, SourcesOK, RunWhole
  <1>8. QED  BY <1>6, <1>7

LEMMA NextWhole ==
    ASSUME WholeInv, HalfInv, [Next]_vars  PROVE WholeInv'
  <1>1. CleanInv'
    BY NextClean DEF WholeInv
  <1>2. CASE UNCHANGED vars
    <2>1. NoFault' = NoFault /\ UNCHANGED <<pkg, tree, man, pc, who, idx, snap, recorded, attempt>>
      BY <1>2 DEF vars, world, NoFault
    <2>2. \A g : Satisfied(g)' = Satisfied(g)
      BY <2>1 DEF Satisfied
    <2>3. \A i, K : Has(i, K) => Has(i, K)'
      BY <2>1, <2>2 DEF Has
    <2>4. QED  BY <1>1, <2>1, <2>2, <2>3 DEF WholeInv, Whole, OthersWhole, SourcesOK, RunWhole
  <1>3. CASE Next
    <2> SUFFICES ASSUME NoFault'  PROVE Whole'
      BY <1>1 DEF WholeInv
    <2>1. NoFault /\ ~Fault /\ ~Dies
      BY <1>3, NoFaultBefore DEF WholeInv, CleanInv
    <2>2. ~Die /\ Clean'
      BY <1>1, <2>1 DEF Die, CleanInv
    <2>3. QED
      BY <1>3, <2>1, <2>2, CommandsWhole, SnapshotsWhole, PackageRunsWhole, AskAgainWhole, CloneRunsWhole,
         CloneAgainWhole, VenvRunsWhole, UndosWhole DEF Next
  <1>4. QED  BY <1>2, <1>3

\* No instance is found with sources a clone of an earlier life left half-way: the
\* snapshot would take them for Odoo's.
SourcesFound == \A t \in FoundTrees : t.repo \notin {"partial", "mixed"}

LEMMA InitWhole ==
    ASSUME SourcesFound, Init  PROVE WholeInv
  <1>1. tree \in [Instance -> FoundTrees] /\ pc = "idle" /\ \A i \in Instance : ~man[i].finished
    BY DEF Init, Start, NoManifest
  <1>2. QED
    BY <1>1, InitClean DEF SourcesFound, WholeInv, Whole, OthersWhole, SourcesOK, RunWhole

\* Whatever the others install, fail at and roll back, an instance whose
\* installation has finished has the packages of every required group, wkhtmltopdf
\* in the pinned version, its sources whole and its virtualenv filled, until it is itself rolled back.
THEOREM SoftwareFinishedIsWhole ==
    ASSUME SourcesFound  PROVE Spec => []FinishedIsWhole
  <1>1. WholeInv => FinishedIsWhole
    <2> SUFFICES ASSUME WholeInv, NoFault, NEW i \in Instance, man[i].finished, ~(pc = "undo" /\ who = i)
                 PROVE  Has(i, Steps)
      BY DEF FinishedIsWhole, NoFault, Has, Groups, Steps
    <2>1. CASE i # who \/ pc = "idle"
      BY <2>1 DEF WholeInv, Whole, OthersWhole
    <2>2. CASE i = who /\ pc # "idle"
      <3>1. pc \in {"snapshot", "run"}
        BY <2>2, TypesOf DEF WholeInv, CleanInv, TypeInv, TypeOK, ProcessType
      <3>2. recorded = Steps /\ Has(who, recorded)
        BY <2>2, <3>1 DEF WholeInv, CleanInv, Book, Clean, Whole
      <3>3. QED  BY <2>2, <3>2
    <2>3. QED  BY <2>1, <2>2
  <1>2. Spec => []HalfInv
    BY InitHalf, NextHalf, PTL DEF Spec
  <1>3. QED  BY <1>1, <1>2, InitWhole, NextWhole, PTL DEF Spec

-----------------------------------------------------------------------------
(* When the last manifest is gone nothing is left.                         *)

\* A package the records of some steps would have removed.
Owns(s, K, p) ==
    \/ LibrariesStep \in K /\ p \in s.libraries
    \/ WkhtmltopdfStep \in K /\ s.wkhtmltox = "CreatedByUs" /\ p = Wkhtmltox

\* What is left in a tree u that was found as t is in the records of some steps.
TreeLeft(t, u, s, K) ==
    /\ u.venv = t.venv \/ (VenvStep \in K /\ s.venv = "CreatedByUs")
    /\ u.dir = t.dir \/ (t.dir = "absent" /\ u.dir = "ours")
    /\ u.dir = "absent" => u = NoTree
    /\ \/ CloneStep \in K /\ s.repo = "CreatedByUs"
       \/ /\ u.repo = t.repo \/ t.repo = "invalid"
          /\ u.dir = t.dir /\ u.modules = t.modules

\* The steps in the process's memory that may have done something.
Active == IF pc = "snapshot" THEN recorded ELSE recorded \cup {idx}

OwnedByOthers(p) == \E i \in Instance \ {who} : Owns(man[i].snap, man[i].steps, p)

PackagesLeft ==
    IF pc = "idle"
    THEN \A p \in Package : \/ pkg[p] = found.pkg[p] \/ (found.pkg[p] = "other" /\ pkg[p] = "absent")
                            \/ Stays(p) \/ \E i \in Instance : Owns(man[i].snap, man[i].steps, p)
    ELSE \A p \in Package : \/ pkg[p] = found.pkg[p] \/ (found.pkg[p] = "other" /\ pkg[p] = "absent")
                            \/ Stays(p) \/ Owns(snap, Active, p) \/ OwnedByOthers(p)

TreesLeft ==
    /\ \A i \in Instance : i # who \/ pc = "idle" => TreeLeft(found.tree[i], tree[i], man[i].snap, man[i].steps)
    /\ pc # "idle" => TreeLeft(found.tree[who], tree[who], snap, Active)

\* Two snapshots that say the same of some steps.
Agree(s, m, K) ==
    /\ LibrariesStep \in K => s.libraries = m.libraries
    /\ WkhtmltopdfStep \in K => s.wkhtmltox = m.wkhtmltox
    /\ CloneStep \in K => s.repo = m.repo
    /\ VenvStep \in K => s.venv = m.venv

\* What the run knows of what it has done.
RunLeft ==
    /\ pc \in {"snapshot", "run"} => /\ Agree(snap, man[who].snap, recorded)
                                     /\ CloneStep \in recorded => tree[who].dir # "absent"
    /\ pc = "run" =>
         /\ idx = BootstrapStep => snap.tools \subseteq ToolNames
         /\ idx = CloneStep /\ snap.repo = "Preexisting" => tree[who].dir # "absent"
         /\ idx = CloneStep /\ attempt > 0 => tree[who].dir # "absent" /\ snap.repo = "CreatedByUs"
    /\ pc = "undo" /\ HeldBack => idx \in recorded

Left == PackagesLeft /\ TreesLeft /\ RunLeft

LeftInv == StaysInv /\ CleanInv /\ (NoFault => Left)

\* Records lose nothing of what they are made of, whatever else the steps record.
LEMMA AgreeLeft ==
    ASSUME NEW s, NEW m, NEW K, NEW L, Agree(s, m, K), K \subseteq L
    PROVE  /\ \A p : Owns(s, K, p) => Owns(m, L, p)
           /\ \A t, u : TreeLeft(t, u, s, K) => TreeLeft(t, u, m, L)
  BY DEF Agree, Owns, TreeLeft

LEMMA ManifestLeft ==
    ASSUME NEW s \in Snapshots, NEW K \in SUBSET Steps
    PROVE  Agree(s, Manifest(s, K, FALSE).snap, K)
  BY ManifestFields DEF Agree

\* The machine a step leaves, with what the process then remembers.
LeftWith(q, s, K) ==
    \A p \in Package : \/ q[p] = found.pkg[p] \/ (found.pkg[p] = "other" /\ q[p] = "absent")
                       \/ Stays(p) \/ Owns(s, K, p) \/ OwnedByOthers(p)

\* The process after a step: what it remembers, or what its manifest says.
After(s, K) ==
    \/ who' = who /\ pc' # "idle" /\ snap' = s /\ Active' = K
    \/ pc' = "idle" /\ man'[who].snap = s /\ man'[who].steps = K

LEMMA LeftAfter ==
    ASSUME pc # "idle", UNCHANGED found, who \in Instance, NEW s, NEW K, After(s, K),
           \A i \in Instance \ {who} : man'[i] = man[i] /\ tree'[i] = tree[i],
           TreesLeft, LeftWith(pkg', s, K), TreeLeft(found.tree[who], tree'[who], s, K)
    PROVE  PackagesLeft' /\ TreesLeft'
  <1>1. \A p \in Package : OwnedByOthers(p) =>
            \E i \in Instance \ {who} : Owns(man'[i].snap, man'[i].steps, p)
    BY DEF OwnedByOthers
  <1>2. CASE who' = who /\ pc' # "idle" /\ snap' = s /\ Active' = K
    <2>1. \A p \in Package : OwnedByOthers(p) => OwnedByOthers(p)'
      BY <1>2 DEF OwnedByOthers
    <2>2. PackagesLeft'
      <3>1. \A p \in Package : Owns(s, K, p) => Owns(snap, Active, p)'
        BY <1>2 DEF Owns
      <3>2. \A p \in Package : Stays(p)' = Stays(p)
        BY DEF Stays, ToolNames
      <3>3. QED  BY <1>2, <2>1, <3>1, <3>2 DEF PackagesLeft, LeftWith
    <2>3. TreesLeft'
      BY <1>2 DEF TreesLeft, TreeLeft
    <2>4. QED  BY <2>2, <2>3
  <1>3. CASE pc' = "idle" /\ man'[who].snap = s /\ man'[who].steps = K
    <2>1. PackagesLeft'
      <3>1. \A p \in Package : Owns(s, K, p) => \E i \in Instance : Owns(man'[i].snap, man'[i].steps, p)
        BY <1>3
      <3>2. \A p \in Package : pkg'[p] = found.pkg[p] \/ (found.pkg[p] = "other" /\ pkg'[p] = "absent") \/ Stays(p)
                \/ \E i \in Instance : Owns(man'[i].snap, man'[i].steps, p)
        BY <1>1, <3>1 DEF LeftWith
      <3>3. QED  BY <1>3, <3>2 DEF PackagesLeft, Owns, Stays, ToolNames
    <2>2. TreesLeft'
      <3>1. \A i \in Instance : TreeLeft(found.tree[i], tree'[i], man'[i].snap, man'[i].steps)
        BY <1>3 DEF TreesLeft
      <3>2. QED  BY <1>3, <3>1 DEF TreesLeft, TreeLeft
    <2>3. QED  BY <2>1, <2>2
  <1>4. QED  BY <1>2, <1>3 DEF After


LEMMA LeftNow ==
    ASSUME LeftInv, NoFault, pc # "idle"
    PROVE  /\ LeftWith(pkg, snap, Active) /\ TreesLeft
           /\ TreeLeft(found.tree[who], tree[who], snap, Active)
           /\ RunLeft
           /\ snap \in Snapshots /\ who \in Instance /\ recorded \in SUBSET Steps
           /\ man \in [Instance -> Manifests] /\ tree \in [Instance -> Tree]
           /\ TypeInv /\ Clean
  BY TypesOf DEF LeftInv, CleanInv, Left, PackagesLeft, TreesLeft, LeftWith

\* An undo, or the end of a rollback.
LEMMA UndoBelowLeft ==
    ASSUME LeftInv, NoFault, pc # "idle", NEW k, NEW K \in SUBSET Steps, UndoBelow(k, K), UNCHANGED found,
           \A i \in Instance \ {who} : tree'[i] = tree[i],
           LeftWith(pkg', snap, K), TreeLeft(found.tree[who], tree'[who], snap, K)
    PROVE  Left'
  <1>1. /\ snap \in Snapshots /\ TypeInv /\ TreesLeft /\ who \in Instance /\ man \in [Instance -> Manifests]
    BY LeftNow
  <1>2. \A i \in Instance \ {who} : man'[i] = man[i]
    BY <1>1, UndoFrame
  <1>3. CASE {j \in K : j < k} = {}
    <2>1. PICK m : m = Manifest(snap, K, FALSE)
      OBVIOUS
    <2>2. m.steps = K
      BY <2>1, ManifestSteps
    <2>3. pc' = "idle" /\ man' = [man EXCEPT ![who] = m]
      BY <1>3, <2>1 DEF UndoBelow, Exit
    <2>4. After(m.snap, K)
      BY <1>1, <2>2, <2>3 DEF After
    <2>5. Agree(snap, m.snap, K)
      BY <1>1, <2>1, ManifestLeft
    <2>6. LeftWith(pkg', m.snap, K) /\ TreeLeft(found.tree[who], tree'[who], m.snap, K)
      BY <2>5, AgreeLeft DEF LeftWith
    <2>7. PackagesLeft' /\ TreesLeft'
      BY <1>1, <1>2, <2>4, <2>6, LeftAfter
    <2>8. QED  BY <2>3, <2>7 DEF Left, RunLeft
  <1>4. CASE {j \in K : j < k} # {}
    <2>1. /\ pc' = "undo" /\ recorded' = K /\ idx' = Max({j \in K : j < k})
          /\ UNCHANGED <<who, snap>>
      BY <1>4 DEF UndoBelow
    <2>2. idx' \in K
      <3>1. {j \in K : j < k} \in SUBSET Steps
        OBVIOUS
      <3>2. QED  BY <1>4, <2>1, <3>1, MaxIn
    <2>3. Active' = K
      BY <2>1, <2>2 DEF Active
    <2>4. PICK s : s = snap
      OBVIOUS
    <2>5. After(s, K)
      BY <2>1, <2>3, <2>4 DEF After
    <2>6. PackagesLeft' /\ TreesLeft'
      BY <1>1, <1>2, <2>4, <2>5, LeftAfter
    <2>7. QED  BY <2>1, <2>2, <2>6 DEF Left, RunLeft
  <1>5. QED  BY <1>3, <1>4

\* The end of a run.
LEMMA EndsLeft ==
    ASSUME LeftInv, NoFault, NoFault', pc = "run", Ran \/ Failed, UNCHANGED found,
           \A i \in Instance \ {who} : tree'[i] = tree[i],
           NEW s \in Snapshots, snap' = s,
           LeftWith(pkg', s, Active), TreeLeft(found.tree[who], tree'[who], s, Active),
           Ran /\ CloneStep \in Active => tree'[who].dir # "absent"
    PROVE  Left'
  <1>1. /\ TypeInv /\ TreesLeft /\ who \in Instance /\ man \in [Instance -> Manifests]
        /\ recorded \cup {idx} \in SUBSET Steps
    BY LeftNow, TypesOf
  <1>2. (\A i \in Instance \ {who} : man'[i] = man[i]) /\ who' = who
    BY <1>1, RunFrame
  <1>3. PICK K : K = Active /\ K = recorded \cup {idx}
    BY DEF Active
  <1>4. After(s, K)
    BY <1>2, <1>3 DEF After, Active, Ran, Failed
  <1>5. PackagesLeft' /\ TreesLeft'
    BY <1>1, <1>2, <1>3, <1>4, LeftAfter
  <1>6. CASE Ran
    <2>1. PICK m : m = Manifest(s, K, FALSE)
      OBVIOUS
    <2>2. pc' = "snapshot" /\ recorded' = K /\ man' = [man EXCEPT ![who] = m]
      BY <1>3, <1>6, <2>1 DEF Ran
    <2>3. man'[who'].snap = m.snap
      BY <1>1, <1>2, <2>2
    <2>4. Agree(s, m.snap, K)
      BY <1>1, <1>3, <2>1, ManifestLeft
    <2>5. RunLeft'
      BY <1>2, <1>3, <1>6, <2>2, <2>3, <2>4 DEF RunLeft, Agree
    <2>6. QED  BY <1>5, <2>5 DEF Left
  <1>7. CASE Failed
    <2>1. pc' = "undo" /\ UNCHANGED <<who, idx, others>>
      BY <1>7 DEF Failed
    <2>2. ~HeldBack'
      BY <1>7, <2>1 DEF Failed, NoFault, HeldBack
    <2>3. QED  BY <1>5, <2>1, <2>2 DEF Left, RunLeft
  <1>8. QED  BY <1>6, <1>7

LEMMA CommandsLeft ==
    ASSUME LeftInv, NoFault, Clean', \/ \E i \in Instance : Install(i) \/ Rollback(i)
                             \/ Stops \/ Skip \/ Finish \/ LeaveShared
    PROVE  Left'
  <1>1. UNCHANGED <<found, pkg, tree>>
    BY DEF Install, Rollback, Begin, BeginRollback, Stops, Skip, Finish, Finished, LeaveShared, world, machine
  <1>2. CASE \E i \in Instance : Install(i) \/ Rollback(i)
    <2>1. PICK i \in Instance : Install(i) \/ Rollback(i)
      BY <1>2
    <2>2. /\ who' = i /\ snap' = man[i].snap /\ recorded' = man[i].steps /\ UNCHANGED man
          /\ pc = "idle" /\ ((pc' = "snapshot" /\ idx' = 1) \/ (pc' = "undo" /\ idx' \in man[i].steps))
      <3>1. man[i].steps \in SUBSET Steps
        BY TypesOf DEF LeftInv, CleanInv, Manifests
      <3>2. Rollback(i) => idx' \in man[i].steps
        BY <3>1, MaxIn DEF Rollback, BeginRollback
      <3>3. QED  BY <2>1, <3>2 DEF Install, Rollback, Begin, BeginRollback, Take
    <2>3. Active' = man[i].steps
      BY <2>2 DEF Active
    <2>4. Left
      BY DEF LeftInv
    <2>5. \A p \in Package : \/ pkg[p] = found.pkg[p] \/ (found.pkg[p] = "other" /\ pkg[p] = "absent")
                             \/ Stays(p) \/ Owns(man[i].snap, man[i].steps, p)
                             \/ \E j \in Instance \ {i} : Owns(man[j].snap, man[j].steps, p)
      BY <2>2, <2>4 DEF Left, PackagesLeft
    <2>6. PackagesLeft'
      BY <1>1, <2>2, <2>3, <2>5 DEF PackagesLeft, OwnedByOthers, Owns, Stays, ToolNames
    <2>7. \A j \in Instance : TreeLeft(found.tree[j], tree[j], man[j].snap, man[j].steps)
      BY <2>2, <2>4 DEF Left, TreesLeft
    <2>8. TreesLeft'
      BY <1>1, <2>2, <2>3, <2>7 DEF TreesLeft, TreeLeft
    <2>9. RunLeft'
      <3>1. pc' = "snapshot" => recorded' = {}
        BY <2>2 DEF Clean
      <3>2. QED  BY <2>2, <3>1 DEF RunLeft, Agree
    <2>10. QED  BY <2>6, <2>8, <2>9 DEF Left
  <1>3. CASE Stops \/ LeaveShared
    <2>1. UndoBelow(idx, recorded) /\ pc # "idle"
      BY <1>3 DEF Stops, LeaveShared
    <2>2. Active = recorded
      BY <1>3, <2>1, LeftNow DEF Stops, LeaveShared, Active, RunLeft
    <2>3. QED  BY <1>1, <2>1, <2>2, LeftNow, UndoBelowLeft DEF LeftWith
  <1>4. CASE Skip
    <2>1. pc = "snapshot" /\ idx \in recorded
      BY <1>4 DEF Skip
    <2>2. recorded = 1 .. idx - 1 /\ idx \in 1 .. 8
      BY <2>1, TypesOf DEF LeftInv, CleanInv, Clean
    <2>3. QED  BY <2>1, <2>2
  <1>5. CASE Finish
    <2>1. /\ pc = "snapshot" /\ man' = [man EXCEPT ![who].finished = TRUE] /\ pc' = "idle"
      BY <1>5 DEF Finish, Finished, Exit
    <2>2. PICK s, K : s = man[who].snap /\ K = man[who].steps
      OBVIOUS
    <2>3. man'[who].snap = s /\ man'[who].steps = K /\ \A i \in Instance \ {who} : man'[i] = man[i]
      BY <2>1, <2>2, LeftNow DEF Manifests
    <2>4. Agree(snap, s, Active) /\ K = Active
      BY <2>1, <2>2, LeftNow DEF LeftInv, CleanInv, Book, RunLeft, Active
    <2>5. After(s, K)
      BY <2>1, <2>3 DEF After
    <2>6. LeftWith(pkg', s, K) /\ TreeLeft(found.tree[who], tree'[who], s, K)
      BY <1>1, <2>1, <2>4, LeftNow, AgreeLeft DEF LeftWith
    <2>7. PackagesLeft' /\ TreesLeft'
      BY <1>1, <2>1, <2>3, <2>5, <2>6, LeftNow, LeftAfter
    <2>8. QED  BY <2>1, <2>7 DEF Left, RunLeft
  <1>6. QED  BY <1>2, <1>3, <1>4, <1>5


LEMMA SnapshotsLeft ==
    ASSUME LeftInv, NoFault, \/ SnapshotTools \/ SnapshotLibraries \/ SnapshotWkhtmltopdf
                             \/ SnapshotClone \/ SnapshotVenv \/ SnapshotNothing
    PROVE  Left'
  <1>1. /\ UNCHANGED <<found, pkg, tree, man, who, idx, recorded, attempt>> /\ pc = "snapshot" /\ pc' = "run"
    BY DEF SnapshotTools, SnapshotLibraries, SnapshotWkhtmltopdf, SnapshotClone, SnapshotVenv,
           SnapshotNothing, At, Snapshotted, world, machine
  <1>2. snap \in Snapshots /\ attempt = 0 /\ recorded = 1 .. idx - 1 /\ TypeInv /\ who \in Instance
    BY <1>1, LeftNow, NoAttempts DEF Clean
  <1>3. /\ Agree(snap, snap', recorded)
        /\ idx = BootstrapStep => snap'.tools \subseteq ToolNames
        /\ idx = CloneStep /\ snap'.repo = "Preexisting" => tree[who].repo # "absent"
    <2>1. CASE SnapshotTools
      <3>1. idx = BootstrapStep /\ snap' = [snap EXCEPT !.tools = Delta(Tools)]
        BY <2>1 DEF SnapshotTools, Snapshotted, At
      <3>2. /\ snap'.tools = Delta(Tools) /\ snap'.libraries = snap.libraries
            /\ snap'.wkhtmltox = snap.wkhtmltox /\ snap'.repo = snap.repo /\ snap'.venv = snap.venv
        BY <1>2, <3>1 DEF Snapshots
      <3>3. Delta(Tools) \subseteq ToolNames
        <4>1. \A g \in Tools : Added(g) \subseteq {g[j] : j \in DOMAIN g}
          BY AddedOf DEF Groups
        <4>2. QED  BY <4>1 DEF Delta, ToolNames
      <3>4. QED  BY <3>1, <3>2, <3>3 DEF Agree
    <2>2. CASE SnapshotLibraries
      <3>1. snap' = [snap EXCEPT !.libraries = Delta(Libraries)]
        BY <2>2 DEF SnapshotLibraries, Snapshotted
      <3>2. /\ snap'.wkhtmltox = snap.wkhtmltox /\ snap'.repo = snap.repo /\ snap'.venv = snap.venv
        BY <1>2, <3>1 DEF Snapshots
      <3>3. idx = LibrariesStep
        BY <2>2 DEF SnapshotLibraries, At
      <3>4. LibrariesStep \notin recorded
        BY <1>2, <3>3
      <3>5. QED  BY <3>2, <3>3, <3>4 DEF Agree
    <2>3. CASE SnapshotWkhtmltopdf
      <3>1. PICK v : snap' = [snap EXCEPT !.wkhtmltox = v]
        BY <2>3 DEF SnapshotWkhtmltopdf, Snapshotted
      <3>2. /\ snap'.libraries = snap.libraries /\ snap'.repo = snap.repo /\ snap'.venv = snap.venv
        BY <1>2, <3>1 DEF Snapshots
      <3>3. idx = WkhtmltopdfStep
        BY <2>3 DEF SnapshotWkhtmltopdf, At
      <3>4. WkhtmltopdfStep \notin recorded
        BY <1>2, <3>3
      <3>5. QED  BY <3>2, <3>3, <3>4 DEF Agree
    <2>4. CASE SnapshotClone
      <3>1. PICK v : /\ v = Verdict(tree[who].repo \in {"whole", "partial", "mixed"})
                     /\ snap' = [snap EXCEPT !.repo = v]
        BY <2>4 DEF SnapshotClone, Snapshotted
      <3>2. /\ snap'.libraries = snap.libraries /\ snap'.wkhtmltox = snap.wkhtmltox /\ snap'.venv = snap.venv
            /\ snap'.repo = v
        BY <1>2, <3>1 DEF Snapshots
      <3>3. idx = CloneStep
        BY <2>4 DEF SnapshotClone, At
      <3>4. CloneStep \notin recorded
        BY <1>2, <3>3
      <3>5. v = "Preexisting" => tree[who].repo # "absent"
        BY <3>1 DEF Verdict
      <3>6. QED  BY <3>2, <3>3, <3>4, <3>5 DEF Agree
    <2>5. CASE SnapshotVenv
      <3>1. PICK v : snap' = [snap EXCEPT !.venv = v]
        BY <2>5 DEF SnapshotVenv, Snapshotted
      <3>2. /\ snap'.libraries = snap.libraries /\ snap'.repo = snap.repo /\ snap'.wkhtmltox = snap.wkhtmltox
        BY <1>2, <3>1 DEF Snapshots
      <3>3. idx = VenvStep
        BY <2>5 DEF SnapshotVenv, At
      <3>4. VenvStep \notin recorded
        BY <1>2, <3>3
      <3>5. QED  BY <3>2, <3>3, <3>4 DEF Agree
    <2>6. CASE SnapshotNothing
      <3>1. snap' = snap /\ idx \in {DirectoryStep, RequirementsStep}
        BY <2>6 DEF SnapshotNothing, Snapshotted, At
      <3>2. QED  BY <3>1 DEF Agree
    <2>7. QED  BY <2>1, <2>2, <2>3, <2>4, <2>5, <2>6
  <1>4. PICK s, K : s = snap' /\ K = recorded \cup {idx}
    OBVIOUS
  <1>5. Agree(snap, s, recorded) /\ Active = recorded
    BY <1>1, <1>3, <1>4 DEF Active
  <1>6. After(s, K)
    BY <1>1, <1>4 DEF After, Active
  <1>7. LeftWith(pkg', s, K) /\ TreeLeft(found.tree[who], tree'[who], s, K)
    <2>1. recorded \subseteq K
      BY <1>4
    <2>2. (\A p : Owns(snap, recorded, p) => Owns(s, K, p))
          /\ \A t, u : TreeLeft(t, u, snap, recorded) => TreeLeft(t, u, s, K)
      BY <1>5, <2>1, AgreeLeft
    <2>3. QED  BY <1>1, <1>5, <2>2, LeftNow DEF LeftWith
  <1>8. PackagesLeft' /\ TreesLeft'
    BY <1>1, <1>6, <1>7, LeftNow, LeftAfter
  <1>9. RunLeft'
    <2>1. Agree(snap', man[who].snap, recorded) /\ (CloneStep \in recorded => tree[who].dir # "absent")
      BY <1>1, <1>3, LeftNow DEF RunLeft, Agree
    <2>2. tree[who].repo # "absent" => tree[who].dir # "absent"
      BY <1>1, LeftNow DEF TreeLeft, NoTree
    <2>3. ~(attempt > 0)
      BY <1>2
    <2>4. QED  BY <1>1, <1>3, <2>1, <2>2, <2>3 DEF RunLeft, Agree
  <1>10. QED  BY <1>8, <1>9 DEF Left

\* A package a name stands for, unless it stays, is of that name.
LEMMA RealOwn ==
    ASSUME NEW n \in Name
    PROVE  Stays(Real(n)) \/ Real(n) = n
  BY DEF Real, Name, Stays

LEMMA PackageRunsLeft ==
    ASSUME LeftInv, NoFault, NoFault', ~Fault,
           \/ RunDirectory \/ RunPackages \/ PackagesFail \/ RunWkhtmltopdf \/ WkhtmltopdfFails
    PROVE  Left'
  <1>1. /\ pc = "run" /\ UNCHANGED <<found, tree>>
        /\ Ran \/ Failed
    BY DEF RunDirectory, RunPackages, PackagesFail, RunWkhtmltopdf, WkhtmltopdfFails, Running, PackageStep,
           world, machine
  <1>2. /\ pkg \in [Package -> PackageState] /\ snap \in Snapshots /\ Active = recorded \cup {idx}
        /\ recorded = 1 .. idx - 1 /\ TypeInv /\ Wanted \in SUBSET Name /\ {Wkhtmltox} \in SUBSET Name
    BY <1>1, LeftNow, TypesOf, WantedType, NamesAssumption DEF Active, Clean, Name
  <1>3. PICK s : s = snap'
    OBVIOUS
  <1>4. /\ s \in Snapshots
        /\ Agree(snap, s, Active) \/ (idx = WkhtmltopdfStep /\ s.wkhtmltox = "CreatedByUs" /\ Agree(snap, s, recorded))
        /\ TreeLeft(found.tree[who], tree[who], s, Active)
    <2>1. snap' = snap \/ (idx = WkhtmltopdfStep /\ snap' = [snap EXCEPT !.wkhtmltox = "CreatedByUs"])
      BY DEF RunDirectory, RunPackages, PackagesFail, RunWkhtmltopdf, WkhtmltopdfFails, Running
    <2>2. CASE snap' = snap
      BY <1>1, <1>2, <1>3, <2>2, LeftNow DEF Agree
    <2>3. CASE idx = WkhtmltopdfStep /\ snap' = [snap EXCEPT !.wkhtmltox = "CreatedByUs"]
      <3>1. /\ s.wkhtmltox = "CreatedByUs" /\ s.libraries = snap.libraries /\ s.repo = snap.repo
            /\ s.venv = snap.venv /\ s \in Snapshots
        BY <1>2, <1>3, <2>3 DEF Snapshots, PreState
      <3>2. WkhtmltopdfStep \notin recorded
        BY <1>2, <2>3
      <3>3. Agree(snap, s, recorded)
        BY <3>1, <3>2 DEF Agree
      <3>4. TreeLeft(found.tree[who], tree[who], s, Active)
        BY <1>1, <3>1, LeftNow DEF TreeLeft
      <3>5. QED  BY <2>3, <3>1, <3>3, <3>4
    <2>4. QED  BY <2>1, <2>2, <2>3
  <1>5. \A p : Owns(snap, Active, p) => Owns(s, Active, p)
    <2>1. CASE Agree(snap, s, Active)
      BY <2>1, AgreeLeft
    <2>2. CASE idx = WkhtmltopdfStep /\ s.wkhtmltox = "CreatedByUs" /\ Agree(snap, s, recorded)
      BY <1>2, <2>2 DEF Owns, Agree
    <2>3. QED  BY <1>4, <2>1, <2>2
  <1>6. \A p \in Package : pkg'[p] = pkg[p] \/ Stays(p) \/ Owns(s, Active, p)
    <2>1. CASE UNCHANGED pkg
      BY <2>1
    <2>2. CASE (RunPackages \/ PackagesFail) /\ ~UNCHANGED pkg
      <3>1. pkg' = With(Wanted, "installed") \/ pkg' \in Cut(Wanted)
        BY <2>2 DEF RunPackages, PackagesFail, Cut
      <3>2. \A p \in Package : pkg'[p] = pkg[p] \/ \E n \in Wanted : Real(n) = p
        <4>1. PICK q : q = pkg'
          OBVIOUS
        <4>2. QED  BY <1>2, <3>1, <4>1, ChangesNamed
      <3>3. ASSUME NEW n \in Wanted  PROVE Stays(Real(n)) \/ Owns(s, Active, Real(n))
        <4>1. n \in Name /\ idx \in {BootstrapStep, LibrariesStep} /\ snap' = snap
          BY <1>2, <2>2 DEF RunPackages, PackagesFail, PackageStep
        <4>2. CASE idx = BootstrapStep
          <5>1. n \in ToolNames
            BY <1>1, <4>2, LeftNow DEF RunLeft, Wanted
          <5>2. QED  BY <5>1 DEF Stays
        <4>3. CASE idx = LibrariesStep
          <5>1. Owns(s, Active, n)
            BY <1>2, <1>3, <4>1, <4>3 DEF Owns, Wanted
          <5>2. QED  BY <4>1, <5>1, RealOwn
        <4>4. QED  BY <4>1, <4>2, <4>3
      <3>4. QED  BY <3>2, <3>3
    <2>3. CASE RunWkhtmltopdf /\ ~UNCHANGED pkg
      <3>1. pkg' = With({Wkhtmltox}, "installed") /\ idx = WkhtmltopdfStep
            /\ snap' = [snap EXCEPT !.wkhtmltox = "CreatedByUs"]
        BY <2>3 DEF RunWkhtmltopdf, Running
      <3>2. s.wkhtmltox = "CreatedByUs" /\ WkhtmltopdfStep \in Active
        BY <1>2, <1>3, <3>1 DEF Snapshots
      <3>3. \A p \in Package : pkg'[p] = pkg[p] \/ p = Wkhtmltox
        BY <3>1, NamesAssumption DEF With, Real
      <3>4. QED  BY <3>2, <3>3 DEF Owns
    <2>4. CASE RunDirectory \/ WkhtmltopdfFails
      BY <2>4 DEF RunDirectory, WkhtmltopdfFails, world
    <2>5. QED  BY <2>1, <2>2, <2>3, <2>4
  <1>7. LeftWith(pkg', s, Active)
    BY <1>1, <1>5, <1>6, LeftNow DEF LeftWith
  <1>8. Ran /\ CloneStep \in Active => tree'[who].dir # "absent"
    <2>1. idx \in {DirectoryStep, BootstrapStep, LibrariesStep, WkhtmltopdfStep}
      BY DEF RunDirectory, RunPackages, PackagesFail, RunWkhtmltopdf, WkhtmltopdfFails, Running, PackageStep
    <2>2. CloneStep \notin Active
      BY <1>2, <2>1
    <2>3. QED  BY <2>2
  <1>9. QED  BY <1>1, <1>3, <1>4, <1>7, <1>8, EndsLeft

LEMMA AskAgainLeft ==
    ASSUME LeftInv, NoFault, AskAgain  PROVE Left'
  <1>1. /\ UNCHANGED <<found, pkg, tree, man, pc, who, idx, snap, recorded, others>> /\ pc = "run"
        /\ idx \in {BootstrapStep, LibrariesStep}
    BY DEF AskAgain, PackageStep, machine
  <1>2. PackagesLeft'
    BY <1>1 DEF LeftInv, Left, PackagesLeft, OwnedByOthers, Owns, Stays, ToolNames, Active
  <1>3. TreesLeft'
    BY <1>1 DEF LeftInv, Left, TreesLeft, TreeLeft, Active
  <1>4. RunLeft'
    BY <1>1 DEF LeftInv, Left, RunLeft, Agree
  <1>5. QED  BY <1>2, <1>3, <1>4 DEF Left


\* A tree of which the sources are claimed, in a directory that is there.
LEMMA MadeLeft ==
    ASSUME NEW f, NEW t, NEW u, NEW s, NEW m, NEW K, TreeLeft(f, t, s, K), CloneStep \in K,
           m.repo = "CreatedByUs", m.venv = s.venv, u.dir = MadeDir(t.dir), u.venv = t.venv
    PROVE  TreeLeft(f, u, m, K) /\ u.dir # "absent"
  BY DEF TreeLeft, MadeDir

\* The snapshot that claims the sources.
LEMMA ClaimedFields ==
    ASSUME snap \in Snapshots
    PROVE  /\ Claimed \in Snapshots /\ Claimed.repo = "CreatedByUs" /\ Claimed.venv = snap.venv
           /\ Claimed.libraries = snap.libraries /\ Claimed.wkhtmltox = snap.wkhtmltox
  BY DEF Claimed, Snapshots, PreState

LEMMA CloneRunsLeft ==
    ASSUME LeftInv, NoFault, NoFault', ~Fault, RunClone \/ RunTarball \/ CloneFails
    PROVE  Left'
  <1>1. /\ pc = "run" /\ idx = CloneStep /\ UNCHANGED <<found, pkg>>
        /\ Ran \/ Failed
        /\ snap' = snap \/ (RunClone /\ snap.repo # "Preexisting" /\ snap' = Claimed)
    BY DEF RunClone, RunTarball, CloneFails, Running, machine
  <1>2. PICK t \in Tree : t = tree[who] /\ TreeLeft(found.tree[who], t, snap, Active)
    BY <1>1, LeftNow
  <1>3. /\ snap \in Snapshots /\ who \in Instance /\ CloneStep \in Active /\ TypeInv
        /\ attempt > 0 => t.dir # "absent" /\ snap.repo = "CreatedByUs"
        /\ snap.repo = "Preexisting" => t.dir # "absent"
        /\ tree \in [Instance -> Tree]
    BY <1>1, <1>2, LeftNow DEF Active, RunLeft
  <1>4. Attempts > 0
    BY BoundsAssumption
  <1>5. PICK u, s : /\ s = snap' /\ s \in Snapshots /\ TreeLeft(found.tree[who], u, s, Active)
                    /\ s.libraries = snap.libraries /\ s.wkhtmltox = snap.wkhtmltox
                    /\ tree' = [tree EXCEPT ![who] = u]
                    /\ Ran => u.dir # "absent"
    <2>1. CASE RunClone /\ snap.repo = "Preexisting"
      <3>1. snap' = snap /\ UNCHANGED tree
        BY <2>1 DEF RunClone
      <3>2. tree' = [tree EXCEPT ![who] = t]
        BY <1>2, <1>3, <3>1
      <3>3. QED  BY <1>2, <1>3, <2>1, <3>1, <3>2
    <2>2. CASE RunClone /\ snap.repo # "Preexisting"
      <3>1. PICK u : u = [Prepared EXCEPT !.repo = "whole"] /\ tree' = [tree EXCEPT ![who] = u]
        BY <2>2 DEF RunClone
      <3>2. snap' = Claimed
        BY <2>2 DEF RunClone
      <3>3. u.dir = MadeDir(t.dir) /\ u.venv = t.venv
        BY <1>2, <1>3, <3>1, TypesOf, PreparedParts DEF Sources
      <3>4. TreeLeft(found.tree[who], u, Claimed, Active) /\ u.dir # "absent"
        BY <1>2, <1>3, <3>3, ClaimedFields, MadeLeft
      <3>5. QED  BY <1>3, <3>1, <3>2, <3>4, ClaimedFields
    <2>3. CASE RunTarball \/ (CloneFails /\ attempt = Attempts)
      <3>1. attempt > 0 /\ snap' = snap
        BY <1>4, <2>3 DEF RunTarball, CloneFails
      <3>2. PICK u : u.dir = t.dir /\ u.venv = t.venv /\ tree' = [tree EXCEPT ![who] = u]
        <4>1. PICK r : tree' = [tree EXCEPT ![who].repo = r]
          <5>1. CASE RunTarball
            <6>1. tree' = [tree EXCEPT ![who].repo = IF @ = "absent" THEN "whole" ELSE "mixed"]
              BY <5>1 DEF RunTarball
            <6>2. tree' = [tree EXCEPT ![who].repo = IF tree[who].repo = "absent" THEN "whole" ELSE "mixed"]
              BY <6>1
            <6>3. QED  BY <6>2
          <5>2. CASE CloneFails /\ attempt = Attempts
            <6>1. \/ tree' = [tree EXCEPT ![who].repo = IF @ = "absent" THEN "invalid" ELSE @]
                  \/ UNCHANGED tree
              BY <1>4, <5>2 DEF CloneFails
            <6>2. \/ tree' = [tree EXCEPT ![who].repo = IF tree[who].repo = "absent" THEN "invalid" ELSE tree[who].repo]
                  \/ UNCHANGED tree
              BY <6>1
            <6>3. tree = [tree EXCEPT ![who].repo = tree[who].repo]
              <7>1. t = [t EXCEPT !.repo = t.repo]
                BY DEF Tree
              <7>2. QED  BY <1>2, <1>3, <7>1
            <6>4. QED  BY <6>2, <6>3
          <5>3. QED  BY <2>3, <5>1, <5>2
        <4>2. tree' = [tree EXCEPT ![who] = [t EXCEPT !.repo = r]]
          BY <1>2, <4>1
        <4>3. [t EXCEPT !.repo = r].dir = t.dir /\ [t EXCEPT !.repo = r].venv = t.venv
          BY DEF Tree
        <4>4. QED  BY <4>2, <4>3
      <3>3. u.dir = MadeDir(t.dir) /\ snap.repo = "CreatedByUs"
        BY <1>3, <3>1, <3>2 DEF MadeDir
      <3>4. TreeLeft(found.tree[who], u, snap, Active) /\ u.dir # "absent"
        BY <1>2, <1>3, <3>2, <3>3, MadeLeft
      <3>5. QED  BY <1>3, <3>1, <3>2, <3>4
    <2>4. CASE CloneFails /\ attempt # Attempts
      <3>1. snap' = snap /\ UNCHANGED tree /\ ~Ran
        BY <2>4 DEF CloneFails, Failed, Ran
      <3>2. tree' = [tree EXCEPT ![who] = t]
        BY <1>2, <1>3, <3>1
      <3>3. QED  BY <1>2, <1>3, <3>1, <3>2
    <2>5. QED  BY <2>1, <2>2, <2>3, <2>4
  <1>6. tree'[who] = u /\ \A i \in Instance \ {who} : tree'[i] = tree[i]
    BY <1>3, <1>5
  <1>7. LeftWith(pkg', s, Active)
    BY <1>1, <1>5, LeftNow DEF LeftWith, Owns
  <1>8. QED  BY <1>1, <1>5, <1>6, <1>7, EndsLeft

LEMMA CloneAgainLeft ==
    ASSUME LeftInv, NoFault, ~Fault, CloneAgain  PROVE Left'
  <1>1. /\ UNCHANGED <<found, pkg, man, pc, who, idx, recorded, others>> /\ snap' = Claimed
        /\ pc = "run" /\ idx = CloneStep
    BY DEF CloneAgain, Running, machine
  <1>2. PICK t \in Tree : t = tree[who] /\ TreeLeft(found.tree[who], t, snap, Active)
    BY <1>1, LeftNow
  <1>3. /\ snap \in Snapshots /\ who \in Instance /\ CloneStep \in Active /\ TypeInv
        /\ tree \in [Instance -> Tree] /\ recorded = 1 .. idx - 1 /\ Active = recorded \cup {idx}
    BY <1>1, LeftNow DEF Active, Clean
  <1>4. PICK u : u = [Prepared EXCEPT !.repo = "absent"] /\ tree' = [tree EXCEPT ![who] = u]
    BY DEF CloneAgain, Cleaned
  <1>5. u.dir = MadeDir(t.dir) /\ u.venv = t.venv
    BY <1>2, <1>3, <1>4, TypesOf, PreparedParts DEF Sources
  <1>6. TreeLeft(found.tree[who], u, Claimed, Active) /\ u.dir # "absent"
    BY <1>2, <1>3, <1>5, ClaimedFields, MadeLeft
  <1>7. PICK s, K : s = Claimed /\ K = Active
    OBVIOUS
  <1>8. After(s, K)
    BY <1>1, <1>7 DEF After, Active
  <1>9. tree'[who] = u /\ \A i \in Instance \ {who} : man'[i] = man[i] /\ tree'[i] = tree[i]
    BY <1>1, <1>3, <1>4
  <1>10. LeftWith(pkg', s, K) /\ TreeLeft(found.tree[who], tree'[who], s, K)
    BY <1>1, <1>3, <1>6, <1>7, <1>9, LeftNow, ClaimedFields DEF LeftWith, Owns
  <1>11. PackagesLeft' /\ TreesLeft'
    BY <1>1, <1>3, <1>8, <1>9, <1>10, LeftNow, LeftAfter
  <1>12. RunLeft'
    <2>1. Agree(Claimed, man[who].snap, recorded)
      <3>1. CloneStep \notin recorded
        BY <1>1, <1>3
      <3>2. QED  BY <1>1, <1>3, <3>1, LeftNow, ClaimedFields DEF Agree, RunLeft
    <2>2. QED  BY <1>1, <1>3, <1>6, <1>9, <2>1, ClaimedFields DEF RunLeft, Agree
  <1>13. QED  BY <1>11, <1>12 DEF Left

\* No virtualenv is found without the packages it is for: the requirements would be
\* installed in it and stay.
VenvsFound == \A t \in FoundTrees : t.venv # "bare"

LEMMA VenvRunsLeft ==
    ASSUME VenvsFound, LeftInv, NoFault, NoFault', ~Fault,
           RunVenv \/ VenvFails \/ RunRequirements \/ RequirementsFail
    PROVE  Left'
  <1>1. /\ pc = "run" /\ idx \in {VenvStep, RequirementsStep} /\ UNCHANGED <<found, pkg>>
        /\ Ran \/ Failed
    BY DEF RunVenv, VenvFails, RunRequirements, RequirementsFail, Running, machine, world
  <1>2. PICK t \in Tree : t = tree[who] /\ TreeLeft(found.tree[who], t, snap, Active)
    BY <1>1, LeftNow
  <1>3. /\ snap \in Snapshots /\ who \in Instance /\ Active = recorded \cup {idx} /\ t.dir # "absent"
        /\ tree \in [Instance -> Tree]
    <2>1. CloneStep \in recorded
      BY <1>1, LeftNow DEF Clean
    <2>2. QED  BY <1>1, <1>2, <2>1, LeftNow DEF Active, RunLeft
  <1>4. PICK u, s : /\ s = snap' /\ s \in Snapshots /\ TreeLeft(found.tree[who], u, s, Active)
                    /\ s.libraries = snap.libraries /\ s.wkhtmltox = snap.wkhtmltox
                    /\ tree' = [tree EXCEPT ![who] = u]
                    /\ u.dir # "absent"
    <2>1. CASE UNCHANGED tree /\ snap' = snap
      <3>1. tree' = [tree EXCEPT ![who] = t]
        BY <1>2, <1>3, <2>1
      <3>2. QED  BY <1>2, <1>3, <2>1, <3>1
    <2>2. CASE RunVenv /\ snap.venv # "Preexisting"
      <3>0. tree' = [tree EXCEPT ![who].venv = "bare", ![who].dir = MadeDir(@)]
        BY <2>2 DEF RunVenv
      <3>1. PICK u : u = [t EXCEPT !.venv = "bare", !.dir = MadeDir(@)] /\ tree' = [tree EXCEPT ![who] = u]
        <4>1. [tree EXCEPT ![who].venv = "bare", ![who].dir = MadeDir(@)]
                = [tree EXCEPT ![who] = [tree[who] EXCEPT !.venv = "bare", !.dir = MadeDir(@)]]
          BY <1>3 DEF Tree
        <4>2. QED  BY <1>2, <3>0, <4>1
      <3>2. u.dir = t.dir /\ u.repo = t.repo /\ u.modules = t.modules
        BY <1>3, <3>1 DEF Tree, MadeDir
      <3>3. PICK s : s = [snap EXCEPT !.venv = "CreatedByUs"]
        OBVIOUS
      <3>4. /\ s.venv = "CreatedByUs" /\ s.repo = snap.repo /\ s \in Snapshots
            /\ s.libraries = snap.libraries /\ s.wkhtmltox = snap.wkhtmltox
        BY <1>3, <3>3 DEF Snapshots, PreState
      <3>5. snap' = s /\ idx = VenvStep
        BY <2>2, <3>3 DEF RunVenv, Running
      <3>6. VenvStep \in Active
        BY <1>3, <3>5
      <3>7. TreeLeft(found.tree[who], u, s, Active)
        BY <1>2, <1>3, <3>2, <3>4, <3>6 DEF TreeLeft
      <3>8. QED  BY <1>3, <3>1, <3>2, <3>4, <3>5, <3>7
    <2>3. CASE RunRequirements
      <3>1. PICK u : u = [t EXCEPT !.venv = "filled"] /\ tree' = [tree EXCEPT ![who] = u]
        BY <1>2, <2>3 DEF RunRequirements
      <3>2. u.dir = t.dir /\ u.repo = t.repo /\ u.modules = t.modules /\ u.venv = "filled"
        BY <3>1 DEF Tree
      <3>3. snap' = snap /\ t.venv \in {"bare", "filled"}
        BY <1>2, <2>3 DEF RunRequirements
      <3>4. found.tree[who].venv # "bare"
        BY <1>3 DEF VenvsFound, LeftInv, StaysInv, FoundOK
      <3>5. TreeLeft(found.tree[who], u, snap, Active)
        BY <1>2, <1>3, <3>2, <3>3, <3>4 DEF TreeLeft
      <3>6. QED  BY <1>3, <3>1, <3>2, <3>3, <3>5
    <2>4. QED  BY <2>1, <2>2, <2>3 DEF RunVenv, VenvFails, RequirementsFail, world
  <1>5. tree'[who] = u /\ \A i \in Instance \ {who} : tree'[i] = tree[i]
    BY <1>3, <1>4
  <1>6. LeftWith(pkg', s, Active)
    BY <1>1, <1>4, LeftNow DEF LeftWith, Owns
  <1>7. QED  BY <1>1, <1>4, <1>5, <1>6, EndsLeft


\* A removal leaves nothing of what it was asked for, and what was left half-way is
\* configured.
LEMMA PurgeLeft ==
    ASSUME pkg \in [Package -> PackageState], FoundOK, NEW names, Purge(names), ~Fault,
           \A n \in names : n \in Package => found.pkg[n] # "installed",
           NEW s, NEW K, NEW L, LeftWith(pkg, s, K),
           \A p \in Package : Owns(s, K, p) => Owns(s, L, p) \/ p \in names
    PROVE  LeftWith(pkg', s, L)
  <1>1. CASE names = {}
    BY <1>1 DEF Purge, LeftWith
  <1>2. CASE names # {}
    <2>1. pkg' = Removed(Repaired(pkg), names)
      BY <1>2 DEF Purge
    <2>2. ~Broken(Repaired(pkg))
      BY DEF Broken, Repaired
    <2>3. pkg' = [n \in Package |-> IF n \in names THEN "absent" ELSE Repaired(pkg)[n]]
      BY <2>1, <2>2 DEF Removed
    <2>4. ASSUME NEW p \in Package
          PROVE  \/ pkg'[p] = found.pkg[p] \/ (found.pkg[p] = "other" /\ pkg'[p] = "absent")
                 \/ Stays(p) \/ Owns(s, L, p) \/ OwnedByOthers(p)
      <3>1. found.pkg[p] \in {"absent", "other", "installed"}
        BY DEF FoundOK
      <3>2. CASE p \in names
        BY <2>3, <3>1, <3>2
      <3>3. CASE p \notin names
        <4>1. pkg'[p] = IF pkg[p] = "half" THEN "installed" ELSE pkg[p]
          BY <2>3, <3>3 DEF Repaired
        <4>2. QED  BY <3>1, <3>3, <4>1 DEF LeftWith
      <3>4. QED  BY <3>2, <3>3
    <2>5. QED  BY <2>4 DEF LeftWith
  <1>3. QED  BY <1>1, <1>2

\* No modules are found before the sources: the undo of a clone would remove them, and
\* a container of theirs that was found without them would stay with them.
ModulesFound == \A t \in FoundTrees : t.modules = "absent"

\* The tree without its sources, modules and container is the one that was found.
LEMMA UnclonedLeft ==
    ASSUME NEW f \in Tree, f.modules = "absent", f.dir \in {"absent", "theirs"}, f.dir = "absent" => f = NoTree,
           f.repo \in {"absent", "invalid"},
           NEW t \in Tree, NEW s, NEW K, TreeLeft(f, t, s, K), t.venv = f.venv,
           NEW v, v = [t EXCEPT !.repo = "absent", !.modules = "absent"], NEW L
    PROVE  TreeLeft(f, WithoutContainer(v), s, L)
  <1>1. v \in Tree /\ v.repo = "absent" /\ v.modules = "absent" /\ v.dir = t.dir /\ v.venv = t.venv
    BY DEF Tree, Sources, Whose
  <1>2. CASE f.dir = "theirs"
    <2>1. t.dir = "theirs"
      BY <1>2 DEF TreeLeft
    <2>2. WithoutContainer(v) = v
      BY <1>1, <2>1 DEF WithoutContainer, IsEmpty
    <2>3. QED  BY <1>1, <1>2, <2>1, <2>2 DEF TreeLeft
  <1>3. CASE f.dir = "absent"
    <2>1. f = NoTree /\ t.dir \in {"absent", "ours"} /\ v.venv = "absent"
      BY <1>1, <1>3 DEF TreeLeft, NoTree
    <2>2. PICK u : u = WithoutContainer(v)
      OBVIOUS
    <2>3. u.dir = "absent" /\ u.repo = "absent" /\ u.modules = "absent" /\ u.venv = "absent" /\ u \in Tree
      BY <1>1, <2>1, <2>2 DEF WithoutContainer, IsEmpty, Tree, Whose
    <2>4. u = NoTree
      BY <2>3 DEF Tree, NoTree
    <2>5. TreeLeft(f, u, s, L)
      BY <2>1, <2>3, <2>4 DEF TreeLeft
    <2>6. QED  BY <2>2, <2>5
  <1>4. QED  BY <1>2, <1>3

LEMMA UndosLeft ==
    ASSUME ModulesFound, LeftInv, NoFault, ~Fault,
           UndoTools \/ UndoLibraries \/ UndoWkhtmltopdf \/ UndoClone \/ UndoVenv \/ UndoNothing
    PROVE  Left'
  <1>1. Undone /\ pc = "undo" /\ ~HeldBack /\ UNCHANGED found
    BY DEF UndoTools, UndoLibraries, UndoWkhtmltopdf, UndoClone, UndoVenv, UndoNothing, Undoing, world, machine
  <1>2. /\ tree \in [Instance -> Tree] /\ who \in Instance /\ idx \in Steps /\ snap \in Snapshots
        /\ recorded \in SUBSET Steps /\ pkg \in [Package -> PackageState] /\ FoundOK /\ SnapOK(snap, who)
    BY <1>1, TypesOf DEF LeftInv, StaysInv, SnapsOK
  <1>3. PICK L \in SUBSET Steps : L = recorded \ {idx}
    BY <1>2
  <1>4. UndoBelow(idx, L)
    BY <1>1, <1>2, <1>3, SharedScope DEF Undone
  <1>5. Active = L \cup {idx} /\ idx \notin L
    BY <1>1, <1>3 DEF Active
  <1>6. PICK t \in Tree : t = tree[who] /\ TreeLeft(found.tree[who], t, snap, Active)
    BY <1>1, <1>2, LeftNow
  <1>7. LeftWith(pkg, snap, Active)
    BY <1>1, LeftNow
  <1>8. CASE UndoTools \/ UndoLibraries \/ UndoWkhtmltopdf
    <2>1. UNCHANGED tree /\ idx \in Shareds
      BY <1>8 DEF UndoTools, UndoLibraries, UndoWkhtmltopdf, Undoing, Shareds
    <2>2. TreeLeft(found.tree[who], tree'[who], snap, L)
      BY <1>5, <1>6, <2>1 DEF TreeLeft, Shareds
    <2>3. LeftWith(pkg', snap, L)
      <3>1. CASE UndoTools
        <4>1. \A p \in Package : Owns(snap, Active, p) => Owns(snap, L, p)
          BY <1>5, <3>1 DEF Owns, UndoTools, Undoing
        <4>2. CASE UNCHANGED pkg
          BY <1>7, <4>1, <4>2 DEF LeftWith
        <4>3. CASE Purge(snap.tools)
          BY <1>2, <1>7, <4>1, <4>3, PurgeLeft DEF SnapOK
        <4>4. QED  BY <3>1, <4>2, <4>3 DEF UndoTools
      <3>2. CASE UndoLibraries
        <4>1. \A p \in Package : Owns(snap, Active, p) => Owns(snap, L, p) \/ p \in snap.libraries
          BY <1>5, <3>2 DEF Owns, UndoLibraries, Undoing
        <4>2. Purge(snap.libraries)
          BY <3>2 DEF UndoLibraries
        <4>3. QED  BY <1>2, <1>7, <4>1, <4>2, PurgeLeft DEF SnapOK
      <3>3. CASE UndoWkhtmltopdf /\ snap.wkhtmltox = "CreatedByUs"
        <4>1. \A p \in Package : Owns(snap, Active, p) => Owns(snap, L, p) \/ p \in {Wkhtmltox}
          BY <1>5, <3>3 DEF Owns, UndoWkhtmltopdf, Undoing
        <4>2. Purge({Wkhtmltox})
          BY <3>3 DEF UndoWkhtmltopdf
        <4>3. \A n \in {Wkhtmltox} : n \in Package => found.pkg[n] # "installed"
          BY <1>2, <3>3 DEF SnapOK
        <4>4. QED  BY <1>2, <1>7, <4>1, <4>2, <4>3, PurgeLeft
      <3>4. CASE UndoWkhtmltopdf /\ snap.wkhtmltox # "CreatedByUs"
        <4>1. \A p \in Package : Owns(snap, Active, p) => Owns(snap, L, p)
          BY <1>5, <3>4 DEF Owns, UndoWkhtmltopdf, Undoing
        <4>2. UNCHANGED pkg
          BY <3>4 DEF UndoWkhtmltopdf
        <4>3. QED  BY <1>7, <4>1, <4>2 DEF LeftWith
      <3>5. QED  BY <1>8, <3>1, <3>2, <3>3, <3>4
    <2>4. QED  BY <1>1, <1>4, <2>1, <2>2, <2>3, UndoBelowLeft
  <1>9. CASE UndoClone \/ UndoVenv \/ UndoNothing
    <2>1. UNCHANGED pkg /\ idx \notin Shareds
      <3>1. idx \in {DirectoryStep, CloneStep, VenvStep, RequirementsStep}
        BY <1>9 DEF UndoClone, UndoVenv, UndoNothing, Undoing
      <3>2. idx \notin Shareds
        BY <3>1 DEF Shareds
      <3>3. QED  BY <1>9, <3>2 DEF UndoClone, UndoVenv, UndoNothing, world
    <2>2. LeftWith(pkg', snap, L)
      <3>1. \A p \in Package : Owns(snap, Active, p) => Owns(snap, L, p)
        BY <1>5, <2>1 DEF Owns, Shareds
      <3>2. QED  BY <1>7, <2>1, <3>1 DEF LeftWith
    <2>3. PICK f \in Tree : /\ f = found.tree[who] /\ f.modules = "absent" /\ f.dir \in {"absent", "theirs"}
                            /\ f.dir = "absent" => f = NoTree
      <3>1. found.tree[who] \in FoundTrees
        BY <1>2 DEF FoundOK
      <3>2. QED  BY <3>1, TreesAssumption DEF ModulesFound, Tree, Whose
    <2>4. PICK u : tree' = [tree EXCEPT ![who] = u] /\ TreeLeft(f, u, snap, L)
      <3>1. CASE UNCHANGED tree /\ ~(idx = CloneStep /\ snap.repo = "CreatedByUs")
                                /\ ~(idx = VenvStep /\ snap.venv = "CreatedByUs")
        <4>1. TreeLeft(f, t, snap, L)
          BY <1>5, <1>6, <2>3, <3>1 DEF TreeLeft
        <4>2. tree' = [tree EXCEPT ![who] = t]
          BY <1>2, <1>6, <3>1
        <4>3. QED  BY <4>1, <4>2
      <3>2. CASE UndoVenv /\ snap.venv = "CreatedByUs"
        <4>1. PICK u : u = [t EXCEPT !.venv = "absent"] /\ tree' = [tree EXCEPT ![who] = u]
          BY <1>6, <3>2 DEF UndoVenv
        <4>2. u.venv = "absent" /\ u.dir = t.dir /\ u.repo = t.repo /\ u.modules = t.modules
          BY <4>1 DEF Tree
        <4>3. f.venv = "absent"
          BY <1>2, <2>3, <3>2 DEF SnapOK
        <4>4. idx = VenvStep
          BY <3>2 DEF UndoVenv, Undoing
        <4>5. u.dir = "absent" => u = NoTree
          <5>1. t.dir = "absent" => t = NoTree
            BY <1>6 DEF TreeLeft
          <5>2. t.dir = "absent" => u = t
            BY <4>1, <5>1 DEF NoTree
          <5>3. QED  BY <4>2, <5>1, <5>2
        <4>6. TreeLeft(f, u, snap, L)
          BY <1>5, <1>6, <2>3, <4>2, <4>3, <4>4, <4>5 DEF TreeLeft
        <4>7. QED  BY <4>1, <4>6
      <3>3. CASE UndoClone /\ snap.repo = "CreatedByUs"
        <4>1. idx = CloneStep /\ f.repo \in {"absent", "invalid"}
          BY <1>2, <2>3, <3>3 DEF UndoClone, Undoing, SnapOK
        <4>2. PICK repo \in BOOLEAN, modules \in BOOLEAN : \E container \in BOOLEAN :
                /\ LET v == [tree[who] EXCEPT !.repo = IF repo THEN "absent" ELSE @,
                                              !.modules = IF modules THEN "absent" ELSE @]
                   IN  tree' = [tree EXCEPT ![who] = IF container THEN WithoutContainer(v) ELSE v]
                /\ IF repo /\ modules /\ container THEN UNCHANGED faults ELSE Fault
          BY <3>3 DEF UndoClone
        <4>3. repo /\ modules
          BY <4>2
        <4>4. \E container \in BOOLEAN :
                /\ LET v == [tree[who] EXCEPT !.repo = "absent", !.modules = "absent"]
                   IN  tree' = [tree EXCEPT ![who] = IF container THEN WithoutContainer(v) ELSE v]
                /\ container \/ Fault
          BY <4>2, <4>3
        <4>5. PICK v : /\ v = [t EXCEPT !.repo = "absent", !.modules = "absent"]
                       /\ tree' = [tree EXCEPT ![who] = WithoutContainer(v)]
          BY <1>6, <4>4
        <4>6. VenvStep \notin Active
          <5>1. \A k \in recorded : k > idx => k \in Shareds
            BY <1>1, LeftNow DEF Clean
          <5>2. VenvStep > CloneStep /\ VenvStep \notin Shareds /\ VenvStep # CloneStep
            BY DEF Shareds
          <5>3. VenvStep \notin recorded
            BY <4>1, <5>1, <5>2
          <5>4. QED  BY <1>1, <4>1, <5>2, <5>3 DEF Active
        <4>7. t.venv = f.venv
          BY <1>6, <2>3, <4>6 DEF TreeLeft
        <4>8. TreeLeft(f, WithoutContainer(v), snap, L)
          BY <1>6, <2>3, <4>1, <4>5, <4>7, UnclonedLeft
        <4>9. QED  BY <4>5, <4>8
      <3>4. UndoVenv => idx = VenvStep
        BY DEF UndoVenv, Undoing
      <3>5. UndoClone => idx = CloneStep
        BY DEF UndoClone, Undoing
      <3>6. UndoNothing => UNCHANGED tree /\ idx # CloneStep /\ idx # VenvStep
        BY DEF UndoNothing, Undoing, world
      <3>7. (UndoClone /\ snap.repo # "CreatedByUs") \/ (UndoVenv /\ snap.venv # "CreatedByUs") => UNCHANGED tree
        BY DEF UndoClone, UndoVenv
      <3>8. QED  BY <1>9, <3>1, <3>2, <3>3, <3>4, <3>5, <3>6, <3>7
    <2>5. TreeLeft(found.tree[who], tree'[who], snap, L) /\ \A i \in Instance \ {who} : tree'[i] = tree[i]
      BY <1>2, <2>3, <2>4
    <2>6. QED  BY <1>1, <1>4, <2>2, <2>5, UndoBelowLeft
  <1>10. QED  BY <1>8, <1>9


LEMMA NextLeft ==
    ASSUME ModulesFound, VenvsFound, LeftInv, [Next]_vars  PROVE LeftInv'
  <1>1. StaysInv' /\ CleanInv'
    BY NextStays, NextClean DEF LeftInv
  <1>2. CASE UNCHANGED vars
    <2>1. NoFault' = NoFault /\ UNCHANGED <<found, pkg, tree, man, pc, who, idx, snap, recorded, others, attempt>>
      BY <1>2 DEF vars, world, machine, NoFault
    <2>2. PackagesLeft => PackagesLeft'
      BY <2>1 DEF PackagesLeft, OwnedByOthers, Owns, Stays, ToolNames, Active
    <2>3. TreesLeft => TreesLeft'
      BY <2>1 DEF TreesLeft, TreeLeft, Active
    <2>4. RunLeft => RunLeft'
      BY <2>1 DEF RunLeft, Agree, HeldBack
    <2>5. QED  BY <1>1, <2>1, <2>2, <2>3, <2>4 DEF LeftInv, Left
  <1>3. CASE Next
    <2> SUFFICES ASSUME NoFault'  PROVE Left'
      BY <1>1 DEF LeftInv
    <2>1. NoFault /\ ~Fault /\ ~Dies
      BY <1>3, NoFaultBefore DEF LeftInv, CleanInv
    <2>2. ~Die /\ Clean'
      BY <1>1, <2>1 DEF Die, CleanInv
    <2>3. QED
      BY <1>3, <2>1, <2>2, CommandsLeft, SnapshotsLeft, PackageRunsLeft, AskAgainLeft, CloneRunsLeft,
         CloneAgainLeft, VenvRunsLeft, UndosLeft DEF Next
  <1>4. QED  BY <1>2, <1>3

LEMMA InitLeft ==
    ASSUME Init  PROVE LeftInv
  <1>1. /\ found = [pkg |-> pkg, tree |-> tree] /\ pc = "idle" /\ tree \in [Instance -> FoundTrees]
    BY DEF Init, Start
  <1>2. PackagesLeft
    BY <1>1 DEF PackagesLeft
  <1>3. \A i \in Instance : \A s, K : TreeLeft(tree[i], tree[i], s, K)
    BY <1>1, TreesAssumption DEF TreeLeft
  <1>4. TreesLeft
    BY <1>1, <1>3 DEF TreesLeft
  <1>5. QED  BY <1>1, <1>2, <1>4, InitStays, InitClean DEF LeftInv, Left, RunLeft

\* When the last manifest is gone the packages and the directories of every instance
\* are as they were found, whatever was installed beside what, wherever an
\* installation stopped and in whatever order the instances were rolled back: but a
\* wkhtmltox of another version than the pinned one may be gone.
THEOREM SoftwareRemovedMeansRestored ==
    ASSUME ModulesFound, VenvsFound  PROVE Spec => []RemovedMeansRestored
  <1>1. LeftInv => RemovedMeansRestored
    <2> SUFFICES ASSUME LeftInv, NoFault, pc = "idle", \A i \in Instance : man[i].steps = {}
                 PROVE  /\ \A p \in Package :
                              pkg[p] = found.pkg[p] \/ Stays(p) \/ (found.pkg[p] = "other" /\ pkg[p] = "absent")
                        /\ \A i \in Instance :
                             LET t == found.tree[i]
                             IN  tree[i] = [t EXCEPT !.repo = IF @ = "invalid" THEN tree[i].repo ELSE @]
      BY DEF RemovedMeansRestored, LeftInv, StaysInv, NoFault
    <2>1. Left
      BY DEF LeftInv
    <2>2. \A p \in Package :
            pkg[p] = found.pkg[p] \/ Stays(p) \/ (found.pkg[p] = "other" /\ pkg[p] = "absent")
      BY <2>1 DEF Left, PackagesLeft, Owns
    <2>3. ASSUME NEW i \in Instance
          PROVE  tree[i] = [found.tree[i] EXCEPT !.repo = IF @ = "invalid" THEN tree[i].repo ELSE @]
      <3>1. PICK t \in Tree : t = tree[i]
        BY TypesOf DEF LeftInv, StaysInv
      <3>2. PICK f \in Tree : f = found.tree[i]
        BY TreesAssumption DEF LeftInv, StaysInv, FoundOK
      <3>3. TreeLeft(f, t, man[i].snap, {})
        BY <2>1, <3>1, <3>2 DEF Left, TreesLeft
      <3>4. t.venv = f.venv /\ t.dir = f.dir /\ t.modules = f.modules /\ (t.repo = f.repo \/ f.repo = "invalid")
        BY <3>3 DEF TreeLeft
      <3>5. PICK g : g = [f EXCEPT !.repo = IF @ = "invalid" THEN t.repo ELSE @]
        OBVIOUS
      <3>6. g \in Tree /\ g.venv = f.venv /\ g.dir = f.dir /\ g.modules = f.modules /\ g.repo = t.repo
        BY <3>4, <3>5 DEF Tree
      <3>7. t = g
        BY <3>4, <3>6 DEF Tree
      <3>8. QED  BY <3>1, <3>2, <3>5, <3>7
    <2>4. QED  BY <2>2, <2>3
  <1>2. QED  BY <1>1, InitLeft, NextLeft, PTL DEF Spec

=============================================================================
