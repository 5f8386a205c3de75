-------------------------- MODULE DiskRollbackProofs --------------------------
(***************************************************************************)
(* Proofs about the rollback from disk, for any number of instances,       *)
(* records and artifacts.  But for what an undo warned that it left,       *)
(* nothing on the machine is forgotten, a shared artifact outlives the     *)
(* instances that depend on it, and `rollback --all` that ends well leaves *)
(* nothing.                                                                *)
(***************************************************************************)
EXTENDS DiskRollback, TLAPS, FiniteSetTheorems, WellFoundedInduction

-----------------------------------------------------------------------------
(* What the theorems suppose of the machine and of the undos.              *)

\* An instance with something of its own has a record of a step that is entirely its
\* own, by its own reading and by the unnamed one's: what a run leaves that has got
\* past prepare-opt-root and create-odoo-user.
HoldersFound ==
    \A m \in Installed : \A i \in Instance :
        (\E k \in DOMAIN m[i] : m[i][k].mine \cap OwnArtifact[i] # {}) =>
            \A r \in {1, i} : \E k \in DOMAIN m[i] : Scope[r][m[i][k].step] = "OwnInstance"

\* The undo of a mixed step can be called, and warns where it fails: those of
\* prepare-opt-root and nginx-install return no error.
MixedUndoWarns ==
    \A i \in Instance : \A s \in StepName :
        Scope[i][s] = "Mixed" => s \in Known \cap Readable /\ "err" \notin UndoMay[s]

-----------------------------------------------------------------------------
(* The invariant.                                                          *)

\* A record of i lists what its scope allows.
Fits(i, r) ==
    /\ r.mine \subseteq OwnArtifact[i] \cup SharedArtifact
    /\ Scope[i][r.step] = "Shared" => r.mine \subseteq SharedArtifact
    /\ Scope[i][r.step] = "OwnInstance" => r.mine \subseteq OwnArtifact[i]

RecordsFit == \A i \in Instance : \A k \in DOMAIN manifest[i] : Fits(i, manifest[i][k])

Reader(i) == IF i \in noConfig THEN 1 ELSE i

Alive(i) == \E k \in DOMAIN manifest[i] : Scope[Reader(i)][manifest[i][k].step] = "OwnInstance"

\* Something of an instance's own keeps it alive, unless its undo has left it with a
\* warning.
HoldersLive ==
    torn = {} => \A i \in Instance : \A a \in OwnArtifact[i] : a \in present \ warned => Alive(i)

\* What is left of the records that have been examined.
Examined ==
    \A k \in DOMAIN manifest[target] : k > left =>
        /\ manifest[target][k].step \in residue \/ manifest[target][k].mine \cap present \subseteq warned
        /\ Scope[target][manifest[target][k].step] = "Mixed" =>
              manifest[target][k].mine \cap OwnArtifact[target] \cap present \subseteq warned

\* The instances a rollback was not told about have nothing of their own left but what
\* their undos warned about.
NobodyElse ==
    others = {} => \A j \in Instance \ {target} : OwnArtifact[j] \cap present \subseteq warned

Busy == pc \in {"undo", "write"}

RollingBack ==
    Busy => /\ target \notin noConfig
            /\ torn = {} => NobodyElse /\ Examined
            /\ pc = "write" => left = 0

\* In the second pass nobody lives.
SecondPass == pc = "pass2" \/ (Busy /\ back = "pass2") => \A i \in Instance : ~IsLive(i)

DiskInv == TypeOK /\ RecordsFit /\ NothingForgotten /\ HoldersLive /\ RollingBack /\ SecondPass


-----------------------------------------------------------------------------
(* Lists of records.                                                       *)

Least(S) == \E m \in S : \A n \in S : m <= n

LEMMA LeastOf ==
    ASSUME NEW S \in SUBSET Nat, S # {}
    PROVE  Least(S)
  <1> DEFINE T == {1 .. n : n \in S}
  <1>1. T \subseteq FiniteSubsetsOf(Nat)
    <2>1. ASSUME NEW n \in S  PROVE 1 .. n \in FiniteSubsetsOf(Nat)
      <3>1. IsFiniteSet(1 .. n)
        BY FS_Interval
      <3>2. QED  BY <3>1 DEF FiniteSubsetsOf
    <2>2. QED  BY <2>1
  <1>2. T # {}
    OBVIOUS
  <1>3. PICK t \in T : \A u \in T : <<u, t>> \notin StrictSubsetOrdering(Nat)
    <2>. HIDE DEF T
    <2>1. QED  BY <1>1, <1>2, WFMin, FS_StrictSubsetOrderingWellFounded
  <1>4. PICK m \in S : t = 1 .. m
    BY <1>3
  <1>5. ASSUME NEW n \in S, n < m  PROVE FALSE
    <2>1. <<1 .. n, 1 .. m>> \notin StrictSubsetOrdering(Nat)
      BY <1>3, <1>4
    <2>2. 1 .. n \subseteq 1 .. m /\ 1 .. n # 1 .. m
      <3>1. m \in 1 .. m /\ m \notin 1 .. n
        BY <1>5
      <3>2. QED  BY <3>1, <1>5
    <2>3. 1 .. n \in SUBSET Nat /\ 1 .. m \in SUBSET Nat
      OBVIOUS
    <2>4. QED  BY <2>1, <2>2, <2>3 DEF StrictSubsetOrdering
  <1>6. \A n \in S : m <= n
    BY <1>5
  <1>7. QED  BY <1>6 DEF Least

\* The first n places of the recursion of Only.
UpTo(records, steps, n, f) ==
    f = [k \in 0 .. n |->
            IF k = 0 THEN <<>>
            ELSE IF records[k].step \in steps THEN Append(f[k - 1], records[k]) ELSE f[k - 1]]

LEMMA UpToExists ==
    ASSUME NEW records \in Seq(Record), NEW steps
    PROVE  \A n \in Nat : \E f : UpTo(records, steps, n, f)
  <1> DEFINE Bad == {n \in Nat : ~\E f : UpTo(records, steps, n, f)}
  <1> SUFFICES ASSUME Bad # {}  PROVE FALSE
    OBVIOUS
  <1>1. Bad \in SUBSET Nat
    OBVIOUS
  <1>2. PICK n \in Bad : \A k \in Bad : n <= k
    <2> HIDE DEF Bad
    <2>1. QED  BY <1>1, LeastOf DEF Least
  <1>3. n # 0
    <2>1. UpTo(records, steps, 0, [k \in 0 .. 0 |-> <<>>])
      BY DEF UpTo
    <2>2. QED  BY <2>1
  <1>4. PICK f : UpTo(records, steps, n - 1, f)
    <2>1. n - 1 \in Nat /\ ~(n <= n - 1)
      BY <1>3
    <2>2. n - 1 \notin Bad
      <3> HIDE DEF Bad
      <3>1. QED  BY <1>2, <2>1
    <2>3. QED  BY <2>1, <2>2
  <1>5. PICK last : last = IF records[n].step \in steps THEN Append(f[n - 1], records[n]) ELSE f[n - 1]
    OBVIOUS
  <1>6. PICK g : g = [k \in 0 .. n |-> IF k = n THEN last ELSE f[k]]
    OBVIOUS
  <1>7. ASSUME NEW k \in 0 .. n
        PROVE  g[k] = IF k = 0 THEN <<>>
                      ELSE IF records[k].step \in steps THEN Append(g[k - 1], records[k]) ELSE g[k - 1]
    <2>1. CASE k = n
      <3>1. g[k] = last /\ g[k - 1] = f[k - 1] /\ k # 0
        BY <1>3, <1>6, <2>1
      <3>2. QED  BY <1>5, <2>1, <3>1
    <2>2. CASE k # n
      <3>1. k \in 0 .. n - 1 /\ g[k] = f[k]
        BY <1>6, <2>2
      <3>2. k # 0 => g[k - 1] = f[k - 1]
        BY <1>6, <2>2
      <3>3. f[k] = IF k = 0 THEN <<>>
                   ELSE IF records[k].step \in steps THEN Append(f[k - 1], records[k]) ELSE f[k - 1]
        BY <1>4, <3>1 DEF UpTo
      <3>4. QED  BY <3>1, <3>2, <3>3
    <2>3. QED  BY <2>1, <2>2
  <1>8. UpTo(records, steps, n, g)
    BY <1>6, <1>7 DEF UpTo
  <1>9. QED  BY <1>8

\* What is kept of a list of records: records of the list, all those of some steps,
\* and no others.
LEMMA OnlyOf ==
    ASSUME NEW records \in Seq(Record), NEW steps
    PROVE  /\ Only(records, steps) \in Seq(Record)
           /\ \A k \in DOMAIN Only(records, steps) : \E j \in DOMAIN records :
                 Only(records, steps)[k] = records[j]
           /\ \A j \in DOMAIN records : records[j].step \in steps =>
                 \E k \in DOMAIN Only(records, steps) : Only(records, steps)[k] = records[j]
  <1> DEFINE Good(n, s) == /\ s \in Seq(Record)
                           /\ \A k \in DOMAIN s : \E j \in 1 .. n : s[k] = records[j]
                           /\ \A j \in 1 .. n : records[j].step \in steps => \E k \in DOMAIN s : s[k] = records[j]
  <1>1. PICK f : f = CHOOSE g : UpTo(records, steps, Len(records), g)
    OBVIOUS
  <1>2. UpTo(records, steps, Len(records), f)
    <2>1. \E g : UpTo(records, steps, Len(records), g)
      BY UpToExists
    <2>2. QED  BY <1>1, <2>1
  <1>3. Only(records, steps) = f[Len(records)]
    BY <1>1 DEF Only, UpTo
  <1>4. \A n \in 0 .. Len(records) : Good(n, f[n])
    <2> DEFINE Bad == {n \in 0 .. Len(records) : ~Good(n, f[n])}
    <2> SUFFICES ASSUME Bad # {}  PROVE FALSE
      OBVIOUS
    <2>1. Bad \in SUBSET Nat
      OBVIOUS
    <2>2. PICK n \in Bad : \A k \in Bad : n <= k
      <3> HIDE DEF Bad
      <3>1. QED  BY <2>1, LeastOf DEF Least
    <2>3. n \in 0 .. Len(records) /\ ~Good(n, f[n])
      OBVIOUS
    <2>4. n # 0
      <3> SUFFICES ASSUME n = 0  PROVE FALSE
        OBVIOUS
      <3>1. f[n] = <<>>
        BY <1>2, <2>3 DEF UpTo
      <3>2. Good(n, <<>>)
        OBVIOUS
      <3>3. QED  BY <2>3, <3>1, <3>2
    <2>5. n - 1 \in 0 .. Len(records) /\ ~(n <= n - 1) /\ n \in 1 .. Len(records)
      BY <2>3, <2>4
    <2>6. Good(n - 1, f[n - 1])
      <3>1. n - 1 \notin Bad
        <4> HIDE DEF Bad
        <4>1. QED  BY <2>2, <2>5
      <3>2. QED  BY <2>5, <3>1
    <2>7. f[n] = IF records[n].step \in steps THEN Append(f[n - 1], records[n]) ELSE f[n - 1]
      BY <1>2, <2>3, <2>4 DEF UpTo
    <2>8. PICK s : s = f[n - 1]
      OBVIOUS
    <2>9. Good(n, f[n])
      <3>1. records[n] \in Record
        BY <2>5
      <3>2. s \in Seq(Record) /\ (\A k \in DOMAIN s : \E j \in 1 .. n : s[k] = records[j])
        BY <2>5, <2>6, <2>8
      <3>3. CASE records[n].step \in steps
        <4>1. PICK a : a = Append(s, records[n])
          OBVIOUS
        <4>2. a \in Seq(Record) /\ Len(a) = Len(s) + 1 /\ a[Len(s) + 1] = records[n]
              /\ \A k \in 1 .. Len(s) : a[k] = s[k]
          BY <3>1, <3>2, <4>1
        <4>3. \A k \in DOMAIN a : \E j \in 1 .. n : a[k] = records[j]
          <5> TAKE k \in DOMAIN a
          <5>1. CASE k = Len(s) + 1
            BY <2>5, <4>2, <5>1
          <5>2. CASE k # Len(s) + 1
            <6>1. k \in 1 .. Len(s) /\ k \in DOMAIN s
              BY <3>2, <4>2, <5>2
            <6>2. QED  BY <3>2, <4>2, <6>1
          <5>3. QED  BY <5>1, <5>2
        <4>4. \A j \in 1 .. n : records[j].step \in steps => \E k \in DOMAIN a : a[k] = records[j]
          <5> SUFFICES ASSUME NEW j \in 1 .. n, records[j].step \in steps
                       PROVE  \E k \in DOMAIN a : a[k] = records[j]
            OBVIOUS
          <5>1. CASE j = n
            BY <3>2, <4>2, <5>1
          <5>2. CASE j # n
            <6>1. j \in 1 .. n - 1
              BY <2>5, <5>2
            <6>2. PICK k \in DOMAIN s : s[k] = records[j]
              BY <2>6, <2>8, <6>1
            <6>3. k \in 1 .. Len(s) /\ k \in DOMAIN a
              BY <3>2, <4>2
            <6>4. QED  BY <4>2, <6>2, <6>3
          <5>3. QED  BY <5>1, <5>2
        <4>5. f[n] = a
          BY <2>7, <2>8, <3>3, <4>1
        <4>6. QED  BY <4>2, <4>3, <4>4, <4>5
      <3>4. CASE records[n].step \notin steps
        <4>1. f[n] = s
          BY <2>7, <2>8, <3>4
        <4>2. \A j \in 1 .. n : records[j].step \in steps => j \in 1 .. n - 1
          BY <2>5, <3>4
        <4>3. \A j \in 1 .. n : records[j].step \in steps => \E k \in DOMAIN s : s[k] = records[j]
          BY <2>6, <2>8, <4>2
        <4>4. QED  BY <3>2, <4>1, <4>3
      <3>5. QED  BY <3>3, <3>4
    <2>10. QED  BY <2>3, <2>9
  <1>5. Good(Len(records), f[Len(records)])
    BY <1>4
  <1>6. DOMAIN records = 1 .. Len(records)
    OBVIOUS
  <1>7. QED  BY <1>3, <1>5, <1>6

-----------------------------------------------------------------------------
(* Types.                                                                  *)

LEMMA FirstIn ==
    ASSUME NEW S \in SUBSET Instance, S # {}  PROVE First(S) \in S
  <1>1. S \in SUBSET Nat
    BY DEF Instance
  <1>2. \E m \in S : \A n \in S : m <= n
    BY <1>1, LeastOf DEF Least
  <1>3. QED  BY <1>2 DEF First

\* What an instance must have for rollback_manifest to be called on it.
LEMMA Rollbackable ==
    ASSUME TypeOK, NEW i \in Instance, manifest[i] # <<>>
    PROVE  Len(manifest[i]) \in DOMAIN manifest[i] /\ Len(manifest[i]) \in Nat
  BY DEF TypeOK

\* The beginning of the rollback of one manifest.
LEMMA BeginType ==
    ASSUME TypeOK, NEW i \in Instance, manifest[i] # <<>>, NEW them \in SUBSET (Instance \ {i}),
           NEW from \in {"idle", "pass1", "pass2"},
           RollbackManifest(i, them, from), UNCHANGED <<present, manifest, torn, noConfig, residue, faults, warned>>
    PROVE  TypeOK'
  <1>1. Len(manifest[i]) \in DOMAIN manifest[i] /\ Len(manifest[i]) \in Nat
    BY Rollbackable
  <1>2. QED  BY <1>1 DEF RollbackManifest, TypeOK

LEMMA KeptType ==
    ASSUME TypeOK
    PROVE  /\ Kept \in Seq(Record)
           /\ \A k \in DOMAIN Kept : \E j \in DOMAIN manifest[target] : Kept[k] = manifest[target][j]
           /\ \A j \in DOMAIN manifest[target] : manifest[target][j].step \in residue =>
                 \E k \in DOMAIN Kept : Kept[k] = manifest[target][j]
  <1>1. manifest[target] \in Seq(Record)
    BY DEF TypeOK
  <1>2. QED  BY <1>1, OnlyOf DEF Kept

LEMMA NextRecordType ==
    ASSUME TypeOK, pc = "undo", NextRecord
    PROVE  /\ left' \in Nat /\ pc' \in {"undo", "write"}
           /\ pc' = "undo" => left' \in DOMAIN manifest'[target']
           /\ pc' = "write" => left' = 0
           /\ Current \in Record
           /\ UNCHANGED <<manifest, torn, noConfig, back, target, others, status>>
  <1>1. manifest[target] \in Seq(Record) /\ left \in DOMAIN manifest[target]
    BY DEF TypeOK
  <1>2. QED  BY <1>1 DEF NextRecord, Current

LEMMA InitType ==
    ASSUME Init  PROVE TypeOK
  <1>1. PICK m \in Installed : /\ manifest = [i \in Instance |-> IF i \in torn THEN <<>> ELSE m[i]]
                               /\ present = Listed(m)
    BY DEF Init
  <1>2. m \in [Instance -> Seq(Record)]
    BY InstalledAssumption
  <1>3. manifest \in [Instance -> Seq(Record)]
    <2>1. <<>> \in Seq(Record)
      OBVIOUS
    <2>2. \A i \in Instance : (IF i \in torn THEN <<>> ELSE m[i]) \in Seq(Record)
      BY <1>2, <2>1
    <2>3. QED  BY <1>1, <2>2
  <1>4. present \subseteq Artifact
    <2>1. \A i \in Instance : \A k \in DOMAIN m[i] : m[i][k] \in Record
      BY <1>2
    <2>2. \A i \in Instance : \A k \in DOMAIN m[i] : m[i][k].mine \subseteq Artifact
      BY <2>1 DEF Record
    <2>3. QED  BY <1>1, <2>2 DEF Listed
  <1>5. torn \subseteq Instance /\ noConfig \subseteq Instance /\ 1 \in Instance /\ 0 \in 0 .. MaxFaults
    BY StartAssumption, MAssumption, OutcomeAssumption DEF Init, Instance
  <1>6. QED  BY <1>3, <1>4, <1>5 DEF Init, TypeOK

LEMMA CommandsType ==
    ASSUME TypeOK, RollbackAll \/ (\E i \in Instance : RollbackOne(i)) \/ Pass1 \/ Pass1Done \/ Pass2 \/ AllDone
    PROVE  TypeOK'
  <1>1. CASE \E i \in Instance : RollbackOne(i)
    <2>1. PICK i \in Instance : RollbackOne(i)
      BY <1>1
    <2>2. manifest[i] # <<>> /\ LiveOthers(i) \in SUBSET (Instance \ {i})
      BY <2>1 DEF RollbackOne, Found, LiveOthers
    <2>3. QED  BY <2>1, <2>2, BeginType DEF RollbackOne
  <1>2. CASE Pass1
    <2>1. PICK i : i = First({j \in Instance : IsLive(j)})
      OBVIOUS
    <2>2. i \in Instance /\ IsLive(i)
      <3>1. {j \in Instance : IsLive(j)} # {}
        BY <1>2 DEF Pass1
      <3>2. QED  BY <2>1, <3>1, FirstIn
    <2>3. manifest[i] # <<>> /\ LiveOthers(i) \in SUBSET (Instance \ {i})
      BY <2>2 DEF IsLive, Found, LiveOthers
    <2>4. QED  BY <1>2, <2>1, <2>2, <2>3, BeginType DEF Pass1
  <1>3. CASE Pass2
    <2>1. PICK i : i = First(Tombstones)
      OBVIOUS
    <2>2. i \in Tombstones
      <3>1. Tombstones \subseteq Instance
        BY DEF Tombstones, Found
      <3>2. QED  BY <1>3, <2>1, <3>1, FirstIn DEF Pass2
    <2>3. i \in Instance /\ manifest[i] # <<>>
      BY <2>2 DEF Tombstones, Found
    <2>4. QED  BY <1>3, <2>1, <2>3, BeginType DEF Pass2
  <1>4. CASE RollbackAll \/ Pass1Done \/ AllDone
    BY <1>4 DEF RollbackAll, Pass1Done, AllDone, TypeOK
  <1>5. QED  BY <1>1, <1>2, <1>3, <1>4

LEMMA UndosType ==
    ASSUME TypeOK, NotCalled \/ Called  PROVE TypeOK'
  <1>1. pc = "undo" /\ NextRecord
    BY DEF NotCalled, Called
  <1>2. Current.step \in StepName
    BY <1>1, NextRecordType DEF Record
  <1>3. present' \subseteq Artifact /\ residue' \subseteq StepName /\ faults' \in 0 .. MaxFaults
        /\ warned' \subseteq present'
    <2>1. CASE NotCalled
      BY <1>2, <2>1 DEF NotCalled, TypeOK
    <2>2. CASE Called
      <3>1. PICK how \in UndoMay[Current.step], gone \in SUBSET Removable :
              /\ present' = present \ gone
              /\ residue' = IF how = "err" \/ HeldBack("Mixed") THEN residue \cup {Current.step} ELSE residue
              /\ faults' = IF how = "removed" THEN faults ELSE faults + 1
              /\ warned' = present' \cap (warned \cup IF how = "err" THEN {} ELSE Asked)
        BY <2>2 DEF Called
      <3>2. faults' <= MaxFaults /\ faults \in Nat
        BY <2>2, OutcomeAssumption DEF Called, TypeOK
      <3>3. faults' \in 0 .. MaxFaults
        BY <3>1, <3>2, OutcomeAssumption
      <3>4. QED  BY <1>2, <3>1, <3>3 DEF TypeOK
    <2>3. QED  BY <2>1, <2>2
  <1>4. QED  BY <1>1, <1>3, NextRecordType DEF TypeOK

LEMMA WriteBackType ==
    ASSUME TypeOK, WriteBack  PROVE TypeOK'
  <1>1. manifest' \in [Instance -> Seq(Record)] /\ torn' \subseteq Instance /\ faults' \in 0 .. MaxFaults
    <2>1. CASE manifest' = [manifest EXCEPT ![target] = Kept] /\ UNCHANGED <<torn, faults>>
      BY <2>1, KeptType DEF TypeOK
    <2>2. CASE WriteFails
      <3>1. faults' \in 0 .. MaxFaults
        BY <2>2, OutcomeAssumption DEF WriteFails, TypeOK
      <3>2. <<>> \in Seq(Record)
        OBVIOUS
      <3>3. QED  BY <2>2, <3>1, <3>2 DEF WriteFails, TypeOK
    <2>3. QED  BY <2>1, <2>2 DEF WriteBack
  <1>2. QED  BY <1>1 DEF WriteBack, TypeOK

LEMMA KilledType ==
    ASSUME TypeOK, Killed  PROVE TypeOK'
  <1>1. faults' \in 0 .. MaxFaults
    BY OutcomeAssumption DEF Killed, TypeOK
  <1>2. present' \subseteq Artifact /\ warned' \subseteq present'
    BY DEF Killed, TypeOK
  <1>3. QED  BY <1>1, <1>2 DEF Killed, TypeOK

LEMMA NextType ==
    ASSUME TypeOK, [Next]_vars  PROVE TypeOK'
  <1>1. CASE UNCHANGED vars
    BY <1>1 DEF vars, TypeOK
  <1>2. CASE Next
    BY <1>2, CommandsType, UndosType, WriteBackType, KilledType DEF Next, Progress
  <1>3. QED  BY <1>1, <1>2

\* The records and the counters stay within their types: in particular an undo never
\* looks past the first record of a manifest.
THEOREM DiskTypeOK == Spec => []TypeOK
  BY InitType, NextType, PTL DEF Spec

-----------------------------------------------------------------------------
(* Nothing is forgotten, and what is shared outlives who depends on it.    *)

\* Where an artifact that is left is listed.
LEMMA ListedAt ==
    ASSUME NEW m, NEW a, a \in Listed(m)
    PROVE  \E i \in Instance : \E k \in DOMAIN m[i] : a \in m[i][k].mine
  BY DEF Listed

LEMMA IsListed ==
    ASSUME NEW m, NEW i \in Instance, NEW k \in DOMAIN m[i], NEW a \in m[i][k].mine
    PROVE  a \in Listed(m)
  BY DEF Listed

\* What an instance has of its own is listed by no other.
LEMMA OwnRecord ==
    ASSUME NEW i \in Instance, NEW j \in Instance, NEW r, Fits(j, r), NEW a \in OwnArtifact[i], a \in r.mine
    PROVE  i = j /\ Scope[j][r.step] # "Shared"
  <1>1. a \notin SharedArtifact
    BY ArtifactAssumption
  <1>2. QED  BY <1>1, ArtifactAssumption DEF Fits

\* Without a torn manifest, who is not live has nothing of its own left that no undo
\* warned about.
LEMMA NotLive ==
    ASSUME HoldersLive, torn = {}, NEW i \in Instance, ~IsLive(i)
    PROVE  OwnArtifact[i] \cap present \subseteq warned
  <1>1. ~Alive(i)
    <2> SUFFICES ASSUME Alive(i)  PROVE FALSE
      OBVIOUS
    <2>1. manifest[i] # <<>>
      BY DEF Alive
    <2>2. QED  BY <2>1 DEF IsLive, Found, Alive, Reader
  <1>2. QED  BY <1>1 DEF HoldersLive

LEMMA InitDisk ==
    ASSUME HoldersFound, Init  PROVE DiskInv
  <1>1. PICK m \in Installed : /\ manifest = [i \in Instance |-> IF i \in torn THEN <<>> ELSE m[i]]
                               /\ present = Listed(m)
    BY DEF Init
  <1>2. m \in [Instance -> Seq(Record)]
    BY InstalledAssumption
  <1>3. \A i \in Instance : \A k \in DOMAIN m[i] : Fits(i, m[i][k])
    BY InstalledAssumption DEF Fits
  <1>4. RecordsFit
    BY <1>1, <1>3 DEF RecordsFit
  <1>5. torn = {} => manifest = m
    BY <1>1, <1>2
  <1>6. HoldersLive
    <2> SUFFICES ASSUME torn = {}, NEW i \in Instance, NEW a \in OwnArtifact[i], a \in present
                 PROVE  Alive(i)
      BY DEF HoldersLive
    <2>1. PICK j \in Instance : \E k \in DOMAIN m[j] : a \in m[j][k].mine
      BY <1>1, ListedAt
    <2>2. PICK k \in DOMAIN m[j] : a \in m[j][k].mine
      BY <2>1
    <2>3. j = i
      BY <1>3, <2>2, OwnRecord
    <2>4. m[i][k].mine \cap OwnArtifact[i] # {} /\ k \in DOMAIN m[i]
      BY <2>2, <2>3
    <2>5. \A r \in {1, i} : \E n \in DOMAIN m[i] : Scope[r][m[i][n].step] = "OwnInstance"
      BY <2>4 DEF HoldersFound
    <2>6. QED  BY <1>5, <2>5 DEF Alive, Reader
  <1>7. NothingForgotten
    BY <1>1, <1>5 DEF NothingForgotten
  <1>8. pc = "idle"
    BY DEF Init
  <1>9. QED  BY <1>4, <1>6, <1>7, <1>8, InitType DEF DiskInv, RollingBack, SecondPass, Busy

\* The parts that only the manifests and the machine count for.
Standing == RecordsFit /\ NothingForgotten /\ HoldersLive

LEMMA StandingKept ==
    ASSUME Standing, UNCHANGED <<manifest, torn, noConfig>>, present' \subseteq present,
           warned \cap present' \subseteq warned'
    PROVE  Standing'
  <1>1. RecordsFit'
    BY DEF Standing, RecordsFit
  <1>2. NothingForgotten'
    BY DEF Standing, NothingForgotten, Listed
  <1>3. HoldersLive'
    BY DEF Standing, HoldersLive, Alive, Reader
  <1>4. QED  BY <1>1, <1>2, <1>3 DEF Standing

\* Nobody begins to live.
LEMMA LivesKept ==
    ASSUME UNCHANGED <<manifest, torn, noConfig>>
    PROVE  \A i \in Instance : IsLive(i)' = IsLive(i)
  BY DEF IsLive, Found

LEMMA BeginDisk ==
    ASSUME DiskInv, pc \in {"idle", "pass1", "pass2"}, NEW i \in Instance, manifest[i] # <<>>, NEW them,
           them = {} /\ torn = {} => \A j \in Instance \ {i} : ~IsLive(j),
           NEW from, from = "pass2" => pc = "pass2",
           RollbackManifest(i, them, from), UNCHANGED <<present, manifest, torn, noConfig, residue, faults, warned>>
    PROVE  Standing' /\ RollingBack' /\ SecondPass'
  <1>1. Standing'
    BY StandingKept DEF DiskInv, Standing
  <1>2. CASE pc' = "idle"
    BY <1>1, <1>2 DEF RollingBack, SecondPass, Busy
  <1>3. CASE pc' # "idle"
    <2>1. /\ i \notin noConfig /\ pc' = "undo" /\ back' = from /\ target' = i /\ others' = them
          /\ left' = Len(manifest[i])
      BY <1>3 DEF RollbackManifest
    <2>2. RollingBack'
      <3>1. ASSUME torn = {}  PROVE NobodyElse'
        BY <2>1, <3>1, NotLive DEF DiskInv, NobodyElse
      <3>2. Examined'
        <4>1. \A k \in DOMAIN manifest[i] : ~(k > Len(manifest[i]))
          BY DEF DiskInv, TypeOK
        <4>2. QED  BY <2>1, <4>1 DEF Examined
      <3>3. QED  BY <2>1, <3>1, <3>2 DEF RollingBack
    <2>3. SecondPass'
      BY <2>1, LivesKept DEF SecondPass, DiskInv
    <2>4. QED  BY <1>1, <2>2, <2>3
  <1>4. QED  BY <1>2, <1>3

LEMMA CommandsDisk ==
    ASSUME DiskInv, RollbackAll \/ (\E i \in Instance : RollbackOne(i)) \/ Pass1 \/ Pass1Done \/ Pass2 \/ AllDone
    PROVE  Standing' /\ RollingBack' /\ SecondPass'
  <1>0. \A i \in Instance : LiveOthers(i) = {} => \A j \in Instance \ {i} : ~IsLive(j)
    BY DEF LiveOthers
  <1>1. CASE \E i \in Instance : RollbackOne(i)
    <2>1. PICK i \in Instance : RollbackOne(i)
      BY <1>1
    <2>2. manifest[i] # <<>> /\ pc = "idle"
      BY <2>1 DEF RollbackOne, Found
    <2>3. QED  BY <1>0, <2>1, <2>2, BeginDisk DEF RollbackOne
  <1>2. CASE Pass1
    <2>1. PICK i : i = First({j \in Instance : IsLive(j)})
      OBVIOUS
    <2>2. i \in Instance /\ IsLive(i)
      <3>1. {j \in Instance : IsLive(j)} # {}
        BY <1>2 DEF Pass1
      <3>2. QED  BY <2>1, <3>1, FirstIn
    <2>3. manifest[i] # <<>>
      BY <2>2 DEF IsLive, Found
    <2>4. QED  BY <1>0, <1>2, <2>1, <2>2, <2>3, BeginDisk DEF Pass1
  <1>3. CASE Pass2
    <2>1. PICK i : i = First(Tombstones)
      OBVIOUS
    <2>2. i \in Tombstones
      <3>1. Tombstones \subseteq Instance
        BY DEF Tombstones, Found
      <3>2. QED  BY <1>3, <2>1, <3>1, FirstIn DEF Pass2
    <2>3. i \in Instance /\ manifest[i] # <<>> /\ pc = "pass2"
      BY <1>3, <2>2 DEF Tombstones, Found, Pass2
    <2>4. \A j \in Instance : ~IsLive(j)
      BY <2>3 DEF DiskInv, SecondPass
    <2>5. QED  BY <1>3, <2>1, <2>3, <2>4, BeginDisk DEF Pass2
  <1>4. CASE RollbackAll \/ Pass1Done \/ AllDone
    <2>1. UNCHANGED <<present, manifest, torn, noConfig, warned>> /\ pc' \in {"idle", "pass1", "pass2"}
          /\ (pc' = "pass2" => \A i \in Instance : ~IsLive(i))
      BY <1>4 DEF RollbackAll, Pass1Done, AllDone
    <2>2. Standing'
      BY <2>1, StandingKept DEF DiskInv, Standing
    <2>3. QED  BY <2>1, <2>2, LivesKept DEF RollingBack, SecondPass, Busy
  <1>5. QED  BY <1>1, <1>2, <1>3, <1>4

-----------------------------------------------------------------------------
(* The undos, the manifest written back and the kill.                      *)

LEMMA CurrentFits ==
    ASSUME TypeOK, RecordsFit, pc = "undo"
    PROVE  Current \in Record /\ Fits(target, Current) /\ target \in Instance
  BY DEF TypeOK, RecordsFit, Current

\* What is left of a record whose undo has been called.
LEMMA CalledLeaves ==
    ASSUME MixedUndoWarns, DiskInv, Called
    PROVE  /\ Current.step \in residue' \/ Current.mine \cap present' \subseteq warned'
           /\ Scope[target][Current.step] = "Mixed" =>
                 Current.mine \cap OwnArtifact[target] \cap present' \subseteq warned'
           /\ residue \subseteq residue'
           /\ present' \subseteq present /\ warned \cap present' \subseteq warned'
  <1>1. Current \in Record /\ Fits(target, Current) /\ target \in Instance /\ ~HeldBack("Shared")
    BY CurrentFits DEF DiskInv, Called
  <1>2. PICK how \in UndoMay[Current.step], gone \in SUBSET Removable :
          /\ present' = present \ gone
          /\ residue' = IF how = "err" \/ HeldBack("Mixed") THEN residue \cup {Current.step} ELSE residue
          /\ warned' = present' \cap (warned \cup IF how = "err" THEN {} ELSE Asked)
    BY DEF Called
  <1>3. Current.step \in StepName
    BY <1>1 DEF Record
  <1>4. Scope[target][Current.step] = "Mixed" => how # "err"
    BY <1>1, <1>2, <1>3 DEF MixedUndoWarns
  <1>5. Scope[target][Current.step] \in {"OwnInstance", "Shared", "Mixed"}
    BY <1>1, <1>3, ScopeAssumption
  <1>6. OwnArtifact[target] \cap SharedArtifact = {}
    BY <1>1, ArtifactAssumption
  <1>7. Current.mine \cap OwnArtifact[target] \subseteq Asked
    BY <1>6 DEF Asked
  <1>8. ASSUME how # "err", ~HeldBack("Mixed")  PROVE Current.mine \subseteq Asked
    <2>1. CASE others = {}
      BY <2>1 DEF Asked
    <2>2. CASE others # {}
      <3>1. Current.mine \subseteq OwnArtifact[target]
        BY <1>1, <1>5, <1>8, <2>2 DEF HeldBack, Fits
      <3>2. QED  BY <1>7, <3>1
    <2>3. QED  BY <2>1, <2>2
  <1>9. QED  BY <1>2, <1>4, <1>7, <1>8

LEMMA UndosDisk ==
    ASSUME MixedUndoWarns, DiskInv, NotCalled \/ Called
    PROVE  Standing' /\ RollingBack' /\ SecondPass'
  <1>1. pc = "undo" /\ NextRecord
    BY DEF NotCalled, Called
  <1>2. /\ left' = left - 1 /\ left \in DOMAIN manifest[target] /\ left \in Nat
        /\ pc' \in {"undo", "write"} /\ (pc' = "write" => left' = 0)
        /\ UNCHANGED <<manifest, torn, noConfig, back, target, others>>
        /\ manifest[target] \in Seq(Record) /\ target \in Instance
    <2>1. manifest[target] \in Seq(Record) /\ left \in DOMAIN manifest[target] /\ left \in Nat /\ target \in Instance
      BY <1>1 DEF DiskInv, TypeOK
    <2>2. QED  BY <1>1, <2>1, NextRecordType DEF DiskInv, NextRecord
  <1>3. present' \subseteq present /\ warned \cap present' \subseteq warned'
    BY CalledLeaves DEF NotCalled
  <1>4. Standing'
    BY <1>2, <1>3, StandingKept DEF DiskInv, Standing
  <1>5. ASSUME torn = {}  PROVE NobodyElse' /\ Examined'
    <2>1. NobodyElse /\ Examined
      BY <1>1, <1>5 DEF DiskInv, RollingBack, Busy
    <2>2. NobodyElse'
      BY <1>2, <1>3, <2>1 DEF NobodyElse
    <2>3. /\ Current.step \in residue' \/ Current.mine \cap present' \subseteq warned'
          /\ Scope[target][Current.step] = "Mixed" =>
                Current.mine \cap OwnArtifact[target] \cap present' \subseteq warned'
          /\ residue \subseteq residue'
      <3>1. CASE Called
        BY <3>1, CalledLeaves
      <3>2. CASE NotCalled
        <4>1. Current.step \in StepName
          BY <1>1, CurrentFits DEF DiskInv, Record
        <4>2. Scope[target][Current.step] # "Mixed"
          BY <1>2, <3>2, <4>1 DEF NotCalled, MixedUndoWarns, CanUndo, HeldBack
        <4>3. QED  BY <3>2, <4>2 DEF NotCalled
      <3>3. QED  BY <3>1, <3>2
    <2>4. \A k \in DOMAIN manifest[target] : k > left' => k = left \/ k > left
      BY <1>2
    <2>5. Current = manifest[target][left]
      BY DEF Current
    <2>6. Examined'
      BY <1>2, <1>3, <2>1, <2>3, <2>4, <2>5 DEF Examined
    <2>7. QED  BY <2>2, <2>6
  <1>6. RollingBack'
    <2>1. target \notin noConfig
      BY <1>1 DEF DiskInv, RollingBack, Busy
    <2>2. QED  BY <1>2, <1>5, <2>1 DEF RollingBack
  <1>7. SecondPass'
    <2>1. pc' # "pass2" /\ (back' = "pass2" => \A i \in Instance : ~IsLive(i))
      BY <1>1, <1>2 DEF DiskInv, SecondPass, Busy
    <2>2. QED  BY <1>2, <2>1, LivesKept DEF SecondPass
  <1>8. QED  BY <1>4, <1>6, <1>7

\* The records that are dropped list nothing that is left but what was warned about.
LEMMA Dropped ==
    ASSUME DiskInv, torn = {}, pc = "write", NEW k \in DOMAIN manifest[target],
           NEW a \in manifest[target][k].mine, a \in present \ warned
    PROVE  /\ \E j \in DOMAIN Kept : Kept[j] = manifest[target][k]
           /\ a \in OwnArtifact[target] => Scope[target][manifest[target][k].step] = "OwnInstance"
  <1>1. manifest[target] \in Seq(Record) /\ target \in Instance
    BY DEF DiskInv, TypeOK
  <1>2. k > left /\ Examined
    BY <1>1 DEF DiskInv, RollingBack, Busy
  <1>3. manifest[target][k].step \in residue
    BY <1>2 DEF Examined
  <1>4. \E j \in DOMAIN Kept : Kept[j] = manifest[target][k]
    BY <1>3, KeptType DEF DiskInv
  <1>5. ASSUME a \in OwnArtifact[target]  PROVE Scope[target][manifest[target][k].step] = "OwnInstance"
    <2>0. manifest[target][k] \in Record
      BY <1>1
    <2>1. manifest[target][k].step \in StepName
      BY <2>0 DEF Record
    <2>2. Scope[target][manifest[target][k].step] \in {"OwnInstance", "Shared", "Mixed"}
      BY <1>1, <2>1, ScopeAssumption
    <2>3. Fits(target, manifest[target][k])
      BY <1>1 DEF DiskInv, RecordsFit
    <2>4. Scope[target][manifest[target][k].step] # "Shared"
      BY <1>1, <1>5, <2>3, OwnRecord
    <2>5. Scope[target][manifest[target][k].step] # "Mixed"
      BY <1>2, <1>5 DEF Examined
    <2>6. QED  BY <2>2, <2>4, <2>5
  <1>6. QED  BY <1>4, <1>5

\* A manifest that has lost records: nobody begins to live by it.
LEMMA KeptLives ==
    ASSUME TypeOK, manifest' = [manifest EXCEPT ![target] = Kept] \/ manifest' = [manifest EXCEPT ![target] = <<>>],
           torn \subseteq torn', UNCHANGED noConfig
    PROVE  \A i \in Instance : IsLive(i)' => IsLive(i)
  <1> SUFFICES ASSUME NEW i \in Instance, IsLive(i)'  PROVE IsLive(i)
    OBVIOUS
  <1>1. i \notin torn
    BY DEF IsLive, Found
  <1>2. PICK k \in DOMAIN manifest'[i] :
          Scope[IF i \in noConfig THEN 1 ELSE i][manifest'[i][k].step] = "OwnInstance"
    BY DEF IsLive
  <1>3. PICK j \in DOMAIN manifest[i] : manifest'[i][k] = manifest[i][j]
    <2>1. CASE i # target
      BY <1>2, <2>1 DEF TypeOK
    <2>2. CASE i = target
      <3>1. manifest'[i] = Kept \/ manifest'[i] = <<>>
        BY <2>2 DEF TypeOK
      <3>2. DOMAIN <<>> = {}
        OBVIOUS
      <3>3. manifest'[i] = Kept
        BY <1>2, <3>1, <3>2
      <3>4. QED  BY <1>2, <2>2, <3>3, KeptType
    <2>3. QED  BY <2>1, <2>2
  <1>4. manifest[i] # <<>>
    BY <1>3
  <1>5. QED  BY <1>1, <1>2, <1>3, <1>4 DEF IsLive, Found

LEMMA WriteBackDisk ==
    ASSUME DiskInv, WriteBack
    PROVE  Standing' /\ RollingBack' /\ SecondPass'
  <1>1. /\ pc = "write" /\ UNCHANGED <<present, noConfig, target, warned>> /\ ~Busy' /\ pc' = back
        /\ TypeOK /\ manifest \in [Instance -> Seq(Record)] /\ target \in Instance
    BY DEF WriteBack, DiskInv, TypeOK, Busy
  <1>2. \/ UNCHANGED <<manifest, torn>>
        \/ manifest' = [manifest EXCEPT ![target] = Kept] /\ UNCHANGED torn
        \/ manifest' = [manifest EXCEPT ![target] = <<>>] /\ torn' = torn \cup {target}
    BY DEF WriteBack, WriteFails
  <1>3. \A i \in Instance : IsLive(i)' => IsLive(i)
    <2>1. CASE UNCHANGED <<manifest, torn>>
      BY <1>1, <2>1, LivesKept
    <2>2. CASE ~UNCHANGED <<manifest, torn>>
      BY <1>1, <1>2, <2>2, KeptLives
    <2>3. QED  BY <2>1, <2>2
  <1>4. RollingBack' /\ SecondPass'
    BY <1>1, <1>3 DEF RollingBack, SecondPass, DiskInv, Busy
  <1>5. CASE UNCHANGED <<manifest, torn>>
    BY <1>1, <1>4, <1>5, StandingKept DEF DiskInv, Standing
  <1>6. CASE manifest' = [manifest EXCEPT ![target] = <<>>] /\ torn' = torn \cup {target}
    <2>1. RecordsFit'
      <3>1. \A i \in Instance : \A k \in DOMAIN manifest'[i] : i # target
        <4>1. DOMAIN <<>> = {}
          OBVIOUS
        <4>2. manifest'[target] = <<>>
          BY <1>1, <1>6
        <4>3. QED  BY <4>1, <4>2
      <3>2. QED  BY <1>1, <1>6, <3>1 DEF DiskInv, RecordsFit
    <2>2. torn' # {}
      BY <1>6
    <2>3. QED  BY <1>4, <2>1, <2>2 DEF Standing, NothingForgotten, HoldersLive
  <1>7. CASE manifest' = [manifest EXCEPT ![target] = Kept] /\ UNCHANGED torn
    <2>1. manifest'[target] = Kept /\ \A i \in Instance \ {target} : manifest'[i] = manifest[i]
      BY <1>1, <1>7
    <2>2. RecordsFit'
      <3>1. \A k \in DOMAIN Kept : \E j \in DOMAIN manifest[target] : Kept[k] = manifest[target][j]
        BY <1>1, KeptType
      <3>2. QED  BY <1>1, <2>1, <3>1 DEF DiskInv, RecordsFit
    <2>3. ASSUME torn = {}, NEW a \in present \ warned
          PROVE  /\ a \in Listed(manifest')
                 /\ \A i \in Instance : a \in OwnArtifact[i] => Alive(i)'
      <3>1. PICK j \in Instance : \E k \in DOMAIN manifest[j] : a \in manifest[j][k].mine
        BY <2>3, ListedAt DEF DiskInv, NothingForgotten
      <3>2. PICK k \in DOMAIN manifest[j] : a \in manifest[j][k].mine
        BY <3>1
      <3>3. PICK n \in DOMAIN manifest'[j] : /\ a \in manifest'[j][n].mine
                                             /\ manifest'[j][n].step = manifest[j][k].step
        <4>1. CASE j = target
          BY <1>1, <2>1, <2>3, <3>2, <4>1, Dropped
        <4>2. CASE j # target
          BY <2>1, <3>2, <4>2
        <4>3. QED  BY <4>1, <4>2
      <3>4. a \in Listed(manifest')
        BY <3>3, IsListed
      <3>5. ASSUME NEW i \in Instance, a \in OwnArtifact[i]  PROVE Alive(i)'
        <4>1. Fits(j, manifest[j][k])
          BY <3>2 DEF DiskInv, RecordsFit
        <4>2. i = j
          BY <3>2, <3>5, <4>1, OwnRecord
        <4>3. CASE i = target
          <5>1. Scope[i][manifest[i][k].step] = "OwnInstance"
            BY <1>1, <2>3, <3>2, <3>5, <4>2, <4>3, Dropped
          <5>2. i \notin noConfig
            BY <1>1, <4>3 DEF DiskInv, RollingBack, Busy
          <5>3. QED  BY <1>1, <3>3, <4>2, <5>1, <5>2 DEF Alive, Reader
        <4>4. CASE i # target
          <5>1. Alive(i)
            BY <2>3, <3>5 DEF DiskInv, HoldersLive
          <5>2. QED  BY <1>1, <2>1, <4>4, <5>1 DEF Alive, Reader
        <4>5. QED  BY <4>3, <4>4
      <3>6. QED  BY <3>4, <3>5
    <2>4. NothingForgotten'
      BY <1>1, <1>7, <2>3 DEF NothingForgotten
    <2>5. HoldersLive'
      BY <1>1, <1>7, <2>3 DEF HoldersLive
    <2>6. QED  BY <1>4, <2>2, <2>4, <2>5 DEF Standing
  <1>8. QED  BY <1>2, <1>5, <1>6, <1>7

LEMMA KilledDisk ==
    ASSUME DiskInv, Killed
    PROVE  Standing' /\ RollingBack' /\ SecondPass'
  <1>1. UNCHANGED <<manifest, torn, noConfig>> /\ pc' = "idle" /\ present' \subseteq present
        /\ warned' = warned \cap present'
    BY DEF Killed
  <1>2. Standing'
    BY <1>1, StandingKept DEF DiskInv, Standing
  <1>3. QED  BY <1>1, <1>2 DEF RollingBack, SecondPass, Busy

LEMMA NextDisk ==
    ASSUME MixedUndoWarns, DiskInv, [Next]_vars  PROVE DiskInv'
  <1>1. TypeOK'
    BY NextType DEF DiskInv
  <1>2. CASE UNCHANGED vars
    <2>1. Standing'
      BY <1>2, StandingKept DEF vars, DiskInv, Standing
    <2>2. RollingBack' /\ SecondPass'
      BY <1>2, LivesKept DEF vars, DiskInv, RollingBack, NobodyElse, Examined, SecondPass, Busy
    <2>3. QED  BY <1>1, <2>1, <2>2 DEF DiskInv, Standing
  <1>3. CASE Next
    <2>1. Standing' /\ RollingBack' /\ SecondPass'
      BY <1>3, CommandsDisk, UndosDisk, WriteBackDisk, KilledDisk DEF Next, Progress
    <2>2. QED  BY <1>1, <2>1 DEF DiskInv, Standing
  <1>4. QED  BY <1>2, <1>3

\* Whatever fails, is killed or cannot be understood, as long as every manifest can be
\* read, what is left on the machine is listed by one of them or is what an undo warned
\* that it left.
THEOREM DiskNothingForgotten ==
    ASSUME HoldersFound, MixedUndoWarns  PROVE Spec => []NothingForgotten
  <1>1. DiskInv => NothingForgotten
    BY DEF DiskInv
  <1>2. QED  BY <1>1, InitDisk, NextDisk, PTL DEF Spec

\* What a step removes is removable.
LEMMA RemovedBy ==
    ASSUME [Next]_vars, NEW a \in present \ present'
    PROVE  pc = "undo" /\ ~HeldBack("Shared") /\ a \in Removable
  <1>1. ~UNCHANGED present
    OBVIOUS
  <1>2. Called \/ Killed
    BY <1>1 DEF Next, Progress, vars, RollbackAll, RollbackOne, Pass1, Pass1Done, Pass2, AllDone, NotCalled, WriteBack
  <1>3. QED  BY <1>2 DEF Called, Killed

\* A shared artifact is removed only when no other instance has anything of its own
\* left but what its undos warned about, in whatever order the instances are rolled back
\* and whatever fails.
THEOREM DiskSharedOutlivesInstances ==
    ASSUME HoldersFound, MixedUndoWarns  PROVE Spec => SharedOutlivesInstances
  <1>1. ASSUME DiskInv, [Next]_vars
        PROVE  \A a \in SharedArtifact : torn = {} /\ a \in present \ present' =>
                  \A j \in Instance \ {target} : OwnArtifact[j] \cap present \subseteq warned
    <2> SUFFICES ASSUME NEW a \in SharedArtifact, torn = {}, a \in present \ present'
                 PROVE  \A j \in Instance \ {target} : OwnArtifact[j] \cap present \subseteq warned
      OBVIOUS
    <2>1. pc = "undo" /\ a \in Removable
      BY <1>1, RemovedBy
    <2>2. others = {}
      BY <2>1 DEF Removable, Asked
    <2>3. QED  BY <1>1, <2>1, <2>2 DEF DiskInv, RollingBack, NobodyElse, Busy
  <1>2. QED  BY <1>1, InitDisk, NextDisk, PTL DEF Spec, SharedOutlivesInstances

\* `rollback --all` that ends well has left nothing of ours behind but what some undo
\* warned about.
THEOREM DiskAllRemovesEverything ==
    ASSUME HoldersFound, MixedUndoWarns  PROVE Spec => AllRemovesEverything
  <1>1. ASSUME DiskInv, [Next]_vars
        PROVE  [pc = "pass2" /\ torn = {} /\ status' = "ok" => present' \subseteq warned]_vars
    <2> SUFFICES ASSUME Next, pc = "pass2", torn = {}, status' = "ok"  PROVE present' \subseteq warned
      BY <1>1
    <2>1. \A i \in Instance : ~IsLive(i)
      BY <1>1 DEF DiskInv, SecondPass
    <2>2. CASE AllDone
      <3>1. UNCHANGED present /\ Tombstones = {}
        BY <2>2 DEF AllDone
      <3>2. \A i \in Instance : manifest[i] = <<>>
        BY <2>1, <3>1 DEF Tombstones, Found
      <3>3. present \subseteq warned
        <4>1. DOMAIN <<>> = {}
          OBVIOUS
        <4>2. \A i \in Instance : DOMAIN manifest[i] = {}
          BY <3>2, <4>1
        <4>3. Listed(manifest) = {}
          BY <4>2 DEF Listed
        <4>4. QED  BY <1>1, <4>3 DEF DiskInv, NothingForgotten
      <3>4. QED  BY <3>1, <3>3
    <2>3. CASE ~AllDone
      <3>1. \A i \in Instance : ~RollbackOne(i)
        BY DEF RollbackOne
      <3>2. ~Pass2 /\ ~Killed
        BY DEF Pass2, RollbackManifest, Killed
      <3>3. QED
        BY <2>3, <3>1, <3>2 DEF Next, Progress, RollbackAll, Pass1, Pass1Done, NotCalled, Called, WriteBack
    <2>4. QED  BY <2>2, <2>3
  <1>2. QED  BY <1>1, InitDisk, NextDisk, PTL DEF Spec, AllRemovesEverything

=============================================================================
