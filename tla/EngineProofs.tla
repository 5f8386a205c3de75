---------------------------- MODULE EngineProofs ----------------------------
(***************************************************************************)
(* Machine-checked proofs about Engine.tla, for any number of steps and    *)
(* artifacts, any scopes, any number of faults of every kind.              *)
(***************************************************************************)
EXTENDS Engine, FiniteSetTheorems, TLAPS

-----------------------------------------------------------------------------
\* What the operators of the step contract return.
LEMMA WorldTypes ==
    ASSUME NEW A \in [Artifact -> Owner], NEW S
    PROVE  Made(S, A) \in [Artifact -> Owner] /\ Removed(S, A) \in [Artifact -> Owner]
  BY DEF Made, Removed, Owner

\* A snapshot, a claim and a rehydration yield a verdict for every artifact.
LEMMA VerdictTypes ==
    ASSUME NEW P \in [Artifact -> PreState], NEW S
    PROVE  /\ Claimed(S, P) \in [Artifact -> PreState]
           /\ \A A : Snapshot(S, A, P) \in [Artifact -> PreState]
           /\ \A Q \in [Artifact -> PreState] : Rehydrated(S, Q, P) \in [Artifact -> PreState]
           /\ NoVerdict \in [Artifact -> PreState]
  BY DEF Claimed, Snapshot, Rehydrated, NoVerdict, PreState

\* Every outcome of an undo removes a part of what it may remove.
LEMMA OutcomeType ==
    ASSUME NEW R \in SUBSET Artifact, NEW o \in UndoOutcomes(R)
    PROVE  o.gone \in SUBSET R
  BY DEF UndoOutcomes

\* Recording and forgetting a step keep a manifest a manifest.
LEMMA StateTypes ==
    ASSUME NEW m \in InstallState, NEW s \in Step, NEW P \in [Artifact -> PreState]
    PROVE  /\ Record(m, s, P) \in InstallState
           /\ Forget(m, s) \in InstallState
           /\ [m EXCEPT !.finished = TRUE] \in InstallState
           /\ Empty \in InstallState
           /\ Written(m) \in Manifest
           /\ NoFile \in Manifest /\ Torn \in Manifest
<1>1. NoVerdict \in [Artifact -> PreState]
  BY DEF NoVerdict, PreState
<1>2. Empty \in InstallState
  BY <1>1 DEF Empty, InstallState
<1>3. Rehydrated(s, P, m.snap) \in [Artifact -> PreState]
      /\ Rehydrated(s, NoVerdict, m.snap) \in [Artifact -> PreState]
  BY <1>1 DEF Rehydrated, InstallState
<1>4. Record(m, s, P) \in InstallState /\ Forget(m, s) \in InstallState
  BY <1>3 DEF Record, Forget, InstallState
<1>5. [m EXCEPT !.finished = TRUE] \in InstallState
  BY DEF InstallState
<1>6. Written(m) \in Manifest /\ NoFile \in Manifest /\ Torn \in Manifest
  BY <1>2 DEF Written, NoFile, Torn, Manifest
<1> QED
  BY <1>2, <1>4, <1>5, <1>6

\* An installation starts in a typed state.
LEMMA InitType == Init => TypeOK
<1> SUFFICES ASSUME Init PROVE TypeOK
  OBVIOUS
<1>1. NoVerdict \in [Artifact -> PreState]
  BY DEF NoVerdict, PreState
<1>2. Empty \in InstallState /\ NoFile \in Manifest
  BY <1>1 DEF Empty, NoFile, InstallState, Manifest
<1>3. art \in [Artifact -> Owner]
  BY DEF Init, Owner
<1>4. others \in BOOLEAN /\ intr \in BOOLEAN
  BY DEF Init
<1>5. idx \in 1 .. N + 1 /\ cur \in 0 .. N /\ top \in 0 .. N /\ faults \in 0 .. MaxFaults
  BY NAssumption, MaxFaultsAssumption DEF Init
<1>6. pc = "idle" /\ pre = NoVerdict /\ mem = Empty /\ disk = NoFile
  BY DEF Init
<1> QED
  BY <1>1, <1>2, <1>3, <1>4, <1>5, <1>6 DEF TypeOK

\* A process that ends leaves the typed state of no process.
LEMMA ExitType ==
    ASSUME TypeOK, Exit, art' \in [Artifact -> Owner], disk' \in Manifest,
           faults' \in 0 .. MaxFaults
    PROVE  TypeOK'
<1>1. NoVerdict \in [Artifact -> PreState]
  BY DEF NoVerdict, PreState
<1>2. Empty \in InstallState
  BY <1>1 DEF Empty, InstallState
<1>3. others' \in BOOLEAN /\ intr' \in BOOLEAN
  BY DEF Exit
<1>4. idx' \in 1 .. N + 1 /\ cur' \in 0 .. N /\ top' \in 0 .. N
  BY NAssumption DEF Exit
<1>5. pc' = "idle" /\ pre' = NoVerdict /\ mem' = Empty
  BY DEF Exit
<1> QED
  BY <1>1, <1>2, <1>3, <1>4, <1>5 DEF TypeOK

\* A run abandoned before a step did anything stays typed: it ends, or its
\* rollback starts at a step.
LEMMA AbandonType ==
    ASSUME TypeOK, Abandon, idx \in Step, UNCHANGED <<art, disk, faults>>
    PROVE  TypeOK'
<1>1. CASE idx = 1 /\ Exit
  BY <1>1, ExitType DEF TypeOK
<1>2. CASE idx > 1 /\ RollBack(idx - 1) /\ UNCHANGED <<idx, pre, mem, others, intr>>
  BY <1>2, NAssumption DEF TypeOK, RollBack, Step
<1> QED
  BY <1>1, <1>2 DEF Abandon

\* However a save ends, the disk holds a manifest and the faults stay bounded.
LEMMA SaveType ==
    ASSUME TypeOK, NEW m \in InstallState, NEW how, Save(m, how)
    PROVE  disk' \in Manifest /\ faults' \in 0 .. MaxFaults
<1>1. Written(m) \in Manifest /\ Torn \in Manifest
  BY StateTypes DEF Written, Torn, Manifest, Empty, NoVerdict, InstallState, PreState
<1>2. disk' \in Manifest
  BY <1>1, SaveMayAssumption DEF Save, TypeOK
<1>3. faults' \in 0 .. MaxFaults
  BY MaxFaultsAssumption DEF Save, TypeOK
<1> QED
  BY <1>2, <1>3

\* A death, wherever it strikes, leaves a typed state.
LEMMA DieType == TypeOK /\ Die => TypeOK'
<1> SUFFICES ASSUME TypeOK, Die PROVE TypeOK'
  OBVIOUS
<1>1. faults' \in 0 .. MaxFaults
  BY MaxFaultsAssumption DEF Die, TypeOK
<1>2. CASE DieInstalling
  <2>1. art' \in [Artifact -> Owner]
    BY <1>2, WorldTypes DEF DieInstalling, TypeOK
  <2> QED
    BY <1>1, <1>2, <2>1, ExitType DEF Die, DieInstalling, TypeOK
<1>3. CASE DieUndoing
  <2>1. art' \in [Artifact -> Owner]
    BY <1>3, WorldTypes DEF DieUndoing, TypeOK
  <2> QED
    BY <1>1, <1>3, <2>1, ExitType DEF Die, DieUndoing, TypeOK
<1>4. CASE DieSaving
  <2>1. disk' \in Manifest
    BY <1>4 DEF DieSaving, Torn, Manifest, Empty, NoVerdict, InstallState, PreState
  <2> QED
    BY <1>1, <1>4, <2>1, ExitType DEF Die, DieSaving, TypeOK
<1> QED
  BY <1>2, <1>3, <1>4 DEF Die

\* Every step of the engine keeps the types.
LEMMA NextType == TypeOK /\ [Next]_vars => TypeOK'
<1> SUFFICES ASSUME TypeOK, [Next]_vars PROVE TypeOK'
  OBVIOUS
<1>1. CASE Start
  <2>1. NoVerdict \in [Artifact -> PreState]
    BY DEF NoVerdict, PreState
  <2>2. mem' \in InstallState
    BY <1>1, <2>1 DEF Start, TypeOK, Manifest, Empty, InstallState
  <2>3. others' \in BOOLEAN
    BY <1>1, OthersMayAssumption DEF Start
  <2>4. idx' \in 1 .. N + 1
    BY <1>1, NAssumption DEF Start
  <2>5. pc' = "loop" /\ intr' \in BOOLEAN /\ pre' = NoVerdict
    BY <1>1 DEF Start
  <2>6. UNCHANGED <<art, disk, cur, top, faults>>
    BY <1>1 DEF Start
  <2> QED
    BY <2>1, <2>2, <2>3, <2>4, <2>5, <2>6 DEF TypeOK
<1>2. CASE Signal
  BY <1>2 DEF Signal, TypeOK
<1>3. CASE Interrupted
  BY <1>3, AbandonType DEF Interrupted
<1>4. CASE Skip
  <2>1. mem.snap \in [Artifact -> PreState]
    BY DEF TypeOK, InstallState
  <2>2. pre' \in [Artifact -> PreState]
    BY <1>4, <2>1, VerdictTypes DEF Skip, TypeOK
  <2> QED
    BY <1>4, <2>2, NAssumption DEF Skip, TypeOK, Step
<1>5. CASE RehydrateFails
  BY <1>5, AbandonType DEF RehydrateFails
<1>6. CASE TakeSnapshot
  <2>1. pre' \in [Artifact -> PreState]
    BY <1>6, VerdictTypes DEF TakeSnapshot, TypeOK
  <2> QED
    BY <1>6, <2>1 DEF TakeSnapshot, TypeOK
<1>7. CASE SnapshotFails
  BY <1>7, AbandonType DEF SnapshotFails
<1>8. CASE Run
  <2>2. art' \in [Artifact -> Owner] /\ pre' \in [Artifact -> PreState]
    BY <1>8, WorldTypes, VerdictTypes DEF Run, TypeOK
  <2>3. mem' \in InstallState
    BY <1>8, <2>2, StateTypes DEF Run, TypeOK
  <2> QED
    BY <1>8, <2>2, <2>3 DEF Run, TypeOK
<1>9. CASE RunFails
  <2>1. PICK made : art' = Made(made, art) /\ pre' = Claimed(made, pre)
    BY <1>9 DEF RunFails
  <2>2. art' \in [Artifact -> Owner] /\ pre' \in [Artifact -> PreState]
    BY <2>1, WorldTypes, VerdictTypes DEF TypeOK
  <2> QED
    BY <1>9, <2>2, NAssumption DEF RunFails, RollBack, TypeOK, Step
<1>10. CASE Persist
  <2>1. disk' \in Manifest /\ faults' \in 0 .. MaxFaults
    BY <1>10, SaveType DEF Persist, TypeOK
  <2> QED
    BY <1>10, <2>1, NAssumption DEF Persist, TypeOK, Step
<1>11. CASE PersistFails
  <2>1. disk' \in Manifest /\ faults' \in 0 .. MaxFaults
    BY <1>11, SaveType DEF PersistFails, TypeOK
  <2> QED
    BY <1>11, <2>1, NAssumption DEF PersistFails, RollBack, TypeOK, Step
<1>12. CASE MarkFinished
  <2>1. [mem EXCEPT !.finished = TRUE] \in InstallState
    BY DEF TypeOK, InstallState
  <2>2. disk' \in Manifest /\ faults' \in 0 .. MaxFaults
    BY <1>12, <2>1, SaveType DEF MarkFinished
  <2> QED
    BY <1>12, <2>2, ExitType DEF MarkFinished, TypeOK
<1>13. CASE LeaveShared
  BY <1>13, NAssumption DEF LeaveShared, NextUndo, TypeOK, Step
<1>14. CASE Undo
  <2>2. art' \in [Artifact -> Owner]
    BY <1>14, WorldTypes DEF Undo, TypeOK
  <2>3. mem' \in InstallState
    BY <1>14, StateTypes DEF Undo, TypeOK
  <2>4. faults' \in 0 .. MaxFaults
    BY <1>14, MaxFaultsAssumption DEF Undo, TypeOK
  <2> QED
    BY <1>14, <2>2, <2>3, <2>4, NAssumption DEF Undo, NextUndo, TypeOK, Step
<1>15. CASE ClearManifest
  <2>1. disk' \in Manifest /\ faults' \in 0 .. MaxFaults
    <3>1. CASE disk' = NoFile /\ UNCHANGED faults
      BY <3>1 DEF NoFile, Manifest, Empty, NoVerdict, InstallState, PreState, TypeOK
    <3>2. CASE Save(mem, "failed")
      BY <3>2, SaveType DEF TypeOK
    <3> QED
      BY <1>15, <3>1, <3>2 DEF ClearManifest
  <2> QED
    BY <1>15, <2>1, ExitType DEF ClearManifest, TypeOK
<1>16. CASE SaveManifest
  <2>1. disk' \in Manifest /\ faults' \in 0 .. MaxFaults
    BY <1>16, SaveType DEF SaveManifest, TypeOK
  <2> QED
    BY <1>16, <2>1, ExitType DEF SaveManifest, TypeOK
<1>17. CASE Die
  BY <1>17, DieType
<1>18. CASE UNCHANGED vars
  BY <1>18 DEF vars, TypeOK
<1> QED
  BY <1>1, <1>2, <1>3, <1>4, <1>5, <1>6, <1>7, <1>8, <1>9, <1>10, <1>11, <1>12,
     <1>13, <1>14, <1>15, <1>16, <1>17, <1>18 DEF Next, Progress

\* Every state of the engine has the types TypeOK gives, for every sequence
\* of steps and any number of faults.
THEOREM EngineTypeOK == Spec => []TypeOK
  BY InitType, NextType, PTL DEF Spec


-----------------------------------------------------------------------------
\* Making what is missing and removing what is CreatedByUs leave every
\* artifact of somebody else where it is, and bring none into existence.
LEMMA MadeKeepsTheirs ==
    ASSUME NEW A \in [Artifact -> Owner], NEW S,
           \A a \in S : a \in Artifact => A[a] = "absent"
    PROVE  \A a \in Artifact : Made(S, A)[a] = "theirs" <=> A[a] = "theirs"
  BY DEF Made

\* The same of what an undo removes.
LEMMA RemovedKeepsTheirs ==
    ASSUME NEW A \in [Artifact -> Owner], NEW S,
           \A a \in S : a \in Artifact => A[a] # "theirs"
    PROVE  \A a \in Artifact : Removed(S, A)[a] = "theirs" <=> A[a] = "theirs"
  BY DEF Removed

\* The three ways the machine changes.
LEMMA WorldStep ==
    ASSUME TypeOK, [Next]_vars
    PROVE  \/ art' = art
           \/ pc = "run" /\ \E made \in SUBSET Missing(idx, pre) : art' = Made(made, art)
           \/ /\ pc = "undo"
              /\ \E gone \in SUBSET Removable(cur, pre, others) : art' = Removed(gone, art)
<1>1. CASE Start
  BY <1>1 DEF Start
<1>2. CASE Signal
  BY <1>2 DEF Signal
<1>3. CASE Interrupted \/ RehydrateFails \/ SnapshotFails
  BY <1>3 DEF Interrupted, RehydrateFails, SnapshotFails
<1>4. CASE Skip \/ TakeSnapshot \/ LeaveShared
  BY <1>4 DEF Skip, TakeSnapshot, LeaveShared
<1>5. CASE Run
  BY <1>5 DEF Run
<1>6. CASE RunFails
  BY <1>6 DEF RunFails
<1>7. CASE Persist \/ PersistFails \/ MarkFinished
  BY <1>7 DEF Persist, PersistFails, MarkFinished
<1>8. CASE Undo
  <2>1. PICK o \in UndoOutcomes(Removable(cur, pre, others)) : art' = Removed(o.gone, art)
    BY <1>8 DEF Undo
  <2>2. o.gone \in SUBSET Removable(cur, pre, others)
    BY <2>1, OutcomeType DEF Removable, ArtifactsOf
  <2> QED
    BY <1>8, <2>1, <2>2 DEF Undo
<1>9. CASE ClearManifest \/ SaveManifest
  BY <1>9 DEF ClearManifest, SaveManifest
<1>10. CASE Die
  <2>1. CASE DieInstalling
    <3>1. PICK made \in SUBSET (IF pc = "run" THEN Missing(idx, pre) ELSE {}) :
             art' = Made(made, art)
      BY <2>1 DEF DieInstalling
    <3>2. CASE pc = "run"
      BY <3>1, <3>2
    <3>3. CASE pc # "run"
      <4>1. made = {}
        BY <3>1, <3>3
      <4> QED
        BY <3>1, <4>1 DEF Made, TypeOK
    <3> QED
      BY <3>2, <3>3
  <2>2. CASE DieUndoing
    <3>1. PICK gone \in SUBSET (IF pc = "undo" /\ ~(others /\ Scope[cur] = "Shared")
                                THEN Removable(cur, pre, others) ELSE {}) :
             art' = Removed(gone, art)
      BY <2>2 DEF DieUndoing
    <3>2. CASE pc = "undo" /\ ~(others /\ Scope[cur] = "Shared")
      BY <3>1, <3>2
    <3>3. CASE ~(pc = "undo" /\ ~(others /\ Scope[cur] = "Shared"))
      <4>1. gone = {}
        BY <3>1, <3>3
      <4> QED
        BY <3>1, <4>1 DEF Removed, TypeOK
    <3> QED
      BY <3>2, <3>3
  <2>3. CASE DieSaving
    BY <2>3 DEF DieSaving
  <2> QED
    BY <1>10, <2>1, <2>2, <2>3 DEF Die
<1>11. CASE UNCHANGED vars
  BY <1>11 DEF vars
<1> QED
  BY <1>1, <1>2, <1>3, <1>4, <1>5, <1>6, <1>7, <1>8, <1>9, <1>10, <1>11 DEF Next, Progress

\* No step of the engine changes what is somebody else's.
LEMMA TheirsStay ==
    ASSUME TypeOK, Ownership, [Next]_vars
    PROVE  \A a \in Artifact : art'[a] = "theirs" <=> art[a] = "theirs"
<1>1. CASE art' = art
  BY <1>1
<1>2. CASE pc = "run" /\ \E made \in SUBSET Missing(idx, pre) : art' = Made(made, art)
  <2>1. PICK made \in SUBSET Missing(idx, pre) : art' = Made(made, art)
    BY <1>2
  <2>2. \A a \in made : a \in Artifact => art[a] = "absent"
    BY <1>2, <2>1 DEF Ownership
  <2> QED
    BY <2>1, <2>2, MadeKeepsTheirs DEF TypeOK
<1>3. CASE pc = "undo" /\ \E gone \in SUBSET Removable(cur, pre, others) : art' = Removed(gone, art)
  <2>1. PICK gone \in SUBSET Removable(cur, pre, others) : art' = Removed(gone, art)
    BY <1>3
  <2>2. \A a \in gone : a \in Artifact => art[a] # "theirs"
    BY <2>1 DEF Ownership, Removable
  <2> QED
    BY <2>1, <2>2, RemovedKeepsTheirs DEF TypeOK
<1> QED
  BY <1>1, <1>2, <1>3, WorldStep

-----------------------------------------------------------------------------
\* A set of verdicts is honest when none of them claims what is theirs.
Honest(verdicts, world) ==
    \A a \in Artifact : verdicts[a] = "CreatedByUs" => world[a] # "theirs"

\* A snapshot never claims anything, a rehydration no more than the manifest.
LEMMA HonestVerdicts ==
    ASSUME NEW A, NEW P, NEW Q, NEW s, Honest(P, A), Honest(Q, A)
    PROVE  /\ Honest(NoVerdict, A)
           /\ Honest(Snapshot(s, A, P), A)
           /\ Honest(Rehydrated(s, Q, P), A)
           /\ Honest(Rehydrated(s, NoVerdict, P), A)
  BY DEF Honest, NoVerdict, Snapshot, Rehydrated

\* A run claims only what it has just made.
LEMMA HonestClaims ==
    ASSUME NEW A, NEW P, NEW S, Honest(P, A),
           \A a \in S : a \in Artifact => A[a] = "absent"
    PROVE  Honest(Claimed(S, P), Made(S, A))
  BY DEF Honest, Claimed, Made

\* What is honest stays honest as long as theirs are the same.
LEMMA HonestStays ==
    ASSUME NEW P, NEW A, NEW B, Honest(P, A),
           \A a \in Artifact : B[a] = "theirs" <=> A[a] = "theirs"
    PROVE  Honest(P, B)
  BY DEF Honest

\* Recording honest verdicts and forgetting any keep a manifest honest.
LEMMA HonestStates ==
    ASSUME NEW m \in InstallState, NEW s \in Step, NEW P \in [Artifact -> PreState], NEW A,
           Honest(m.snap, A), Honest(P, A)
    PROVE  /\ Honest(Record(m, s, P).snap, A)
           /\ Honest(Forget(m, s).snap, A)
           /\ Honest([m EXCEPT !.finished = TRUE].snap, A)
           /\ Honest(Empty.snap, A)
<1>1. Record(m, s, P).snap = Rehydrated(s, P, m.snap)
  BY DEF Record, InstallState
<1>2. Forget(m, s).snap = Rehydrated(s, NoVerdict, m.snap)
  BY DEF Forget, InstallState
<1>3. [m EXCEPT !.finished = TRUE].snap = m.snap
  BY DEF InstallState
<1>4. Empty.snap = NoVerdict
  BY DEF Empty
<1> QED
  BY <1>1, <1>2, <1>3, <1>4, HonestVerdicts

\* A save leaves on disk what was there, what was given, or nothing.
LEMMA HonestSave ==
    ASSUME NEW m \in InstallState, NEW how, Save(m, how), SaveMay \subseteq {"ok", "failed", "late", "torn"},
           NEW A, Honest(m.snap, A), Honest(disk.state.snap, A)
    PROVE  Honest(disk'.state.snap, A)
<1>1. Written(m).state = m /\ Torn.state = Empty /\ Empty.snap = NoVerdict
  BY DEF Written, Torn, Empty
<1>2. Honest(NoVerdict, A)
  BY DEF Honest, NoVerdict
<1>3. disk' \in {Written(m), disk, Torn}
  BY DEF Save
<1> QED
  BY <1>1, <1>2, <1>3

\* Before the first process nothing is claimed.
LEMMA InitOwnership == Init => Ownership
  BY DEF Init, Ownership, NoVerdict, Empty, NoFile

\* Every step of the engine keeps the verdicts honest.
LEMMA OwnershipStep ==
    ASSUME TypeOK, Ownership, [Next]_vars
    PROVE  Ownership'
<1> DEFINE Clean == /\ Honest(pre', art')
                    /\ Honest(mem'.snap, art')
                    /\ Honest(disk'.state.snap, art')
                    /\ pc' = "run" => \A a \in Missing(idx', pre') : art'[a] = "absent"
<1> SUFFICES Clean
  BY DEF Ownership, Honest
<1>1. Honest(pre, art) /\ Honest(mem.snap, art) /\ Honest(disk.state.snap, art)
  BY DEF Ownership, Honest
<1>2. \A a \in Artifact : art'[a] = "theirs" <=> art[a] = "theirs"
  BY TheirsStay
<1>3. Honest(pre, art') /\ Honest(mem.snap, art') /\ Honest(disk.state.snap, art')
  BY <1>1, <1>2, HonestStays
<1>4. Honest(NoVerdict, art') /\ Honest(Empty.snap, art')
  BY HonestVerdicts, <1>3 DEF Empty
<1>5. ASSUME Exit, Honest(disk'.state.snap, art') PROVE Clean
  BY <1>4, <1>5 DEF Exit
<1>6. ASSUME Abandon, UNCHANGED <<art, disk, faults>> PROVE Clean
  <2>1. CASE Exit
    BY <1>3, <1>5, <1>6, <2>1
  <2>2. CASE RollBack(idx - 1) /\ UNCHANGED <<idx, pre, mem, others, intr>>
    BY <1>3, <1>6, <2>2 DEF RollBack
  <2> QED
    BY <1>6, <2>1, <2>2 DEF Abandon
<1>7. ASSUME NEW m \in InstallState, Honest(m.snap, art'), NEW how, Save(m, how)
      PROVE  Honest(disk'.state.snap, art')
  BY <1>3, <1>7, HonestSave, SaveMayAssumption
<1>8. mem \in InstallState /\ disk \in Manifest
  BY DEF TypeOK
<1>9. CASE Start
  <2>1. Honest(mem'.snap, art')
    BY <1>9, <1>3, <1>4 DEF Start
  <2> QED
    BY <1>9, <1>3, <1>4, <2>1 DEF Start
<1>10. CASE Signal
  BY <1>10, <1>3 DEF Signal, Ownership
<1>11. CASE Interrupted \/ RehydrateFails \/ SnapshotFails
  BY <1>11, <1>6 DEF Interrupted, RehydrateFails, SnapshotFails
<1>12. CASE Skip
  <2>1. Honest(pre', art')
    BY <1>12, <1>3, HonestVerdicts DEF Skip
  <2> QED
    BY <1>12, <1>3, <2>1 DEF Skip
<1>13. CASE TakeSnapshot
  <2>1. Honest(pre', art')
    BY <1>13, <1>1, HonestVerdicts DEF TakeSnapshot
  <2>2. \A a \in Missing(idx', pre') : art'[a] = "absent"
    BY <1>13 DEF TakeSnapshot, Missing, ArtifactsOf, Snapshot
  <2> QED
    BY <1>13, <1>3, <2>1, <2>2 DEF TakeSnapshot
<1>14. CASE Run
  <2>1. \A a \in Missing(idx, pre) : art[a] = "absent"
    BY <1>14 DEF Run, Ownership
  <2>2. art' = Made(Missing(idx, pre), art) /\ pre' = Claimed(Missing(idx, pre), pre)
    BY <1>14 DEF Run
  <2>3. Honest(pre', art')
    BY <1>1, <2>1, <2>2, HonestClaims
  <2>4. pre' \in [Artifact -> PreState] /\ idx \in Step
    BY <1>14, <2>2, VerdictTypes DEF TypeOK, Run
  <2>5. Honest(mem'.snap, art')
    BY <1>14, <1>3, <1>8, <2>3, <2>4, HonestStates DEF Run
  <2> QED
    BY <1>14, <1>3, <2>3, <2>5 DEF Run
<1>15. CASE RunFails
  <2>1. PICK made \in SUBSET Missing(idx, pre) :
           art' = Made(made, art) /\ pre' = Claimed(made, pre)
    BY <1>15 DEF RunFails
  <2>2. \A a \in made : a \in Artifact => art[a] = "absent"
    BY <1>15, <2>1 DEF RunFails, Ownership
  <2>3. Honest(pre', art')
    BY <1>1, <2>1, <2>2, HonestClaims
  <2> QED
    BY <1>15, <1>3, <2>3 DEF RunFails, RollBack
<1>16. CASE Persist
  <2>1. Honest(disk'.state.snap, art')
    BY <1>16, <1>3, <1>7, <1>8 DEF Persist
  <2> QED
    BY <1>16, <1>3, <2>1 DEF Persist
<1>17. CASE PersistFails
  <2>1. Honest(disk'.state.snap, art')
    BY <1>17, <1>3, <1>7, <1>8 DEF PersistFails
  <2> QED
    BY <1>17, <1>3, <2>1 DEF PersistFails, RollBack
<1>18. CASE MarkFinished
  <2>1. [mem EXCEPT !.finished = TRUE] \in InstallState
        /\ [mem EXCEPT !.finished = TRUE].snap = mem.snap
    BY <1>8 DEF InstallState
  <2>2. Honest(disk'.state.snap, art')
    BY <1>18, <1>3, <1>7, <2>1 DEF MarkFinished
  <2> QED
    BY <1>18, <1>5, <2>2 DEF MarkFinished
<1>19. CASE LeaveShared
  BY <1>19, <1>3 DEF LeaveShared, NextUndo
<1>20. CASE Undo
  <2>1. cur \in Step /\ pre \in [Artifact -> PreState]
    BY <1>20 DEF Undo, TypeOK
  <2>2. mem' \in {mem, Forget(mem, cur)}
    BY <1>20 DEF Undo
  <2>3. Honest(mem'.snap, art')
    BY <1>3, <1>8, <2>1, <2>2, HonestStates
  <2> QED
    BY <1>20, <1>3, <2>3 DEF Undo, NextUndo
<1>21. CASE ClearManifest
  <2>1. Honest(disk'.state.snap, art')
    <3>1. CASE disk' = NoFile
      BY <3>1, <1>4 DEF NoFile
    <3>2. CASE Save(mem, "failed")
      BY <3>2, <1>3, <1>7, <1>8
    <3> QED
      BY <1>21, <3>1, <3>2 DEF ClearManifest
  <2> QED
    BY <1>21, <1>5, <2>1 DEF ClearManifest
<1>22. CASE SaveManifest
  <2>1. Honest(disk'.state.snap, art')
    BY <1>22, <1>3, <1>7, <1>8 DEF SaveManifest
  <2> QED
    BY <1>22, <1>5, <2>1 DEF SaveManifest
<1>23. CASE Die
  <2>1. disk' \in {disk, Torn}
    BY <1>23 DEF Die, DieInstalling, DieUndoing, DieSaving
  <2>2. Honest(disk'.state.snap, art')
    BY <2>1, <1>3, <1>4 DEF Torn
  <2> QED
    BY <1>23, <1>5, <2>2 DEF Die
<1>24. CASE UNCHANGED vars
  BY <1>24, <1>3 DEF vars, Ownership
<1> QED
  BY <1>9, <1>10, <1>11, <1>12, <1>13, <1>14, <1>15, <1>16, <1>17, <1>18, <1>19,
     <1>20, <1>21, <1>22, <1>23, <1>24 DEF Next, Progress

\* No verdict ever claims somebody else's artifact.
THEOREM EngineOwnership == Spec => []Ownership
<1>1. Init => TypeOK /\ Ownership
  BY InitType, InitOwnership
<1>2. TypeOK /\ Ownership /\ [Next]_vars => TypeOK' /\ Ownership'
  BY NextType, OwnershipStep
<1> QED
  BY <1>1, <1>2, PTL DEF Spec

\* Whatever happens, no step of the engine replaces or removes an artifact
\* that was there before us.
THEOREM EngineNeverTouchesTheirs == Spec => NeverTouchTheirs
<1>1. TypeOK /\ Ownership /\ [Next]_vars
        => [\A a \in Artifact : art[a] = "theirs" => art'[a] = "theirs"]_vars
  BY TheirsStay
<1> QED
  BY <1>1, EngineTypeOK, EngineOwnership, PTL DEF Spec, NeverTouchTheirs

-----------------------------------------------------------------------------
\* The refinement: how control moves, and what each direction may do.
Installing == pc \in {"loop", "run", "save"}
Undoing == pc \in {"undo", "sync"}
Ended == pc' = "idle" /\ others' = FALSE

\* The end of a process is the end of a mode of the abstract installer.
LEMMA ExitEnds == Exit => Ended
  BY Zenon DEF Exit, Ended

\* A step begins a run, goes on with an installation or a rollback, or ends it:
\* a rollback never turns into an installation.
LEMMA ControlStep ==
    ASSUME TypeOK, [Next]_vars
    PROVE  \/ UNCHANGED <<art, pc, others>>
           \/ Start
           \/ Installing /\ (Ended \/ ((Installing' \/ Undoing') /\ others' = others))
           \/ Undoing /\ (Ended \/ (Undoing' /\ others' = others))
<1>1. CASE Start
  BY <1>1
<1>2. CASE Signal
  BY <1>2 DEF Signal
<1>3. CASE Interrupted \/ RehydrateFails \/ SnapshotFails
  <2>1. pc = "loop" /\ Abandon
    BY <1>3 DEF Interrupted, RehydrateFails, SnapshotFails
  <2>2. Ended \/ (pc' = "undo" /\ others' = others)
    BY <2>1, ExitEnds DEF Abandon, RollBack
  <2> QED
    BY <2>1, <2>2 DEF Installing, Undoing
<1>4. CASE Skip \/ TakeSnapshot \/ Run \/ RunFails \/ Persist \/ PersistFails
  <2>1. pc \in {"loop", "run", "save"} /\ others' = others
    BY <1>4 DEF Skip, TakeSnapshot, Run, RunFails, Persist, PersistFails
  <2>2. pc' \in {"loop", "run", "save", "undo"}
    BY <1>4 DEF Skip, TakeSnapshot, Run, RunFails, Persist, PersistFails, RollBack
  <2> QED
    BY <2>1, <2>2 DEF Installing, Undoing
<1>5. CASE MarkFinished
  <2>1. pc = "loop" /\ Exit
    BY <1>5 DEF MarkFinished
  <2> QED
    BY <2>1, ExitEnds DEF Installing
<1>6. CASE LeaveShared \/ Undo
  <2>1. pc = "undo" /\ pc' \in {"undo", "sync"} /\ others' = others
    BY <1>6 DEF LeaveShared, Undo, NextUndo
  <2> QED
    BY <2>1 DEF Undoing
<1>7. CASE ClearManifest \/ SaveManifest
  <2>1. pc = "sync" /\ Exit
    BY <1>7 DEF ClearManifest, SaveManifest
  <2> QED
    BY <2>1, ExitEnds DEF Undoing
<1>8. CASE Die
  <2>1. Ended
    BY <1>8, ExitEnds DEF Die
  <2>2. Installing \/ Undoing
    BY <1>8 DEF Die, DieInstalling, DieUndoing, DieSaving, Installing, Undoing
  <2> QED
    BY <2>1, <2>2
<1>9. CASE UNCHANGED vars
  BY <1>9 DEF vars
<1> QED
  BY <1>1, <1>2, <1>3, <1>4, <1>5, <1>6, <1>7, <1>8, <1>9 DEF Next, Progress

\* The steps of execute go forward.
LEMMA ForwardStep ==
    ASSUME TypeOK, Ownership, [Next]_vars, Installing,
           Ended \/ ((Installing' \/ Undoing') /\ others' = others)
    PROVE  Promise!Forward
<1>1. mode = "forward"
  BY DEF mode, Installing
<1>2. \/ mode' \in {"forward", "backward"} /\ UNCHANGED others
      \/ mode' = "idle" /\ others' = FALSE
  <2>1. Ended => mode' = "idle"
    BY DEF mode, Ended
  <2>2. Installing' \/ Undoing' => mode' \in {"forward", "backward"}
    BY DEF mode, Installing, Undoing
  <2> QED
    BY <2>1, <2>2, Zenon DEF Ended
<1>3. \E made \in SUBSET {a \in Artifact : art[a] = "absent"} :
         art' = [a \in Artifact |-> IF a \in made THEN "ours" ELSE art[a]]
  <2>1. CASE art' = art
    <3> WITNESS {} \in SUBSET {a \in Artifact : art[a] = "absent"}
    <3> QED
      BY <2>1 DEF TypeOK
  <2>2. CASE pc = "run" /\ \E made \in SUBSET Missing(idx, pre) : art' = Made(made, art)
    <3>1. PICK made \in SUBSET Missing(idx, pre) : art' = Made(made, art)
      BY <2>2
    <3>2. made \in SUBSET {a \in Artifact : art[a] = "absent"}
      BY <2>2, <3>1 DEF Ownership, Missing, ArtifactsOf
    <3> QED
      BY <3>1, <3>2 DEF Made
  <2> QED
    BY <2>1, <2>2, WorldStep DEF Installing
<1> QED
  BY <1>1, <1>2, <1>3 DEF Promise!Forward

\* The steps of a rollback go backward.
LEMMA BackwardStep ==
    ASSUME TypeOK, Ownership, [Next]_vars, Undoing,
           Ended \/ (Undoing' /\ others' = others)
    PROVE  Promise!Backward
<1>1. mode = "backward"
  BY DEF mode, Undoing
<1>2. \/ mode' = "backward" /\ UNCHANGED others
      \/ mode' = "idle" /\ others' = FALSE
  <2>1. Ended => mode' = "idle"
    BY DEF mode, Ended
  <2>2. Undoing' => mode' = "backward"
    BY DEF mode, Undoing
  <2> QED
    BY <2>1, <2>2, Zenon DEF Ended
<1>3. \E gone \in SUBSET {a \in Artifact :
                            art[a] = "ours" /\ (others => a \notin SharedArtifact)} :
         art' = [a \in Artifact |-> IF a \in gone THEN "absent" ELSE art[a]]
  <2>1. CASE art' = art
    <3> WITNESS {} \in SUBSET {a \in Artifact :
                                 art[a] = "ours" /\ (others => a \notin SharedArtifact)}
    <3> QED
      BY <2>1 DEF TypeOK
  <2>2. CASE pc = "undo" /\ \E gone \in SUBSET Removable(cur, pre, others) : art' = Removed(gone, art)
    <3>1. PICK gone \in SUBSET Removable(cur, pre, others) : art' = Removed(gone, art)
      BY <2>2
    <3> DEFINE real == {a \in gone : art[a] = "ours"}
    <3>2. \A a \in gone : a \in Artifact /\ art[a] \in {"ours", "absent"}
                          /\ (others => a \notin SharedArtifact)
      BY <3>1 DEF Removable, ArtifactsOf, Ownership, TypeOK, Owner
    <3>3. real \in SUBSET {a \in Artifact :
                             art[a] = "ours" /\ (others => a \notin SharedArtifact)}
      BY <3>2
    <3>4. art' = [a \in Artifact |-> IF a \in real THEN "absent" ELSE art[a]]
      BY <3>1, <3>2 DEF Removed
    <3> QED
      BY <3>3, <3>4
  <2> QED
    BY <2>1, <2>2, WorldStep DEF Undoing
<1> QED
  BY <1>1, <1>2, <1>3 DEF Promise!Backward

\* The engine implements the reversible installer: it never makes anything
\* once it has started to undo, undoes only what some run made, and leaves
\* alone what other instances are using.
THEOREM EngineIsReversible == Spec => IsReversible
<1>1. Init => Promise!AtFirst
  BY DEF Init, Promise!AtFirst, mode
<1>2. TypeOK /\ TypeOK' /\ Ownership /\ [Next]_vars => [Promise!Move]_(Promise!rvars)
  <2> SUFFICES ASSUME TypeOK, TypeOK', Ownership, [Next]_vars
               PROVE  [Promise!Move]_(Promise!rvars)
    OBVIOUS
  <2>1. CASE UNCHANGED <<art, pc, others>>
    BY <2>1 DEF Promise!rvars, mode
  <2>2. CASE Start
    <3>1. mode = "idle" /\ mode' = "forward" /\ art' = art
      BY <2>2 DEF Start, mode
    <3>2. others' \in BOOLEAN
      BY <2>2, OthersMayAssumption DEF Start
    <3> QED
      BY <3>1, <3>2 DEF Promise!Begin, Promise!Move
  <2>3. CASE Installing /\ (Ended \/ ((Installing' \/ Undoing') /\ others' = others))
    BY <2>3, ForwardStep DEF Promise!Move
  <2>4. CASE Undoing /\ (Ended \/ (Undoing' /\ others' = others))
    BY <2>4, BackwardStep DEF Promise!Move
  <2> QED
    BY <2>1, <2>2, <2>3, <2>4, ControlStep
<1> QED
  BY <1>1, <1>2, EngineTypeOK, EngineOwnership, PTL DEF Spec, IsReversible, Promise!RSpec

-----------------------------------------------------------------------------
\* What a manifest records is on the machine, provided a rollback that is
\* begun is also ended: no death in it, no manifest left unwritten behind it,
\* no failed undo, and no half of a step left to other instances.
RollbackIsWhole ==
    /\ "failed" \notin SaveMay
    /\ "rollback" \notin DieIn
    /\ "err" \notin UndoMay
    /\ OthersMay = {FALSE}

Sound(m, world) == \A s \in m.recorded : \A a \in ArtifactsOf(s) : world[a] # "absent"

\* The manifest in memory always describes the machine, the one on disk as long
\* as nothing is being undone; a finished manifest is whole and nobody is at
\* work on it; the steps passed are recorded, and what the snapshot of the step
\* being run did not miss is there.
WorkInv ==
    /\ ~others /\ ~mem.finished
    /\ Sound(mem, art)
    /\ ~Undoing => Sound(disk.state, art)
    /\ disk.state.finished => pc = "idle" /\ disk.state.recorded = Step
    /\ pc \in {"loop", "run"} => \A s \in Step : s < idx => s \in mem.recorded
    /\ pc = "save" => \A s \in Step : s <= idx => s \in mem.recorded
    /\ pc = "run" => \A a \in ArtifactsOf(idx) : a \in Missing(idx, pre) \/ art[a] # "absent"

\* More artifacts on the machine leave a sound manifest sound.
LEMMA SoundGrows ==
    ASSUME NEW m, NEW A, NEW B, Sound(m, A),
           \A a \in Artifact : A[a] # "absent" => B[a] # "absent"
    PROVE  Sound(m, B)
  BY DEF Sound, ArtifactsOf

\* Nothing recorded is soundly recorded.
LEMMA SoundEmpty ==
    ASSUME NEW A PROVE Sound(Empty, A) /\ ~Empty.finished
  BY DEF Sound, Empty

\* A forgotten step may be gone; the others are untouched.
LEMMA SoundForget ==
    ASSUME NEW m \in InstallState, NEW s \in Step, NEW A, Sound(m, A),
           NEW gone \in SUBSET ArtifactsOf(s)
    PROVE  Sound(Forget(m, s), Removed(gone, A))
<1>1. Forget(m, s).recorded = m.recorded \ {s}
  BY DEF Forget, InstallState
<1> QED
  BY <1>1 DEF Sound, Removed, ArtifactsOf

\* A save that never fails to open the file writes the manifest or tears it.
LEMMA SaveWrites ==
    ASSUME NEW m, NEW how, Save(m, how), "failed" \notin SaveMay
    PROVE  disk'.state = m \/ disk'.state = Empty
<1>1. how \in {"ok", "late", "torn"}
  BY SaveMayAssumption DEF Save
<1>2. disk' \in {Written(m), Torn}
  BY <1>1 DEF Save
<1> QED
  BY <1>2 DEF Written, Torn

\* The first process finds nothing recorded.
LEMMA InitWork == Init => WorkInv
  BY DEF Init, WorkInv, Sound, Undoing, Empty, NoFile

\* Every step of the engine keeps the manifests sound.
LEMMA WorkStep ==
    ASSUME RollbackIsWhole, TypeOK, WorkInv, [Next]_vars
    PROVE  WorkInv'
<1>1. mem \in InstallState /\ disk.state \in InstallState
  BY DEF TypeOK, Manifest
<1>2. Sound(Empty, art') /\ ~Empty.finished
  BY SoundEmpty
<1>3. ASSUME Exit, Sound(disk'.state, art'),
             disk'.state.finished => disk'.state.recorded = Step
      PROVE  WorkInv'
  <2>1. pc' = "idle" /\ others' = FALSE /\ mem' = Empty
    BY <1>3 DEF Exit
  <2> QED
    BY <1>2, <1>3, <2>1 DEF WorkInv, Undoing
<1>4. ASSUME UNCHANGED <<others, mem>>, pc' = "undo", Sound(mem, art'),
             ~disk'.state.finished
      PROVE  WorkInv'
  BY <1>4 DEF WorkInv, Undoing
<1>5. ASSUME Abandon, pc = "loop", UNCHANGED <<art, disk, faults>> PROVE WorkInv'
  <2>1. CASE Exit
    BY <1>3, <1>5, <2>1 DEF WorkInv, Undoing
  <2>2. CASE RollBack(idx - 1) /\ UNCHANGED <<idx, pre, mem, others, intr>>
    BY <1>4, <1>5, <2>2 DEF RollBack, WorkInv
  <2> QED
    BY <1>5, <2>1, <2>2 DEF Abandon
<1>6. CASE Start
  <2>1. mem' = Empty \/ (mem' = disk.state /\ ~disk.state.finished)
    BY <1>6 DEF Start
  <2>2. Sound(mem', art') /\ ~mem'.finished
    BY <1>2, <1>6, <2>1 DEF Start, WorkInv, Undoing
  <2>3. ~disk'.state.finished
    <3>1. Step # {}
      BY NAssumption DEF Step
    <3> QED
      BY <1>6, <3>1 DEF Start, WorkInv
  <2>4. others' = FALSE
    BY <1>6 DEF Start, RollbackIsWhole
  <2>5. pc' = "loop" /\ idx' = 1 /\ UNCHANGED <<art, disk>> /\ pc = "idle"
    BY <1>6 DEF Start
  <2>6. \A s \in Step : ~(s < idx')
    BY <2>5 DEF Step
  <2> QED
    BY <2>2, <2>3, <2>4, <2>5, <2>6 DEF WorkInv, Undoing
<1>7. CASE Signal
  BY <1>7 DEF Signal, WorkInv, Undoing
<1>8. CASE Interrupted \/ RehydrateFails \/ SnapshotFails
  BY <1>8, <1>5 DEF Interrupted, RehydrateFails, SnapshotFails
<1>9. CASE Skip
  <2>1. idx \in mem.recorded /\ idx' = idx + 1 /\ pc = "loop" /\ pc' = "loop"
        /\ UNCHANGED <<art, disk, mem, others>>
    BY <1>9 DEF Skip
  <2>2. \A s \in Step : s < idx' => s \in mem'.recorded
    BY <2>1 DEF WorkInv, TypeOK, Step
  <2> QED
    BY <2>1, <2>2 DEF WorkInv, Undoing
<1>10. CASE TakeSnapshot
  <2>1. pc = "loop" /\ pc' = "run" /\ UNCHANGED <<art, disk, idx, mem, others>>
        /\ pre' = Snapshot(idx, art, pre)
    BY <1>10 DEF TakeSnapshot
  <2>2. \A a \in ArtifactsOf(idx) : a \in Missing(idx, pre') \/ art[a] # "absent"
    BY <2>1 DEF ArtifactsOf, Missing, Snapshot
  <2> QED
    BY <2>1, <2>2 DEF WorkInv, Undoing
<1>11. CASE Run
  <2>1. pc = "run" /\ pc' = "save" /\ UNCHANGED <<disk, idx, others>>
        /\ art' = Made(Missing(idx, pre), art) /\ mem' = Record(mem, idx, pre') /\ idx \in Step
    BY <1>11 DEF Run, TypeOK
  <2>2. mem'.recorded = mem.recorded \cup {idx} /\ mem'.finished = mem.finished
    BY <1>1, <2>1 DEF Record, InstallState
  <2>3. \A a \in Artifact : art[a] # "absent" => art'[a] # "absent"
    BY <2>1 DEF Made
  <2>4. \A a \in ArtifactsOf(idx) : art'[a] # "absent"
    BY <2>1 DEF Made, WorkInv, ArtifactsOf
  <2>5. Sound(mem, art') /\ Sound(disk.state, art')
    BY <2>1, <2>3, SoundGrows DEF WorkInv, Undoing
  <2>6. Sound(mem', art')
    BY <2>2, <2>4, <2>5 DEF Sound
  <2>7. \A s \in Step : s <= idx => s \in mem'.recorded
    BY <2>1, <2>2 DEF WorkInv, Step
  <2> QED
    BY <2>1, <2>2, <2>5, <2>6, <2>7 DEF WorkInv
<1>12. CASE RunFails
  <2>1. PICK made : art' = Made(made, art)
    BY <1>12 DEF RunFails
  <2>2. Sound(mem, art')
    BY <2>1, SoundGrows DEF Made, WorkInv
  <2> QED
    BY <1>4, <1>12, <2>2 DEF RunFails, RollBack, WorkInv
<1>13. CASE Persist
  <2>1. disk'.state = mem \/ disk'.state = Empty
    BY <1>13, SaveWrites DEF Persist, RollbackIsWhole
  <2>2. pc = "save" /\ pc' = "loop" /\ idx' = idx + 1 /\ UNCHANGED <<art, mem, others>>
    BY <1>13 DEF Persist
  <2>3. \A s \in Step : s < idx' => s \in mem'.recorded
    BY <2>2 DEF WorkInv, Step, TypeOK
  <2>4. Sound(disk'.state, art') /\ ~disk'.state.finished
    BY <1>2, <2>1, <2>2 DEF WorkInv
  <2> QED
    BY <2>2, <2>3, <2>4 DEF WorkInv
<1>14. CASE PersistFails
  <2>1. disk'.state = mem \/ disk'.state = Empty
    BY <1>14, SaveWrites DEF PersistFails, RollbackIsWhole
  <2>2. ~disk'.state.finished
    BY <1>2, <2>1 DEF WorkInv
  <2> QED
    BY <1>4, <1>14, <2>2 DEF PersistFails, RollBack, WorkInv
<1>15. CASE MarkFinished
  <2>1. disk'.state = [mem EXCEPT !.finished = TRUE] \/ disk'.state = Empty
    BY <1>15, SaveWrites DEF MarkFinished, RollbackIsWhole
  <2>2. [mem EXCEPT !.finished = TRUE].recorded = mem.recorded
    BY <1>1 DEF InstallState
  <2>3. mem.recorded = Step
    <3>1. pc = "loop" /\ idx = N + 1
      BY <1>15 DEF MarkFinished
    <3>2. \A s \in Step : s < idx
      BY <3>1, NAssumption DEF Step
    <3>3. mem.recorded \subseteq Step
      BY <1>1 DEF InstallState
    <3> QED
      BY <3>1, <3>2, <3>3 DEF WorkInv
  <2>4. Sound(disk'.state, art')
    BY <1>2, <1>15, <2>1, <2>2 DEF MarkFinished, WorkInv, Sound
  <2> QED
    BY <1>2, <1>3, <1>15, <2>1, <2>2, <2>3, <2>4 DEF MarkFinished
<1>16. CASE LeaveShared
  BY <1>16 DEF LeaveShared, WorkInv
<1>17. CASE Undo
  <2>1. PICK o \in UndoOutcomes(Removable(cur, pre, others)) :
           o.how \in UndoMay /\ art' = Removed(o.gone, art)
           /\ mem' = IF o.how = "err" \/ (others /\ Scope[cur] = "Mixed")
                     THEN mem ELSE Forget(mem, cur)
    BY <1>17 DEF Undo
  <2>2. mem' = Forget(mem, cur)
    BY <2>1 DEF WorkInv, RollbackIsWhole
  <2>3. o.gone \in SUBSET ArtifactsOf(cur) /\ cur \in Step
    <3>1. Removable(cur, pre, others) \in SUBSET Artifact
          /\ Removable(cur, pre, others) \in SUBSET ArtifactsOf(cur)
      BY DEF Removable, ArtifactsOf
    <3> QED
      BY <1>17, <2>1, <3>1, OutcomeType DEF Undo, TypeOK
  <2>4. Sound(mem', art')
    BY <1>1, <2>1, <2>2, <2>3, SoundForget DEF WorkInv
  <2>5. ~mem'.finished
    BY <1>1, <2>2 DEF Forget, InstallState, WorkInv
  <2>6. pc = "undo" /\ pc' \in {"undo", "sync"} /\ UNCHANGED <<disk, others>>
    BY <1>17 DEF Undo, NextUndo
  <2> QED
    BY <2>4, <2>5, <2>6 DEF WorkInv, Undoing
<1>18. CASE ClearManifest
  <2>1. disk'.state = Empty \/ disk'.state = mem
    BY <1>18, SaveWrites DEF ClearManifest, NoFile, RollbackIsWhole
  <2> QED
    BY <1>2, <1>3, <1>18, <2>1 DEF ClearManifest, WorkInv
<1>19. CASE SaveManifest
  <2>1. disk'.state = Empty \/ disk'.state = mem
    BY <1>19, SaveWrites DEF SaveManifest, RollbackIsWhole
  <2> QED
    BY <1>2, <1>3, <1>19, <2>1 DEF SaveManifest, WorkInv
<1>20. CASE Die
  <2>1. ~DieUndoing /\ Exit
    BY <1>20 DEF Die, DieUndoing, RollbackIsWhole
  <2>2. CASE DieInstalling
    <3>1. PICK made : art' = Made(made, art)
      BY <2>2 DEF DieInstalling
    <3>2. disk' = disk /\ pc \in {"loop", "run", "save"}
      BY <2>2 DEF DieInstalling
    <3>3. Sound(disk'.state, art')
      BY <3>1, <3>2, SoundGrows DEF Made, WorkInv, Undoing
    <3> QED
      BY <1>3, <2>1, <3>2, <3>3 DEF WorkInv
  <2>3. CASE DieSaving
    <3>1. disk'.state = Empty
      BY <2>3 DEF DieSaving, Torn
    <3> QED
      BY <1>2, <1>3, <2>1, <3>1
  <2> QED
    BY <1>20, <2>1, <2>2, <2>3 DEF Die
<1>21. CASE UNCHANGED vars
  BY <1>21 DEF vars, WorkInv, Undoing
<1> QED
  BY <1>6, <1>7, <1>8, <1>9, <1>10, <1>11, <1>12, <1>13, <1>14, <1>15, <1>16, <1>17,
     <1>18, <1>19, <1>20, <1>21 DEF Next, Progress

\* A resumed run never skips a step whose artifacts are not there, as long as
\* every rollback that is begun is whole.
THEOREM EngineResumeFindsItsWork ==
    ASSUME RollbackIsWhole
    PROVE  Spec => []ResumeFindsItsWork
<1>1. Init => TypeOK /\ WorkInv
  BY InitType, InitWork
<1>2. TypeOK /\ WorkInv /\ [Next]_vars => TypeOK' /\ WorkInv'
  BY NextType, WorkStep
<1>3. WorkInv => ResumeFindsItsWork
  BY DEF WorkInv, Sound, ResumeFindsItsWork
<1> QED
  BY <1>1, <1>2, <1>3, PTL DEF Spec

\* A manifest marked finished records every step, and every artifact is there.
THEOREM EngineFinishedMeansInstalled ==
    ASSUME RollbackIsWhole
    PROVE  Spec => []FinishedMeansInstalled
<1>1. Init => TypeOK /\ WorkInv
  BY InitType, InitWork
<1>2. TypeOK /\ WorkInv /\ [Next]_vars => TypeOK' /\ WorkInv'
  BY NextType, WorkStep
<1>3. WorkInv => FinishedMeansInstalled
  BY StepOfAssumption DEF WorkInv, Sound, FinishedMeansInstalled, Undoing, ArtifactsOf
<1> QED
  BY <1>1, <1>2, <1>3, PTL DEF Spec

-----------------------------------------------------------------------------
\* What faults cost.  An own artifact of ours is lost to a manifest that does
\* not list it, unless it is in the hands of the process, which holds its
\* verdict in memory and will record or undo it.
Own == Artifact \ SharedArtifact

Listed(m) == {a \in Artifact : StepOf[a] \in m.recorded /\ m.snap[a] = "CreatedByUs"}

Claims(s, verdicts) == {a \in ArtifactsOf(s) : verdicts[a] = "CreatedByUs"}

InHand ==
    IF pc = "save" THEN Claims(idx, pre)
    ELSE IF pc = "undo" THEN Claims(cur, pre) ELSE {}

Lost(m, world, held) ==
    {StepOf[a] : a \in {b \in Own : world[b] = "ours" /\ b \notin Listed(m) /\ b \notin held}}

\* The steps whose verdicts the process holds.
Handled(s) ==
    IF pc \in {"loop", "run"} THEN s < idx
    ELSE IF pc = "save" THEN s <= idx ELSE pc = "undo" /\ s <= cur

\* Neither manifest ever misses more than a step per fault; the process holds
\* every claim the manifest in memory makes for the steps it handled, and the
\* other way round for the step about to be saved.
LossInv ==
    /\ pc # "idle" => Cardinality(Lost(mem, art, InHand)) <= faults
    /\ disk.file # "torn" => Cardinality(Lost(disk.state, art, InHand)) <= faults
    /\ disk.file # "ok" => disk.state = Empty
    /\ \A a \in Listed(mem) : Handled(StepOf[a]) => pre[a] = "CreatedByUs"
    /\ pc = "save" => Claims(idx, pre) \subseteq Listed(mem)
    /\ pc = "run" => idx \notin mem.recorded

\* The steps are finitely many, and so are those of any lost artifacts.
LEMMA LostFinite ==
    ASSUME NEW m, NEW A, NEW e
    PROVE  IsFiniteSet(Lost(m, A, e)) /\ Cardinality(Lost(m, A, e)) \in Nat
<1>1. IsFiniteSet(Step)
  BY FS_Interval, NAssumption DEF Step
<1>2. Lost(m, A, e) \subseteq Step
  BY StepOfAssumption DEF Lost, Own
<1> QED
  BY <1>1, <1>2, FS_Subset, FS_CardinalityType

\* Losing no other artifact loses no other step.
LEMMA NoMoreLost ==
    ASSUME NEW m, NEW A, NEW e, NEW n, NEW B, NEW d, NEW k \in Nat, NEW l \in Nat, k <= l,
           \A a \in Own : B[a] = "ours" /\ a \notin Listed(n) /\ a \notin d
                             => A[a] = "ours" /\ a \notin Listed(m) /\ a \notin e,
           Cardinality(Lost(m, A, e)) <= k
    PROVE  Cardinality(Lost(n, B, d)) <= l
<1>1. Lost(n, B, d) \subseteq Lost(m, A, e)
  BY DEF Lost
<1>2. Cardinality(Lost(n, B, d)) <= Cardinality(Lost(m, A, e))
  BY <1>1, LostFinite, FS_Subset
<1> QED
  BY <1>2, LostFinite

\* Losing artifacts of one more step loses one more step.
LEMMA OneMoreLost ==
    ASSUME NEW m, NEW A, NEW e, NEW n, NEW B, NEW d, NEW k \in Nat, NEW s,
           Lost(n, B, d) \subseteq Lost(m, A, e) \cup {s},
           Cardinality(Lost(m, A, e)) <= k
    PROVE  Cardinality(Lost(n, B, d)) <= k + 1
<1>1. IsFiniteSet(Lost(m, A, e) \cup {s})
      /\ Cardinality(Lost(m, A, e) \cup {s}) <= Cardinality(Lost(m, A, e)) + 1
  BY LostFinite, FS_AddElement
<1>2. Cardinality(Lost(n, B, d)) <= Cardinality(Lost(m, A, e) \cup {s})
  BY <1>1, FS_Subset
<1>3. Cardinality(Lost(m, A, e) \cup {s}) \in Nat
  BY <1>1, FS_CardinalityType
<1> QED
  BY <1>1, <1>2, <1>3, LostFinite

\* A save loses nothing the manifest given, or the one there, does not miss.
LEMMA LossSave ==
    ASSUME TypeOK, LossInv, NEW m, NEW how, Save(m, how),
           Cardinality(Lost(m, art, InHand)) <= faults
    PROVE  /\ disk'.file # "torn" => Cardinality(Lost(disk'.state, art, InHand)) <= faults'
           /\ disk'.file # "ok" => disk'.state = Empty
           /\ faults <= faults'
<1>1. faults \in Nat /\ faults' \in Nat /\ faults <= faults'
  BY MaxFaultsAssumption DEF TypeOK, Save
<1>2. disk' \in {Written(m), disk, Torn}
  BY SaveMayAssumption DEF Save
<1>3. CASE disk' = Written(m)
  BY <1>1, <1>3, LostFinite DEF Written
<1>4. CASE disk' = disk
  BY <1>1, <1>4, LostFinite DEF LossInv
<1>5. CASE disk' = Torn
  BY <1>1, <1>5 DEF Torn
<1> QED
  BY <1>1, <1>2, <1>3, <1>4, <1>5

\* What recording and forgetting a step do to the list.
LEMMA ListedStates ==
    ASSUME NEW m \in InstallState, NEW s \in Step, NEW P \in [Artifact -> PreState]
    PROVE  /\ \A a \in Artifact :
                 a \in Listed(Record(m, s, P)) <=>
                    IF StepOf[a] = s THEN P[a] = "CreatedByUs" ELSE a \in Listed(m)
           /\ \A a \in Artifact :
                 a \in Listed(Forget(m, s)) <=> a \in Listed(m) /\ StepOf[a] # s
           /\ Listed([m EXCEPT !.finished = TRUE]) = Listed(m)
           /\ Listed(Empty) = {}
<1>1. Record(m, s, P).snap = Rehydrated(s, P, m.snap)
      /\ Record(m, s, P).recorded = m.recorded \cup {s}
  BY DEF Record, InstallState
<1>2. Forget(m, s).snap = Rehydrated(s, NoVerdict, m.snap)
      /\ Forget(m, s).recorded = m.recorded \ {s}
  BY DEF Forget, InstallState
<1>3. [m EXCEPT !.finished = TRUE].snap = m.snap
      /\ [m EXCEPT !.finished = TRUE].recorded = m.recorded
  BY DEF InstallState
<1>4. Empty.recorded = {}
  BY DEF Empty
<1>5. \A a \in Artifact :
         a \in Listed(Record(m, s, P)) <=>
            IF StepOf[a] = s THEN P[a] = "CreatedByUs" ELSE a \in Listed(m)
  BY <1>1 DEF Listed, Rehydrated
<1>6. \A a \in Artifact : a \in Listed(Forget(m, s)) <=> a \in Listed(m) /\ StepOf[a] # s
  BY <1>2 DEF Listed, Rehydrated, NoVerdict
<1> QED
  BY <1>3, <1>4, <1>5, <1>6 DEF Listed

\* An undo that reports everything removed has removed everything.
LEMMA RemovedIsAll ==
    ASSUME NEW R, NEW o \in UndoOutcomes(R), o.how = "removed"
    PROVE  o.gone = R
  BY DEF UndoOutcomes

\* Before the first process nothing is ours.
LEMMA InitLoss == Init => LossInv
<1> SUFFICES ASSUME Init PROVE LossInv
  OBVIOUS
<1>1. Lost(disk.state, art, InHand) = {}
  BY DEF Init, Lost, Own
<1>2. Cardinality(Lost(disk.state, art, InHand)) = 0
  BY <1>1, FS_EmptySet
<1>3. Listed(mem) = {} /\ disk.state = Empty /\ pc = "idle"
  BY DEF Init, Listed, Empty, NoFile
<1> QED
  BY <1>2, <1>3 DEF Init, LossInv

\* Every step of the engine keeps the loss bounded.
LEMMA LossStep ==
    ASSUME TypeOK, LossInv, [Next]_vars, faults' \in Nat
    PROVE  LossInv'
<1> USE StepOfAssumption
<1>1. mem \in InstallState /\ disk.state \in InstallState /\ faults \in Nat
  BY DEF TypeOK, Manifest
<1>2. ASSUME Exit, disk'.file # "ok" => disk'.state = Empty,
             disk'.file # "torn" => Cardinality(Lost(disk'.state, art', {})) <= faults'
      PROVE  LossInv'
  <2>1. pc' = "idle" /\ mem' = Empty
    BY <1>2 DEF Exit
  <2>2. InHand' = {} /\ Listed(mem') = {}
    BY <2>1 DEF InHand, Listed, Empty
  <2> QED
    BY <1>2, <2>1, <2>2 DEF LossInv
<1>3. pc = "loop" => InHand = {}
  BY DEF InHand
<1>4. ASSUME Abandon, pc = "loop", idx \in Step, UNCHANGED <<art, disk, faults>> PROVE LossInv'
  <2>1. CASE Exit
    BY <1>2, <1>3, <1>4, <2>1 DEF LossInv
  <2>2. CASE RollBack(idx - 1) /\ UNCHANGED <<idx, pre, mem, others, intr>>
    <3>1. pc' = "undo" /\ cur' = idx - 1
      BY <2>2 DEF RollBack
    <3>2. Cardinality(Lost(mem', art', InHand')) <= faults'
      BY <1>1, <1>3, <1>4, <2>2, NoMoreLost DEF LossInv
    <3>3. disk'.file # "torn" => Cardinality(Lost(disk'.state, art', InHand')) <= faults'
      BY <1>1, <1>3, <1>4, <2>2, NoMoreLost DEF LossInv
    <3>4. \A s \in Step : Handled(s)' => Handled(s)
      BY <1>4, <3>1 DEF Handled, Step
    <3>5. \A a \in Listed(mem') : Handled(StepOf[a])' => pre'[a] = "CreatedByUs"
      BY <2>2, <3>4 DEF LossInv, Listed
    <3> QED
      BY <1>4, <3>1, <3>2, <3>3, <3>5 DEF LossInv
  <2> QED
    BY <1>4, <2>1, <2>2 DEF Abandon
<1>5. CASE Start
  <2>1. pc = "idle" /\ pc' = "loop" /\ idx' = 1 /\ UNCHANGED <<art, disk, faults>>
        /\ disk.file # "torn"
        /\ mem' = IF disk.state.recorded = {} THEN Empty ELSE disk.state
    BY <1>5 DEF Start
  <2>2. InHand = {} /\ InHand' = {}
    BY <2>1 DEF InHand
  <2>3. Listed(mem') = Listed(disk.state)
    BY <2>1 DEF Listed, Empty
  <2>4. Cardinality(Lost(mem', art', InHand')) <= faults'
    BY <1>1, <2>1, <2>2, <2>3, NoMoreLost DEF LossInv
  <2>5. \A s \in Step : ~Handled(s)'
    BY <2>1 DEF Handled, Step
  <2>6. \A a \in Listed(mem') : Handled(StepOf[a])' => pre'[a] = "CreatedByUs"
    BY <2>5 DEF Listed
  <2> QED
    BY <2>1, <2>2, <2>4, <2>6 DEF LossInv
<1>6. CASE Signal
  <2>1. UNCHANGED <<art, disk, pc, idx, cur, pre, mem, faults>>
    BY <1>6 DEF Signal
  <2> QED
    BY <2>1 DEF LossInv, InHand, Handled
<1>7. CASE Interrupted \/ RehydrateFails \/ SnapshotFails
  BY <1>7, <1>4 DEF Interrupted, RehydrateFails, SnapshotFails
<1>8. CASE Skip
  <2>1. pc = "loop" /\ pc' = "loop" /\ idx' = idx + 1 /\ UNCHANGED <<art, disk, mem, faults>>
        /\ pre' = Rehydrated(idx, mem.snap, pre) /\ idx \in Step
    BY <1>8 DEF Skip
  <2>2. InHand' = {} /\ InHand = {}
    BY <2>1 DEF InHand
  <2>3. \A a \in Listed(mem') : Handled(StepOf[a])' => pre'[a] = "CreatedByUs"
    <3> SUFFICES ASSUME NEW a \in Listed(mem), Handled(StepOf[a])'
                 PROVE  pre'[a] = "CreatedByUs"
      BY <2>1
    <3>1. a \in Artifact /\ mem.snap[a] = "CreatedByUs"
      BY DEF Listed
    <3>2. StepOf[a] = idx \/ Handled(StepOf[a])
      BY <2>1, <3>1 DEF Handled, Step
    <3> QED
      BY <2>1, <3>1, <3>2 DEF Rehydrated, LossInv
  <2> QED
    BY <2>1, <2>2, <2>3 DEF LossInv
<1>9. CASE TakeSnapshot
  <2>1. pc = "loop" /\ pc' = "run" /\ UNCHANGED <<art, disk, idx, mem, faults>>
        /\ pre' = Snapshot(idx, art, pre) /\ idx \in Step /\ idx \notin mem.recorded
    BY <1>9 DEF TakeSnapshot
  <2>2. InHand' = {} /\ InHand = {}
    BY <2>1 DEF InHand
  <2>3. \A a \in Listed(mem') : Handled(StepOf[a])' => pre'[a] = "CreatedByUs"
    <3> SUFFICES ASSUME NEW a \in Listed(mem), Handled(StepOf[a])'
                 PROVE  pre'[a] = "CreatedByUs"
      BY <2>1
    <3>1. a \in Artifact /\ StepOf[a] # idx
      BY <2>1 DEF Listed
    <3>2. Handled(StepOf[a])
      BY <2>1 DEF Handled
    <3> QED
      BY <2>1, <3>1, <3>2 DEF Snapshot, LossInv
  <2> QED
    BY <2>1, <2>2, <2>3 DEF LossInv
<1>10. CASE Run
  <2>1. pc = "run" /\ pc' = "save" /\ UNCHANGED <<disk, idx, faults>> /\ idx \in Step
        /\ art' = Made(Missing(idx, pre), art) /\ pre' = Claimed(Missing(idx, pre), pre)
        /\ mem' = Record(mem, idx, pre')
    BY <1>10 DEF Run, TypeOK
  <2>2. pre' \in [Artifact -> PreState]
    BY <2>1, VerdictTypes DEF TypeOK
  <2>3. \A a \in Artifact : a \in Listed(mem') <=>
           IF StepOf[a] = idx THEN pre'[a] = "CreatedByUs" ELSE a \in Listed(mem)
    <3>1. PICK P \in [Artifact -> PreState] : P = pre'
      BY <2>2
    <3>2. \A a \in Artifact : a \in Listed(Record(mem, idx, P)) <=>
             IF StepOf[a] = idx THEN P[a] = "CreatedByUs" ELSE a \in Listed(mem)
      BY <1>1, <2>1, ListedStates
    <3> QED
      BY <2>1, <3>1, <3>2
  <2>4. InHand = {} /\ InHand' = Claims(idx, pre')
    BY <2>1 DEF InHand
  <2>5. idx \notin mem.recorded
    BY <2>1 DEF LossInv
  <2>6. \A a \in Own : art'[a] = "ours" /\ a \notin Claims(idx, pre') => art[a] = "ours"
    BY <2>1 DEF Own, Claims, Claimed, Made, Missing
  <2>7. \A a \in Own : a \notin Listed(mem') => a \notin Listed(mem)
    BY <2>3, <2>5 DEF Own, Listed
  <2>8. Cardinality(Lost(mem', art', InHand')) <= faults'
    BY <1>1, <2>1, <2>4, <2>6, <2>7, NoMoreLost DEF LossInv
  <2>9. disk'.file # "torn" => Cardinality(Lost(disk'.state, art', InHand')) <= faults'
    BY <1>1, <2>1, <2>4, <2>6, NoMoreLost DEF LossInv
  <2>10. \A a \in Listed(mem') : Handled(StepOf[a])' => pre'[a] = "CreatedByUs"
    <3> SUFFICES ASSUME NEW a \in Listed(mem'), Handled(StepOf[a])'
                 PROVE  pre'[a] = "CreatedByUs"
      OBVIOUS
    <3>1. a \in Artifact
      BY DEF Listed
    <3>2. CASE StepOf[a] = idx
      BY <2>3, <3>1, <3>2
    <3>3. CASE StepOf[a] # idx
      <4>1. Handled(StepOf[a])
        BY <2>1, <3>1, <3>3 DEF Handled, Step
      <4>2. pre[a] = "CreatedByUs"
        BY <2>3, <3>1, <3>3, <4>1 DEF LossInv
      <4> QED
        BY <2>1, <3>1, <4>2 DEF Claimed
    <3> QED
      BY <3>2, <3>3
  <2>11. Claims(idx', pre') \subseteq Listed(mem')
    BY <2>1, <2>3 DEF Claims, ArtifactsOf
  <2> QED
    BY <2>1, <2>8, <2>9, <2>10, <2>11 DEF LossInv
<1>11. CASE RunFails
  <2>1. PICK made \in SUBSET Missing(idx, pre) :
           art' = Made(made, art) /\ pre' = Claimed(made, pre)
    BY <1>11 DEF RunFails
  <2>2. pc = "run" /\ pc' = "undo" /\ cur' = idx /\ UNCHANGED <<disk, mem, faults>> /\ idx \in Step
    BY <1>11 DEF RunFails, RollBack, TypeOK
  <2>3. InHand = {} /\ InHand' = Claims(idx, pre')
    BY <2>2 DEF InHand
  <2>4. \A a \in Own : art'[a] = "ours" /\ a \notin Claims(idx, pre') => art[a] = "ours"
    BY <2>1 DEF Own, Claims, Claimed, Made, Missing
  <2>5. Cardinality(Lost(mem', art', InHand')) <= faults'
    BY <1>1, <2>2, <2>3, <2>4, NoMoreLost DEF LossInv
  <2>6. disk'.file # "torn" => Cardinality(Lost(disk'.state, art', InHand')) <= faults'
    BY <1>1, <2>2, <2>3, <2>4, NoMoreLost DEF LossInv
  <2>7. \A a \in Listed(mem') : Handled(StepOf[a])' => pre'[a] = "CreatedByUs"
    <3> SUFFICES ASSUME NEW a \in Listed(mem), Handled(StepOf[a])'
                 PROVE  pre'[a] = "CreatedByUs"
      BY <2>2
    <3>1. a \in Artifact /\ StepOf[a] # idx
      BY <2>2 DEF Listed, LossInv
    <3>2. Handled(StepOf[a])
      BY <2>2, <3>1 DEF Handled, Step
    <3> QED
      BY <2>1, <3>1, <3>2 DEF Claimed, LossInv
  <2> QED
    BY <2>2, <2>5, <2>6, <2>7 DEF LossInv
<1>12. CASE Persist
  <2>1. pc = "save" /\ pc' = "loop" /\ idx' = idx + 1 /\ UNCHANGED <<art, pre, mem>> /\ idx \in Step
        /\ disk' = Written(mem) /\ faults' = faults
    BY <1>12 DEF Persist, Save, TypeOK
  <2>2. InHand = Claims(idx, pre) /\ InHand' = {}
    BY <2>1 DEF InHand
  <2>3. Cardinality(Lost(mem', art', InHand')) <= faults'
    BY <1>1, <2>1, <2>2, NoMoreLost DEF LossInv
  <2>4. disk'.file = "ok" /\ disk'.state = mem'
    BY <2>1 DEF Written
  <2>5. \A s \in Step : Handled(s)' => Handled(s)
    BY <2>1 DEF Handled, Step
  <2>6. \A a \in Listed(mem') : Handled(StepOf[a])' => pre'[a] = "CreatedByUs"
    BY <2>1, <2>5 DEF LossInv, Listed
  <2> QED
    BY <2>1, <2>3, <2>4, <2>6 DEF LossInv
<1>13. CASE PersistFails
  <2>1. pc = "save" /\ pc' = "undo" /\ cur' = idx /\ UNCHANGED <<art, idx, pre, mem>> /\ idx \in Step
    BY <1>13 DEF PersistFails, RollBack, TypeOK
  <2>2. InHand' = InHand
    BY <2>1 DEF InHand
  <2>3. /\ disk'.file # "torn" => Cardinality(Lost(disk'.state, art, InHand)) <= faults'
        /\ disk'.file # "ok" => disk'.state = Empty
        /\ faults <= faults'
    BY <1>13, <2>1, LossSave DEF PersistFails, LossInv
  <2>4. Cardinality(Lost(mem', art', InHand')) <= faults'
    BY <1>1, <2>1, <2>2, <2>3, NoMoreLost DEF LossInv
  <2>5. \A s \in Step : Handled(s)' => Handled(s)
    BY <2>1 DEF Handled, Step
  <2>6. \A a \in Listed(mem') : Handled(StepOf[a])' => pre'[a] = "CreatedByUs"
    BY <2>1, <2>5 DEF LossInv, Listed
  <2> QED
    BY <2>1, <2>2, <2>3, <2>4, <2>6 DEF LossInv
<1>14. CASE MarkFinished
  <2>1. pc = "loop" /\ UNCHANGED art
    BY <1>14 DEF MarkFinished
  <2>2. PICK how \in SaveMay : Save([mem EXCEPT !.finished = TRUE], how)
    BY <1>14 DEF MarkFinished
  <2>3. Listed([mem EXCEPT !.finished = TRUE]) = Listed(mem)
    BY <1>1 DEF Listed, InstallState
  <2>4. Cardinality(Lost([mem EXCEPT !.finished = TRUE], art, InHand)) <= faults
    BY <1>1, <2>1, <2>3, NoMoreLost DEF LossInv
  <2>5. /\ disk'.file # "torn" => Cardinality(Lost(disk'.state, art, InHand)) <= faults'
        /\ disk'.file # "ok" => disk'.state = Empty
    BY <2>2, <2>4, LossSave
  <2> QED
    BY <1>2, <1>3, <1>14, <2>1, <2>5 DEF MarkFinished
<1>15. ASSUME pc = "undo", NextUndo, UNCHANGED <<disk, pre>>, cur \in Step, faults <= faults',
              \A a \in Listed(mem') : a \in Listed(mem),
              Cardinality(Lost(mem', art', {})) <= faults',
              disk.file # "torn" => Cardinality(Lost(disk.state, art', {})) <= faults'
       PROVE  LossInv'
  <2>1. pc' \in {"undo", "sync"} /\ cur' = cur - 1
    BY <1>15 DEF NextUndo
  <2>2. Cardinality(Lost(mem', art', InHand')) <= faults'
    BY <1>15, NoMoreLost
  <2>3. disk'.file # "torn" => Cardinality(Lost(disk'.state, art', InHand')) <= faults'
    BY <1>15, NoMoreLost
  <2>4. \A s \in Step : Handled(s)' => Handled(s)
    BY <1>15, <2>1 DEF Handled, Step
  <2>5. \A a \in Listed(mem') : Handled(StepOf[a])' => pre'[a] = "CreatedByUs"
    BY <1>15, <2>4 DEF LossInv, Listed
  <2> QED
    BY <1>15, <2>1, <2>2, <2>3, <2>5 DEF LossInv
<1>16. pc = "undo" => InHand = Claims(cur, pre)
  BY DEF InHand
<1>17. CASE LeaveShared
  <2>1. pc = "undo" /\ Scope[cur] = "Shared" /\ NextUndo
        /\ UNCHANGED <<art, disk, mem, pre, faults>> /\ cur \in Step
    BY <1>17 DEF LeaveShared, TypeOK
  <2>2. \A a \in Own : a \notin InHand
    BY <1>16, <2>1, ScopeAssumption DEF Own, Claims, ArtifactsOf
  <2>3. Cardinality(Lost(mem', art', {})) <= faults'
    BY <1>1, <2>1, <2>2, NoMoreLost DEF LossInv
  <2>4. disk.file # "torn" => Cardinality(Lost(disk.state, art', {})) <= faults'
    BY <1>1, <2>1, <2>2, NoMoreLost DEF LossInv
  <2>5. faults <= faults'
    BY <1>1, <2>1
  <2> QED
    BY <1>15, <2>1, <2>3, <2>4, <2>5
<1>18. CASE Undo
  <2>1. PICK o \in UndoOutcomes(Removable(cur, pre, others)) :
           /\ art' = Removed(o.gone, art)
           /\ mem' = IF o.how = "err" \/ (others /\ Scope[cur] = "Mixed")
                     THEN mem ELSE Forget(mem, cur)
           /\ faults' = IF o.how = "removed" THEN faults ELSE faults + 1
    BY <1>18 DEF Undo
  <2>2. pc = "undo" /\ NextUndo /\ UNCHANGED <<disk, pre>> /\ cur \in Step /\ InHand = Claims(cur, pre)
    BY <1>16, <1>18 DEF Undo, TypeOK
  <2>3. \A a \in Artifact : a \in Listed(Forget(mem, cur)) <=> a \in Listed(mem) /\ StepOf[a] # cur
    BY <1>1, <2>2, ListedStates DEF TypeOK
  <2>4. \A a \in Artifact : a \in Listed(mem') => a \in Listed(mem)
    BY <2>1, <2>3
  <2>5. \A a \in Artifact : a \in Listed(mem) => a \in Listed(mem') \/ StepOf[a] = cur
    BY <2>1, <2>3
  <2>6. \A a \in Artifact : art'[a] = "ours" => art[a] = "ours" /\ a \notin o.gone
    BY <2>1 DEF Removed
  <2>7. \A a \in Artifact : a \in Listed(mem) /\ StepOf[a] = cur => a \in Claims(cur, pre)
    BY <2>2 DEF LossInv, Handled, Claims, ArtifactsOf, Step
  <2>8. CASE o.how = "removed"
    <3>1. \A a \in Own : a \in Claims(cur, pre) => a \in o.gone
      BY <2>8, RemovedIsAll DEF Own, Claims, Removable
    <3>2. \A a \in Own : art'[a] = "ours" /\ a \notin Listed(mem') /\ a \notin {}
             => art[a] = "ours" /\ a \notin Listed(mem) /\ a \notin InHand
      BY <2>2, <2>5, <2>6, <2>7, <3>1 DEF Own
    <3>3. Cardinality(Lost(mem', art', {})) <= faults'
      BY <1>1, <2>1, <2>2, <2>8, <3>2, NoMoreLost DEF LossInv
    <3>4. \A a \in Own : art'[a] = "ours" /\ a \notin Listed(disk.state) /\ a \notin {}
             => art[a] = "ours" /\ a \notin Listed(disk.state) /\ a \notin InHand
      BY <2>2, <2>6, <3>1 DEF Own
    <3>5. disk.file # "torn" => Cardinality(Lost(disk.state, art', {})) <= faults'
      BY <1>1, <2>1, <2>8, <3>4, NoMoreLost DEF LossInv
    <3>6. faults <= faults' /\ \A a \in Listed(mem') : a \in Listed(mem)
      BY <1>1, <2>1, <2>4, <2>8 DEF Listed
    <3> QED
      BY <1>15, <2>2, <3>3, <3>5, <3>6
  <2>9. CASE o.how # "removed"
    <3>1. \A a \in Artifact : a \in InHand => StepOf[a] = cur
      BY <2>2 DEF Claims, ArtifactsOf
    <3>2. Cardinality(Lost(mem', art', {})) <= faults + 1
      <4>1. \A a \in Own : art'[a] = "ours" /\ a \notin Listed(mem') /\ a \notin {}
               => \/ art[a] = "ours" /\ a \notin Listed(mem) /\ a \notin InHand
                  \/ StepOf[a] = cur
        BY <2>5, <2>6, <3>1 DEF Own
      <4>2. Lost(mem', art', {}) \subseteq Lost(mem, art, InHand) \cup {cur}
        BY <4>1 DEF Lost
      <4> QED
        BY <1>1, <2>2, <4>2, OneMoreLost DEF LossInv
    <3>3. disk.file # "torn" => Cardinality(Lost(disk.state, art', {})) <= faults + 1
      <4>1. \A a \in Own : art'[a] = "ours" /\ a \notin Listed(disk.state) /\ a \notin {}
               => \/ art[a] = "ours" /\ a \notin Listed(disk.state) /\ a \notin InHand
                  \/ StepOf[a] = cur
        BY <2>6, <3>1 DEF Own
      <4>2. Lost(disk.state, art', {}) \subseteq Lost(disk.state, art, InHand) \cup {cur}
        BY <4>1 DEF Lost
      <4> QED
        BY <1>1, <4>2, OneMoreLost DEF LossInv
    <3>4. faults' = faults + 1 /\ faults <= faults' /\ \A a \in Listed(mem') : a \in Listed(mem)
      BY <1>1, <2>1, <2>4, <2>9 DEF Listed
    <3> QED
      BY <1>15, <2>2, <3>2, <3>3, <3>4
  <2> QED
    BY <2>8, <2>9
<1>19. CASE ClearManifest
  <2>1. pc = "sync" /\ mem.recorded = {} /\ UNCHANGED art /\ InHand = {}
    BY <1>19 DEF ClearManifest, InHand
  <2>2. CASE disk' = NoFile /\ UNCHANGED faults
    <3>1. disk'.state = Empty
      BY <2>2 DEF NoFile
    <3>2. Listed(Empty) = {} /\ Listed(mem) = {}
      BY <2>1 DEF Listed, Empty
    <3>3. Cardinality(Lost(disk'.state, art', {})) <= faults'
      BY <1>1, <2>1, <2>2, <3>1, <3>2, NoMoreLost DEF LossInv
    <3> QED
      BY <1>2, <1>19, <3>1, <3>3 DEF ClearManifest
  <2>3. CASE Save(mem, "failed")
    <3>1. /\ disk'.file # "torn" => Cardinality(Lost(disk'.state, art, InHand)) <= faults'
          /\ disk'.file # "ok" => disk'.state = Empty
      BY <2>1, <2>3, LossSave DEF LossInv
    <3> QED
      BY <1>2, <1>19, <2>1, <3>1 DEF ClearManifest
  <2> QED
    BY <1>19, <2>2, <2>3 DEF ClearManifest
<1>20. CASE SaveManifest
  <2>1. pc = "sync" /\ UNCHANGED art /\ InHand = {}
    BY <1>20 DEF SaveManifest, InHand
  <2>2. /\ disk'.file # "torn" => Cardinality(Lost(disk'.state, art, InHand)) <= faults'
        /\ disk'.file # "ok" => disk'.state = Empty
    BY <1>20, <2>1, LossSave DEF SaveManifest, LossInv
  <2> QED
    BY <1>2, <1>20, <2>1, <2>2 DEF SaveManifest
<1>21. CASE Die
  <2>1. Exit /\ faults' = faults + 1
    BY <1>21 DEF Die
  <2>2. CASE DieInstalling
    <3>1. PICK made \in SUBSET (IF pc = "run" THEN Missing(idx, pre) ELSE {}) :
             art' = Made(made, art)
      BY <2>2 DEF DieInstalling
    <3>2. disk' = disk /\ pc \in {"loop", "run", "save"}
      BY <2>2 DEF DieInstalling
    <3>3. \A a \in Artifact : a \in made \/ a \in InHand => StepOf[a] = idx
      BY <3>1, <3>2 DEF InHand, Claims, Missing, ArtifactsOf
    <3>4. \A a \in Own : art'[a] = "ours" /\ a \notin Listed(disk.state) /\ a \notin {}
             => \/ art[a] = "ours" /\ a \notin Listed(disk.state) /\ a \notin InHand
                \/ StepOf[a] = idx
      BY <3>1, <3>3 DEF Own, Made
    <3>5. disk.file # "torn" => Cardinality(Lost(disk.state, art', {})) <= faults + 1
      <4>1. Lost(disk.state, art', {}) \subseteq Lost(disk.state, art, InHand) \cup {idx}
        BY <3>4 DEF Lost
      <4> QED
        BY <1>1, <4>1, OneMoreLost DEF LossInv
    <3> QED
      BY <1>2, <2>1, <3>2, <3>5 DEF LossInv
  <2>3. CASE DieUndoing
    <3>1. PICK gone : art' = Removed(gone, art)
      BY <2>3 DEF DieUndoing
    <3>2. disk' = disk /\ pc \in {"undo", "sync"}
      BY <2>3 DEF DieUndoing
    <3>3. \A a \in Artifact : a \in InHand => StepOf[a] = cur
      BY <3>2 DEF InHand, Claims, ArtifactsOf
    <3>4. \A a \in Own : art'[a] = "ours" /\ a \notin Listed(disk.state) /\ a \notin {}
             => \/ art[a] = "ours" /\ a \notin Listed(disk.state) /\ a \notin InHand
                \/ StepOf[a] = cur
      BY <3>1, <3>3 DEF Own, Removed
    <3>5. disk.file # "torn" => Cardinality(Lost(disk.state, art', {})) <= faults + 1
      <4>1. Lost(disk.state, art', {}) \subseteq Lost(disk.state, art, InHand) \cup {cur}
        BY <3>4 DEF Lost
      <4> QED
        BY <1>1, <4>1, OneMoreLost DEF LossInv
    <3> QED
      BY <1>2, <2>1, <3>2, <3>5 DEF LossInv
  <2>4. CASE DieSaving
    <3>1. disk' = Torn
      BY <2>4 DEF DieSaving
    <3> QED
      BY <1>2, <2>1, <3>1 DEF Torn
  <2> QED
    BY <1>21, <2>2, <2>3, <2>4 DEF Die
<1>22. CASE UNCHANGED vars
  BY <1>22 DEF vars, LossInv, InHand, Handled
<1> QED
  BY <1>5, <1>6, <1>7, <1>8, <1>9, <1>10, <1>11, <1>12, <1>13, <1>14, <1>17, <1>18,
     <1>19, <1>20, <1>21, <1>22 DEF Next, Progress

\* Each fault costs at most the own artifacts of one step that no readable
\* manifest lists, whatever the faults are, and however often the run is
\* resumed.
THEOREM EngineLossBounded == Spec => []LossBounded
<1>1. Init => TypeOK /\ LossInv
  BY InitType, InitLoss
<1>2. TypeOK /\ LossInv /\ [Next]_vars => TypeOK' /\ LossInv'
  <2> SUFFICES ASSUME TypeOK, LossInv, [Next]_vars PROVE TypeOK' /\ LossInv'
    OBVIOUS
  <2>1. TypeOK'
    BY NextType
  <2>2. faults' \in Nat
    BY <2>1, MaxFaultsAssumption DEF TypeOK
  <2> QED
    BY <2>1, <2>2, LossStep
<1>3. LossInv => LossBounded
  <2> SUFFICES ASSUME LossInv, pc = "idle", disk.file # "torn"
               PROVE  Cardinality({StepOf[a] : a \in Untraced \ SharedArtifact}) <= faults
    BY DEF LossBounded
  <2>1. InHand = {}
    BY DEF InHand
  <2>2. \A a \in Artifact : Traced(a) <=> a \in Listed(disk.state)
    BY DEF LossInv, Traced, Listed, Empty
  <2>3. Untraced \ SharedArtifact
           = {b \in Own : art[b] = "ours" /\ b \notin Listed(disk.state) /\ b \notin InHand}
    BY <2>1, <2>2 DEF Untraced, Own
  <2>4. {StepOf[a] : a \in Untraced \ SharedArtifact} = Lost(disk.state, art, InHand)
    BY <2>3 DEF Lost
  <2> QED
    BY <2>4 DEF LossInv
<1> QED
  BY <1>1, <1>2, <1>3, PTL DEF Spec

=============================================================================
