------------------------------- MODULE Engine -------------------------------
(***************************************************************************)
(* The in-process installer: Installer::execute_with_reporter, mark_finished*)
(* and rollback_with_reporter (engine.rs), over one manifest file.         *)
(*                                                                         *)
(* One process at a time runs against the manifest; it may be told to stop *)
(* (SIGINT raises a flag the engine reads between steps) and it may die    *)
(* anywhere (a second signal, SIGKILL, power).  What survives it is `art`, *)
(* the machine, and `disk`, the manifest.                                  *)
(*                                                                         *)
(* execute's local `completed` is always <<1, ..., idx-1>>: every index is *)
(* pushed in order, run or skipped.  It is represented by idx, and the     *)
(* `completed` slice a rollback is given by the two indices cur and top.   *)
(***************************************************************************)
EXTENDS StepContract, FiniteSets

CONSTANTS
    SaveMay,     \* how writing the manifest may end: see Save
    DieIn,       \* where the process may die: "install", "save", "rollback"
    MaxFaults,   \* bound on deaths, failed writes and failed undos together
    OthersMay    \* may other live instances be installed: subset of BOOLEAN

VARIABLES
    art,      \* the machine
    disk,     \* the manifest file
    pc,       \* where the process is; "idle" when there is none
    idx,      \* the step execute is at
    cur,      \* the step the rollback is at
    top,      \* the last step of the slice the rollback was given
    pre,      \* the verdicts held by the step objects in memory
    mem,      \* Installer.state: the manifest in memory
    others,   \* are other instances live, as read when the process started
    intr,     \* the interrupt flag
    faults    \* how many faults have happened

vars == <<art, disk, pc, idx, cur, top, pre, mem, others, intr, faults>>

ASSUME SaveMayAssumption == SaveMay \subseteq {"ok", "failed", "late", "torn"} /\ "ok" \in SaveMay
ASSUME DieInAssumption == DieIn \subseteq {"install", "save", "rollback"}
ASSUME MaxFaultsAssumption == MaxFaults \in Nat
ASSUME OthersMayAssumption == OthersMay \subseteq BOOLEAN /\ OthersMay # {}

\* InstallState without the configuration: the steps recorded, each with the
\* verdicts of its snapshot, and whether the installation reached the end.
InstallState == [recorded : SUBSET Step, snap : [Artifact -> PreState], finished : BOOLEAN]

Empty == [recorded |-> {}, snap |-> NoVerdict, finished |-> FALSE]

\* A manifest file is missing, readable, or "torn": truncated by a save that
\* never wrote it whole, which no later load can parse.
Manifest == [file : {"none", "ok", "torn"}, state : InstallState]

NoFile == [file |-> "none", state |-> Empty]

Torn == [file |-> "torn", state |-> Empty]

Written(m) == [file |-> "ok", state |-> m]

\* Mutant: an undone step stays recorded.
ForgetNothing(m, s) == m

\* InstallState::record and InstallState::forget.
Record(m, s, verdicts) ==
    [m EXCEPT !.recorded = @ \cup {s}, !.snap = Rehydrated(s, verdicts, @)]

Forget(m, s) == [m EXCEPT !.recorded = @ \ {s}, !.snap = Rehydrated(s, NoVerdict, @)]

-----------------------------------------------------------------------------
Init ==
    /\ art \in [Artifact -> {"absent", "theirs"}]
    /\ disk = NoFile
    /\ pc = "idle"
    /\ idx = 1 /\ cur = 0 /\ top = 0
    /\ pre = NoVerdict
    /\ mem = Empty
    /\ others = FALSE
    /\ intr = FALSE
    /\ faults = 0

\* start_decision on a manifest that names the same artifacts: fresh when it
\* records nothing, resumed when partial.  A finished one is refused, and one
\* that cannot be parsed is an error: neither changes anything.
Start ==
    /\ pc = "idle"
    /\ disk.file # "torn"
    /\ disk.state.recorded # {} => ~disk.state.finished
    /\ mem' = IF disk.state.recorded = {} THEN Empty ELSE disk.state
    /\ others' \in OthersMay
    /\ pc' = "loop"
    /\ idx' = 1
    /\ pre' = NoVerdict
    /\ intr' = FALSE
    /\ UNCHANGED <<art, disk, cur, top, faults>>

\* The handler only raises the flag.
Signal ==
    /\ pc # "idle"
    /\ ~intr
    /\ intr' = TRUE
    /\ UNCHANGED <<art, disk, pc, idx, cur, top, pre, mem, others, faults>>

\* The process is over, and with it everything it held in memory.
Exit ==
    /\ pc' = "idle"
    /\ idx' = 1 /\ cur' = 0 /\ top' = 0
    /\ pre' = NoVerdict
    /\ mem' = Empty
    /\ others' = FALSE
    /\ intr' = FALSE

\* rollback_with_reporter(steps, 1..k).
RollBack(k) == pc' = "undo" /\ cur' = k /\ top' = k

\* The run is abandoned before step idx did anything: the steps before it are
\* undone.  With nothing to undo the rollback returns before it looks at the
\* manifest.
Abandon ==
    \/ idx = 1 /\ Exit
    \/ idx > 1 /\ RollBack(idx - 1) /\ UNCHANGED <<idx, pre, mem, others, intr>>

Interrupted ==
    /\ pc = "loop" /\ idx \in Step
    /\ intr
    /\ Abandon
    /\ UNCHANGED <<art, disk, faults>>

\* A recorded step is rehydrated, counted as completed, and not run again.
Skip ==
    /\ pc = "loop" /\ idx \in Step
    /\ ~intr
    /\ idx \in mem.recorded \ Unreadable
    /\ pre' = Rehydrated(idx, mem.snap, pre)
    /\ idx' = idx + 1
    /\ UNCHANGED <<art, disk, pc, cur, top, mem, others, intr, faults>>

RehydrateFails ==
    /\ pc = "loop" /\ idx \in Step
    /\ ~intr
    /\ idx \in mem.recorded \cap Unreadable
    /\ Abandon
    /\ UNCHANGED <<art, disk, faults>>

TakeSnapshot ==
    /\ pc = "loop" /\ idx \in Step
    /\ ~intr
    /\ idx \notin mem.recorded
    /\ pre' = Snapshot(idx, art, pre)
    /\ pc' = "run"
    /\ UNCHANGED <<art, disk, idx, cur, top, mem, others, intr, faults>>

SnapshotFails ==
    /\ pc = "loop" /\ idx \in Step
    /\ ~intr
    /\ idx \notin mem.recorded
    /\ Abandon
    /\ UNCHANGED <<art, disk, faults>>

\* The run succeeds and the record is appended in memory.
Run ==
    /\ pc = "run"
    /\ LET made == Missing(idx, pre)
       IN  art' = Made(made, art) /\ pre' = Claimed(made, pre)
    /\ mem' = Record(mem, idx, pre')
    /\ pc' = "save"
    /\ UNCHANGED <<disk, idx, cur, top, others, intr, faults>>

\* The run fails after making some of what it should: the failing step is
\* undone too, first of all.
RunFails ==
    /\ pc = "run"
    /\ \E made \in SUBSET Missing(idx, pre) :
          art' = Made(made, art) /\ pre' = Claimed(made, pre)
    /\ RollBack(idx)
    /\ UNCHANGED <<disk, idx, mem, others, intr, faults>>

\* InstallState::save truncates the file, writes it and sets its mode: when it
\* fails the old file is still there ("failed": it could not be opened), a torn
\* one is ("torn": the disk filled up), or the new one ("late": the mode).
Save(m, how) ==
    /\ how \in SaveMay
    /\ disk' = CASE how \in {"ok", "late"} -> Written(m)
                 [] how = "failed" -> disk
                 [] how = "torn" -> Torn
    /\ faults' = IF how = "ok" THEN faults ELSE faults + 1
    /\ faults' <= MaxFaults

\* Mutants: the manifest is only written when the last step is done; the flag
\* is lowered between steps.
PersistTheLast ==
    /\ pc = "save"
    /\ IF idx = N THEN Save(mem, "ok") ELSE UNCHANGED <<disk, faults>>
    /\ pc' = "loop"
    /\ idx' = idx + 1
    /\ UNCHANGED <<art, cur, top, pre, mem, others, intr>>

PersistAndLowerFlag ==
    /\ pc = "save"
    /\ Save(mem, "ok")
    /\ pc' = "loop"
    /\ idx' = idx + 1
    /\ intr' = FALSE
    /\ UNCHANGED <<art, cur, top, pre, mem, others>>

Persist ==
    /\ pc = "save"
    /\ Save(mem, "ok")
    /\ pc' = "loop"
    /\ idx' = idx + 1
    /\ UNCHANGED <<art, cur, top, pre, mem, others, intr>>

PersistFails ==
    /\ pc = "save"
    /\ \E how \in SaveMay \ {"ok"} : Save(mem, how)
    /\ RollBack(idx)
    /\ UNCHANGED <<art, idx, pre, mem, others, intr>>

\* Mutant: marked finished one step too early.
MarkFinishedBeforeTheLast ==
    /\ pc = "loop" /\ idx = N
    /\ \E how \in SaveMay : Save([mem EXCEPT !.finished = TRUE], how)
    /\ Exit
    /\ UNCHANGED art

\* The flag is not read after the last step.  mark_finished: a failed write is
\* reported and the installation stands.
MarkFinished ==
    /\ pc = "loop" /\ idx = N + 1
    /\ \E how \in SaveMay : Save([mem EXCEPT !.finished = TRUE], how)
    /\ Exit
    /\ UNCHANGED art

-----------------------------------------------------------------------------
\* Mutants: the loop runs once too often; it does not advance.
NextUndoPastTheFirst ==
    /\ cur' = cur - 1
    /\ pc' = IF cur = 0 THEN "sync" ELSE "undo"

NextUndoStuck ==
    /\ cur' = cur
    /\ pc' = IF cur = 1 THEN "sync" ELSE "undo"

NextUndo ==
    /\ cur' = cur - 1
    /\ pc' = IF cur = 1 THEN "sync" ELSE "undo"

\* A wholly shared step's undo is not called while others live.
LeaveShared ==
    /\ pc = "undo"
    /\ others /\ Scope[cur] = "Shared"
    /\ NextUndo
    /\ UNCHANGED <<art, disk, idx, top, pre, mem, others, intr, faults>>

\* The record goes when the undo reports success, except that of a step whose
\* shared half stays behind with the other instances.
Undo ==
    /\ pc = "undo"
    /\ ~(others /\ Scope[cur] = "Shared")
    /\ \E outcome \in UndoOutcomes(Removable(cur, pre, others)) :
          /\ outcome.how \in UndoMay
          /\ art' = Removed(outcome.gone, art)
          /\ mem' = IF outcome.how = "err" \/ (others /\ Scope[cur] = "Mixed")
                    THEN mem ELSE Forget(mem, cur)
          /\ faults' = IF outcome.how = "removed" THEN faults ELSE faults + 1
    /\ faults' <= MaxFaults
    /\ NextUndo
    /\ UNCHANGED <<disk, idx, top, pre, others, intr>>

\* After the loop the manifest is cleared when nothing is left, saved
\* otherwise; a failure is only reported.
ClearManifest ==
    /\ pc = "sync"
    /\ mem.recorded = {}
    /\ \/ disk' = NoFile /\ UNCHANGED faults
       \/ "failed" \in SaveMay /\ Save(mem, "failed")
    /\ Exit
    /\ UNCHANGED art

SaveManifest ==
    /\ pc = "sync"
    /\ mem.recorded # {}
    /\ \E how \in SaveMay : Save(mem, how)
    /\ Exit
    /\ UNCHANGED art

-----------------------------------------------------------------------------
\* A death in the middle of a run leaves a part of the step's artifacts, in
\* the middle of an undo it takes a part away, and in the middle of a save it
\* leaves the file empty or cut short.
DieInstalling ==
    /\ "install" \in DieIn
    /\ pc \in {"loop", "run", "save"}
    /\ \E made \in SUBSET (IF pc = "run" THEN Missing(idx, pre) ELSE {}) :
          art' = Made(made, art)
    /\ UNCHANGED disk

DieUndoing ==
    /\ "rollback" \in DieIn
    /\ pc \in {"undo", "sync"}
    /\ \E gone \in SUBSET (IF pc = "undo" /\ ~(others /\ Scope[cur] = "Shared")
                           THEN Removable(cur, pre, others) ELSE {}) :
          art' = Removed(gone, art)
    /\ UNCHANGED disk

DieSaving ==
    /\ "save" \in DieIn
    /\ \/ pc = "save"
       \/ pc = "loop" /\ idx = N + 1
       \/ pc = "sync" /\ mem.recorded # {}
    /\ disk' = Torn
    /\ UNCHANGED art

Die ==
    /\ faults < MaxFaults
    /\ faults' = faults + 1
    /\ DieInstalling \/ DieUndoing \/ DieSaving
    /\ Exit

\* The steps of the program itself, as opposed to what happens to it.
Progress ==
    \/ Interrupted \/ Skip \/ RehydrateFails \/ TakeSnapshot \/ SnapshotFails
    \/ Run \/ RunFails \/ Persist \/ PersistFails \/ MarkFinished
    \/ LeaveShared \/ Undo \/ ClearManifest \/ SaveManifest

Next == Start \/ Signal \/ Progress \/ Die

Spec == Init /\ [][Next]_vars

\* A running process is scheduled: some statement of it is executed sooner or
\* later.  Nothing obliges anybody to start one, and nothing obliges a signal
\* or a death to happen.
FairSpec == Spec /\ WF_vars(Progress)

-----------------------------------------------------------------------------
TypeOK ==
    /\ art \in [Artifact -> Owner]
    /\ disk \in Manifest
    /\ pc \in {"idle", "loop", "run", "save", "undo", "sync"}
    /\ idx \in 1 .. N + 1
    /\ cur \in 0 .. N /\ top \in 0 .. N
    /\ pre \in [Artifact -> PreState]
    /\ mem \in InstallState
    /\ others \in BOOLEAN
    /\ intr \in BOOLEAN
    /\ faults \in 0 .. MaxFaults
    /\ pc \in {"run", "save"} => idx \in Step
    /\ pc = "undo" => cur \in Step


-----------------------------------------------------------------------------
\* Nothing that was on the machine before us is ever replaced or removed: an
\* undo acts on CreatedByUs only, and no death, resume or repeated run turns
\* somebody else's artifact into ours (PreState, state.rs).
NeverTouchTheirs ==
    [][\A a \in Artifact : art[a] = "theirs" => art'[a] = "theirs"]_vars

\* A verdict CreatedByUs, in a step object, in the manifest in memory or in the
\* one on disk, never names somebody else's artifact; and between a snapshot
\* and its run what the snapshot did not find is still not there.  This is what
\* makes NeverTouchTheirs hold across deaths and resumes.
Ownership ==
    /\ \A a \in Artifact : pre[a] = "CreatedByUs" => art[a] # "theirs"
    /\ \A a \in Artifact : mem.snap[a] = "CreatedByUs" => art[a] # "theirs"
    /\ \A a \in Artifact : disk.state.snap[a] = "CreatedByUs" => art[a] # "theirs"
    /\ pc = "run" => \A a \in Missing(idx, pre) : art[a] = "absent"

\* With no process left, an artifact an installation made is traced when the
\* manifest records its step and says so.
Traced(a) ==
    /\ disk.file = "ok"
    /\ StepOf[a] \in disk.state.recorded
    /\ disk.state.snap[a] = "CreatedByUs"

Untraced == {a \in Artifact : art[a] = "ours" /\ ~Traced(a)}

\* Persisting after every step bounds what a fault can cost: each death,
\* failed write or failed undo leaves the instance's own artifacts of at most
\* one step that no manifest lists, across resumes and further faults, as long
\* as there is a manifest to read.
LossBounded ==
    pc = "idle" /\ disk.file # "torn" =>
        Cardinality({StepOf[a] : a \in Untraced \ SharedArtifact}) <= faults

\* A resumed run skips a step only when what that step installed is there.
ResumeFindsItsWork ==
    pc = "loop" /\ idx \in mem.recorded =>
        \A a \in ArtifactsOf(idx) : art[a] # "absent"

\* A manifest marked finished describes a whole installation: every step is
\* recorded and every artifact is on the machine.
FinishedMeansInstalled ==
    disk.state.finished =>
        /\ disk.state.recorded = Step
        /\ \A a \in Artifact : art[a] # "absent"

\* A started process ends, whatever happens to it on the way.
EveryRunEnds == pc # "idle" ~> pc = "idle"

\* An interrupt raised before the last step is reached is honoured: the run
\* ends, and not as a finished installation.
InterruptHonoured ==
    pc \in {"loop", "run", "save"} /\ intr /\ idx < N
        ~> pc = "idle" /\ ~disk.state.finished

\* The engine is a reversible installer.
mode ==
    CASE pc = "idle" -> "idle"
      [] pc \in {"loop", "run", "save"} -> "forward"
      [] OTHER -> "backward"

Promise == INSTANCE Reversible WITH inUse <- others

IsReversible == Promise!RSpec

=============================================================================
