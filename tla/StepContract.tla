---------------------------- MODULE StepContract ----------------------------
(***************************************************************************)
(* The contract every installation step implements (trait Step, step.rs),  *)
(* as one operator per method over two functions:                          *)
(*                                                                         *)
(*   art[a]  what the machine really holds for artifact a: nothing         *)
(*           ("absent"), somebody else's thing ("theirs") or the thing an  *)
(*           installation made ("ours");                                   *)
(*   pre[a]  the verdict (PreState) of the step that manages a.            *)
(*                                                                         *)
(* The engine (Engine.tla) and the rollback from disk (DiskRollback.tla)   *)
(* drive steps through these operators and know nothing else about them.   *)
(* A step manages any number of artifacts; an artifact is shared by every  *)
(* instance of the machine or belongs to one instance.                     *)
(***************************************************************************)
EXTENDS Naturals

CONSTANTS
    N,               \* length of the canonical sequence; a step is its index
    Artifact,        \* directories, users, databases, units, packages, ...
    StepOf,          \* the step that manages an artifact
    SharedArtifact,  \* the artifacts every instance depends on
    Scope,           \* the ArtifactScope artifact_scope gives each step
    Unreadable,      \* steps whose persisted snapshot this binary cannot decode
    UndoMay          \* how an undo may end: "removed", "swallowed", "err"

Step == 1 .. N

Owner == {"absent", "theirs", "ours"}

PreState == {"Untracked", "Preexisting", "CreatedByUs"}

ArtifactScope == {"OwnInstance", "Shared", "Mixed"}

ASSUME NAssumption == N \in Nat \ {0}
ASSUME StepOfAssumption == StepOf \in [Artifact -> Step]
ASSUME SharedAssumption == SharedArtifact \subseteq Artifact
ASSUME ScopeAssumption ==
    /\ Scope \in [Step -> ArtifactScope]
    \* a step that touches shared artifacts is not classified OwnInstance, one
    \* that touches its instance's own is not classified Shared
    /\ \A a \in Artifact :
          Scope[StepOf[a]] # (IF a \in SharedArtifact THEN "OwnInstance" ELSE "Shared")
ASSUME UnreadableAssumption == Unreadable \subseteq Step
ASSUME UndoMayAssumption ==
    UndoMay \subseteq {"removed", "swallowed", "err"} /\ "removed" \in UndoMay

ArtifactsOf(s) == {a \in Artifact : StepOf[a] = s}

\* A freshly built step knows nothing (PreState::default).
NoVerdict == [a \in Artifact |-> "Untracked"]

-----------------------------------------------------------------------------
\* Step::snapshot: an artifact that is there before the run is not ours.
Snapshot(s, art, pre) ==
    [a \in Artifact |->
        IF StepOf[a] # s THEN pre[a]
        ELSE IF art[a] = "absent" THEN "Untracked" ELSE "Preexisting"]

\* Step::run creates what its snapshot did not find ...
Missing(s, pre) == {a \in ArtifactsOf(s) : pre[a] = "Untracked"}

\* ... and the verdict turns CreatedByUs as soon as the artifact exists, so a
\* run that fails half-way has claimed exactly what it made.
Made(made, art) == [a \in Artifact |-> IF a \in made THEN "ours" ELSE art[a]]

\* Mutant: creating one artifact claims all those of its step.
ClaimedWithNeighbours(made, pre) ==
    [a \in Artifact |->
        IF \E b \in made : StepOf[b] = StepOf[a] THEN "CreatedByUs" ELSE pre[a]]

Claimed(made, pre) == [a \in Artifact |-> IF a \in made THEN "CreatedByUs" ELSE pre[a]]

\* Mutants: an undo that does not ask who created the artifact, and one that
\* does not ask who else is using it.
RemovableWhoeverMadeIt(s, pre, sharedInUse) ==
    {a \in ArtifactsOf(s) : sharedInUse => a \notin SharedArtifact}

RemovableThoughInUse(s, pre, sharedInUse) ==
    {a \in ArtifactsOf(s) : pre[a] = "CreatedByUs"}

\* Step::undo acts on CreatedByUs only, and a step with a shared half leaves
\* it alone while other instances live (Context::shared_in_use).
Removable(s, pre, sharedInUse) ==
    {a \in ArtifactsOf(s) :
        pre[a] = "CreatedByUs" /\ (sharedInUse => a \notin SharedArtifact)}

Removed(gone, art) == [a \in Artifact |-> IF a \in gone THEN "absent" ELSE art[a]]

\* The ways one undo may end: everything removable is gone; or some of it is
\* left behind with no more than a warning in the log and Ok(()) returned
\* ("swallowed"); or it returns an error, whatever it removed before.
UndoOutcomes(removable) ==
    {[how |-> "removed", gone |-> removable]}
        \cup {[how |-> "swallowed", gone |-> g] : g \in (SUBSET removable) \ {removable}}
        \cup {[how |-> "err", gone |-> g] : g \in SUBSET removable}

\* Step::rehydrate: the verdicts recorded for s replace those in memory.
Rehydrated(s, snap, pre) == [a \in Artifact |-> IF StepOf[a] = s THEN snap[a] ELSE pre[a]]

=============================================================================
