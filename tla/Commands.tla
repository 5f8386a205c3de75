------------------------------ MODULE Commands ------------------------------
(***************************************************************************)
(* The commands of several instances, one at a time, as the steps of one   *)
(* component see them: an installation, new or resumed, goes through the   *)
(* steps in order; when it stops, or on `invok rollback`, the recorded     *)
(* ones are undone in reverse.  Engine has the engine in full; here a run  *)
(* and the saving of its record are one action.                            *)
(*                                                                         *)
(* The module that instantiates this one gives the steps, their scopes and *)
(* what is in their snapshots, and has the actions of the steps.           *)
(***************************************************************************)
EXTENDS Naturals, FiniteSetsExt

CONSTANTS
    Instance,    \* the instances
    Nobody,      \* one of them, the process's when there is none
    Last,        \* the steps are 1 .. Last
    Scope(_, _), \* the scope of a step of an instance
    Fields(_),   \* the fields of the snapshots a step's record holds
    Default,     \* the snapshots before any step
    NoArgs,      \* the context when there is no command
    Kept(_),     \* what the manifest holds of the context
    MaxFaults    \* bound on deaths and failed undos

VARIABLES
    man,         \* the manifests
    pc,          \* "idle", "snapshot", "run", "undo"
    who, idx,    \* the instance and the step the process is at
    snap,        \* the snapshots in memory
    recorded,    \* the steps in the manifest in memory
    others,      \* Context::other_instances
    args,        \* the rest of the context
    remains,     \* the instances whose manifest is what a rollback left
    spoilt,      \* such a manifest was resumed, or a failed step left a shared
                 \* artifact with no record
    faults,
    rest         \* the variables only the steps touch

Steps == 1 .. Last

Records(s, steps) ==
    [f \in DOMAIN Default |-> IF \E k \in steps : f \in Fields(k) THEN s[f] ELSE Default[f]]

NoManifest == [steps |-> {}, snap |-> Default, finished |-> FALSE, args |-> Kept(NoArgs)]

\* Found::is_live
IsLive(i) == \E k \in man[i].steps : Scope(k, i) = "OwnInstance"

LiveOthers(i) == {j \in Instance \ {i} : IsLive(j)}

Start ==
    /\ man = [i \in Instance |-> NoManifest]
    /\ pc = "idle" /\ who = Nobody /\ idx = 1
    /\ snap = Default /\ recorded = {} /\ others = {} /\ args = NoArgs
    /\ remains = {} /\ spoilt = FALSE
    /\ faults = 0

Fault ==
    /\ faults < MaxFaults
    /\ faults' = faults + 1

Take(i, a) ==
    /\ who' = i
    /\ snap' = man[i].snap /\ recorded' = man[i].steps
    /\ others' = LiveOthers(i)
    /\ args' = a

\* A new installation or, whatever is recorded without being finished, a
\* resumed one: it takes the recorded snapshots over, but its own context.
Begin(i, a) ==
    /\ pc = "idle" /\ ~man[i].finished
    /\ pc' = "snapshot" /\ idx' = 1
    /\ Take(i, a)
    /\ spoilt' = (spoilt \/ i \in remains)
    /\ UNCHANGED <<rest, man, remains, faults>>

\* `invok rollback` of one manifest.
BeginRollback(i, a) ==
    /\ pc = "idle" /\ man[i].steps # {}
    /\ pc' = "undo" /\ idx' = Max(man[i].steps)
    /\ Take(i, a)
    /\ UNCHANGED <<rest, man, remains, spoilt, faults>>

Manifest(s, steps, done) ==
    IF steps = {} THEN NoManifest
    ELSE [steps |-> steps, snap |-> Records(s, steps), finished |-> done,
          args |-> IF man[who].steps = {} THEN Kept(args) ELSE man[who].args]

Exit ==
    /\ pc' = "idle" /\ who' = Nobody /\ idx' = 1
    /\ snap' = Default /\ recorded' = {} /\ others' = {} /\ args' = NoArgs

\* The recorded step below k is undone next; after the last the manifest is
\* rewritten with what stays, or removed.
UndoBelow(k, kept) ==
    LET todo == {j \in kept : j < k}
    IN  IF todo = {}
        THEN /\ Exit
             /\ man' = [man EXCEPT ![who] = Manifest(snap, kept, FALSE)]
             /\ remains' = IF kept = {} THEN remains \ {who} ELSE remains \cup {who}
        ELSE /\ pc' = "undo" /\ idx' = Max(todo) /\ recorded' = kept
             /\ UNCHANGED <<who, snap, others, args, man, remains>>

\* Mutant: the step the signal came before is undone too.
StopsTooLate ==
    /\ pc = "snapshot"
    /\ pc' = "undo"
    /\ UNCHANGED <<rest, man, remains, who, idx, snap, recorded, others, args, spoilt, faults>>

\* A signal, a snapshot that fails or refuses, a failure of a step in between.
Stops ==
    /\ pc = "snapshot"
    /\ UndoBelow(idx, recorded)
    /\ UNCHANGED <<rest, spoilt, faults>>

\* A recorded step is taken to have run, whatever has been undone of it.
Skip ==
    /\ pc = "snapshot" /\ idx \in recorded
    /\ idx' = idx + 1
    /\ UNCHANGED <<rest, man, remains, pc, who, snap, recorded, others, args, spoilt, faults>>

\* All steps have run, those of other components included.
Finished ==
    /\ pc = "snapshot" /\ idx = Last + 1
    /\ man' = [man EXCEPT ![who].finished = TRUE]
    /\ Exit
    /\ UNCHANGED <<remains, spoilt, faults>>

At(k) == pc = "snapshot" /\ idx = k /\ k \notin recorded

Verdict(there) == IF there THEN "Preexisting" ELSE "Untracked"

Snapshotted(s) ==
    /\ snap' = s
    /\ pc' = "run"
    /\ UNCHANGED <<rest, man, remains, who, idx, recorded, others, args, spoilt, faults>>

Running(k) == pc = "run" /\ idx = k

\* The run succeeded, and its record is saved.
Ran ==
    /\ pc' = "snapshot" /\ idx' = idx + 1
    /\ recorded' = recorded \cup {idx}
    /\ man' = [man EXCEPT ![who] = Manifest(snap', recorded', FALSE)]
    /\ UNCHANGED <<who, others, args, remains, spoilt, faults>>

\* The run failed: the step is undone first, by what its snapshot then says.
\* It has no record, so what others keep it from undoing is lost.
Failed ==
    /\ pc' = "undo"
    /\ spoilt' = (spoilt \/ (others # {} /\ Scope(idx, who) # "OwnInstance"))
    /\ UNCHANGED <<man, remains, who, idx, recorded, others, args>>

HeldBack == others # {} /\ Scope(idx, who) = "Shared"

\* A shared step is not called while others live, and its record stays.
LeaveShared ==
    /\ pc = "undo" /\ HeldBack
    /\ UndoBelow(idx, recorded)
    /\ UNCHANGED <<rest, spoilt, faults>>

Undoing(k) == pc = "undo" /\ idx = k /\ ~HeldBack

Undone ==
    /\ UndoBelow(idx, IF others # {} /\ Scope(idx, who) = "Mixed" THEN recorded ELSE recorded \ {idx})
    /\ UNCHANGED spoilt

\* The undo returned an error: what is recorded of the step stays recorded.
UndoFailed == UndoBelow(idx, recorded) /\ UNCHANGED spoilt

\* The process is gone, and its manifest stays as it was last saved.
Dies ==
    /\ pc # "idle"
    /\ Fault
    /\ Exit
    /\ UNCHANGED <<man, remains, spoilt>>

\* The types of the process's variables, for snapshots and contexts of a type.
ProcessType(Snapshots, Args) ==
    /\ man \in [Instance -> [steps : SUBSET Steps, snap : Snapshots,
                             finished : BOOLEAN, args : Args]]
    /\ pc \in {"idle", "snapshot", "run", "undo"}
    /\ who \in Instance /\ idx \in 1 .. Last + 1
    /\ pc \in {"run", "undo"} => idx \in Steps
    /\ snap \in Snapshots
    /\ recorded \subseteq Steps
    /\ others \subseteq Instance \ {who}
    /\ args \in Args
    /\ remains \subseteq Instance
    /\ spoilt \in BOOLEAN /\ faults \in 0 .. MaxFaults

=============================================================================
