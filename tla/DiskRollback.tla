---------------------------- MODULE DiskRollback ----------------------------
(***************************************************************************)
(* The rollback from disk: `invok rollback` on one manifest and            *)
(* `invok rollback --all` on every manifest of the machine (main.rs,       *)
(* rollback.rs, manifests.rs).  No installation runs meanwhile.            *)
(*                                                                         *)
(* Instances are numbered in the order discovery lists them; 1 is the      *)
(* unnamed one.  A manifest lists records in the order they were appended, *)
(* each with the artifacts its snapshot calls CreatedByUs.                 *)
(***************************************************************************)
EXTENDS Naturals, Sequences

CONSTANTS
    M,               \* the number of instances the machine can carry
    StepName,        \* the step names manifests mention
    Artifact,
    SharedArtifact,  \* what every instance depends on
    OwnArtifact,     \* OwnArtifact[i]: what only instance i depends on
    Inside,          \* Inside[a]: the artifacts that live inside directory a
    Scope,           \* Scope[i][s]: artifact_scope(s, is i the unnamed one)
    Known,           \* the names step_by_name can rebuild
    Readable,        \* the steps whose persisted snapshot can be decoded
    UndoMay,         \* how a step's undo may end: "removed", "swallowed" (it
                     \* warns and returns Ok), "err"
    SaveMay,         \* how rewriting a manifest may end: "ok", "failed", "torn"
    TornMay,         \* the sets of manifests that may be torn at the start
    NoConfigMay,     \* the sets of manifests that may carry no configuration
    MaxFaults,       \* bound on failed undos, failed writes and kills together
    Installed,       \* the manifests there may be at the start
    Commands         \* what the administrator may type: "one", "all"

VARIABLES
    present,   \* the artifacts of ours that are on the machine
    manifest,  \* manifest[i]: the records of instance i, <<>> when there are none
    torn,      \* the manifests that cannot be parsed
    noConfig,  \* the manifests without a configuration
    pc,        \* "idle", "pass1", "pass2", "undo", "write"
    back,      \* where rollback_manifest returns to: "idle", "pass1", "pass2"
    target,    \* the instance rollback_manifest works on
    others,    \* the live instances it was told about
    left,      \* how many of its records are still to be examined
    residue,   \* the steps whose outcome is a residue
    faults,    \* how many faults have happened
    status,    \* how the last command ended: "none", "ok", "error"
    warned     \* history: what an undo that returned Ok was to remove and left

vars == <<present, manifest, torn, noConfig, pc, back, target, others, left, residue, faults, status, warned>>

Instance == 1 .. M

Record == [step : StepName, mine : SUBSET Artifact]

ASSUME MAssumption == M \in Nat \ {0}
ASSUME ArtifactAssumption ==
    /\ SharedArtifact \subseteq Artifact
    /\ OwnArtifact \in [Instance -> SUBSET (Artifact \ SharedArtifact)]
    /\ \A i, j \in Instance : i # j => OwnArtifact[i] \cap OwnArtifact[j] = {}
    /\ Inside \in [Artifact -> SUBSET Artifact]
ASSUME ScopeAssumption ==
    /\ Scope \in [Instance -> [StepName -> {"OwnInstance", "Shared", "Mixed"}]]
    \* an unknown name might touch something shared
    /\ \A i \in Instance, s \in StepName \ Known : Scope[i][s] = "Shared"
ASSUME OutcomeAssumption ==
    /\ UndoMay \in [StepName -> SUBSET {"removed", "swallowed", "err"}]
    /\ \A s \in StepName : "removed" \in UndoMay[s]
    /\ MaxFaults \in Nat
    /\ SaveMay \subseteq {"ok", "failed", "torn"} /\ "ok" \in SaveMay
ASSUME StartAssumption == TornMay \subseteq SUBSET Instance /\ NoConfigMay \subseteq SUBSET Instance
\* what is installed is told apart by its scope
ASSUME InstalledAssumption ==
    \A m \in Installed :
        /\ m \in [Instance -> Seq(Record)]
        /\ \A i \in Instance : \A k \in DOMAIN m[i] :
              /\ m[i][k].mine \subseteq OwnArtifact[i] \cup SharedArtifact
              /\ Scope[i][m[i][k].step] = "Shared" => m[i][k].mine \subseteq SharedArtifact
              /\ Scope[i][m[i][k].step] = "OwnInstance" => m[i][k].mine \subseteq OwnArtifact[i]

-----------------------------------------------------------------------------
\* discover: a manifest that cannot be parsed is a problem, not an instance.
Found == {i \in Instance : manifest[i] # <<>> /\ i \notin torn}

\* Mutant: what a mixed step leaves behind counts as life.
IsLiveMixed(i) ==
    /\ i \in Found
    /\ \E k \in DOMAIN manifest[i] :
          Scope[IF i \in noConfig THEN 1 ELSE i][manifest[i][k].step] # "Shared"

\* Found::is_live: some record's undo is entirely the instance's own.  A
\* manifest without configuration is read as the unnamed instance's.
IsLive(i) ==
    /\ i \in Found
    /\ \E k \in DOMAIN manifest[i] :
          Scope[IF i \in noConfig THEN 1 ELSE i][manifest[i][k].step] = "OwnInstance"

\* Mutants: the unnamed instance, filed elsewhere, is overlooked; nobody comes
\* back for the tombstones.
LiveNamedOthers(i) == {j \in Instance \ {i, 1} : IsLive(j)}

NoTombstones == {}

\* Discovery::live_others and Discovery::tombstones.
LiveOthers(i) == {j \in Instance \ {i} : IsLive(j)}

Tombstones == {i \in Found : ~IsLive(i)}

\* The artifacts a function of manifests lists as created by us.
Listed(m) == UNION {UNION {m[i][k].mine : k \in DOMAIN m[i]} : i \in Instance}

First(S) == CHOOSE i \in S : \A j \in S : i <= j

-----------------------------------------------------------------------------
Init ==
    /\ torn \in TornMay
    /\ noConfig \in NoConfigMay
    /\ \E m \in Installed :
          /\ manifest = [i \in Instance |-> IF i \in torn THEN <<>> ELSE m[i]]
          /\ present = Listed(m)
    /\ pc = "idle" /\ back = "idle"
    /\ target = 1
    /\ others = {}
    /\ left = 0
    /\ residue = {}
    /\ faults = 0
    /\ status = "none"
    /\ warned = {}

\* rollback_manifest up to the confirmation: without a configuration it
\* refuses, and --all stops with it.
RollbackManifest(i, inUseBy, from) ==
    \/ /\ i \in noConfig
       /\ pc' = "idle" /\ back' = "idle"
       /\ status' = "error"
       /\ UNCHANGED <<target, others, left>>
    \/ /\ i \notin noConfig
       /\ pc' = "undo" /\ back' = from
       /\ target' = i
       /\ others' = inUseBy
       /\ left' = Len(manifest[i])
       /\ status' = "none"

\* `invok rollback --instance i`.
RollbackOne(i) ==
    /\ pc = "idle"
    /\ "one" \in Commands
    /\ i \in Found
    /\ RollbackManifest(i, LiveOthers(i), "idle")
    /\ UNCHANGED <<present, manifest, torn, noConfig, residue, faults, warned>>

RollbackAll ==
    /\ pc = "idle"
    /\ "all" \in Commands
    /\ Found # {}
    /\ pc' = "pass1"
    /\ status' = "none"
    /\ UNCHANGED <<present, manifest, torn, noConfig, back, target, others, left, residue, faults, warned>>

\* Pass 1: the live instances, rediscovered each time round.
Pass1 ==
    /\ pc = "pass1"
    /\ \E i \in Instance : IsLive(i)
    /\ LET i == First({j \in Instance : IsLive(j)})
       IN  RollbackManifest(i, LiveOthers(i), "pass1")
    /\ UNCHANGED <<present, manifest, torn, noConfig, residue, faults, warned>>

Pass1Done ==
    /\ pc = "pass1"
    /\ \A i \in Instance : ~IsLive(i)
    /\ pc' = "pass2"
    /\ UNCHANGED <<present, manifest, torn, noConfig, back, target, others, left, residue, faults, status, warned>>

\* Pass 2: the tombstones, told that nobody is left to protect.
Pass2 ==
    /\ pc = "pass2"
    /\ Tombstones # {}
    /\ RollbackManifest(First(Tombstones), {}, "pass2")
    /\ UNCHANGED <<present, manifest, torn, noConfig, residue, faults, warned>>

AllDone ==
    /\ pc = "pass2"
    /\ Tombstones = {}
    /\ pc' = "idle"
    /\ status' = "ok"
    /\ UNCHANGED <<present, manifest, torn, noConfig, back, target, others, left, residue, faults, warned>>

-----------------------------------------------------------------------------
\* rollback_from_state_sharing_with: the records backwards, one outcome each.
Current == manifest[target][left]

CanUndo == Current.step \in Known \cap Readable

HeldBack(scope) == others # {} /\ Scope[target][Current.step] = scope

\* Mutant: the loop runs once too often.
NextRecordPastTheFirst ==
    /\ left' = left - 1
    /\ pc' = IF left = 0 THEN "write" ELSE "undo"
    /\ UNCHANGED <<manifest, torn, noConfig, back, target, others, status>>

NextRecord ==
    /\ left' = left - 1
    /\ pc' = IF left = 1 THEN "write" ELSE "undo"
    /\ UNCHANGED <<manifest, torn, noConfig, back, target, others, status>>

\* Mutant: a step whose undo was not called is no residue.
NotCalledConsumed ==
    /\ pc = "undo"
    /\ ~CanUndo \/ HeldBack("Shared")
    /\ NextRecord
    /\ UNCHANGED <<present, faults, residue, warned>>

\* Unknown, NotRehydrated and LeftShared: the undo is not called.
NotCalled ==
    /\ pc = "undo"
    /\ ~CanUndo \/ HeldBack("Shared")
    /\ residue' = residue \cup {Current.step}
    /\ NextRecord
    /\ UNCHANGED <<present, faults, warned>>

\* What the undo is to remove, a mixed step's less the shared half while others
\* live; a directory goes only when nothing else is inside it.
Asked == Current.mine \ (IF others = {} THEN {} ELSE SharedArtifact)

Removable == {a \in Asked : Inside[a] \cap (present \ Asked) = {}}

\* Called: a residue when the undo returned an error, and when a mixed step was
\* told to leave its shared half.  An undo that could not remove something
\* usually warns and returns Ok, and so does one that finds its directory not
\* empty: the record is consumed all the same.
Called ==
    /\ pc = "undo"
    /\ CanUndo /\ ~HeldBack("Shared")
    /\ \E how \in UndoMay[Current.step], gone \in SUBSET Removable :
          /\ how = "removed" => gone = Removable
          /\ how = "swallowed" => gone # Removable
          /\ present' = present \ gone
          /\ residue' = IF how = "err" \/ HeldBack("Mixed")
                        THEN residue \cup {Current.step} ELSE residue
          /\ faults' = IF how = "removed" THEN faults ELSE faults + 1
          /\ warned' = present' \cap (warned \cup IF how = "err" THEN {} ELSE Asked)
    /\ faults' <= MaxFaults
    /\ NextRecord

\* The records of some steps, in their order.
Only(records, steps) ==
    LET upTo[k \in 0 .. Len(records)] ==
            IF k = 0 THEN <<>>
            ELSE IF records[k].step \in steps THEN Append(upTo[k - 1], records[k]) ELSE upTo[k - 1]
    IN  upTo[Len(records)]

Kept == Only(manifest[target], residue)

WriteFails ==
    /\ faults < MaxFaults
    /\ faults' = faults + 1
    /\ \/ "failed" \in SaveMay /\ UNCHANGED <<manifest, torn>>
       \/ /\ "torn" \in SaveMay /\ Kept # <<>>
          /\ manifest' = [manifest EXCEPT ![target] = <<>>]
          /\ torn' = torn \cup {target}

\* The manifest keeps the records whose outcome is a residue, or goes when none
\* is.  A failure to write it is only reported.
WriteBack ==
    /\ pc = "write"
    /\ \/ manifest' = [manifest EXCEPT ![target] = Kept] /\ UNCHANGED <<torn, faults>>
       \/ WriteFails
    /\ residue' = {}
    /\ pc' = back
    /\ status' = IF back = "idle" THEN "ok" ELSE status
    /\ UNCHANGED <<present, noConfig, back, target, others, left, warned>>

\* rollback installs no interrupt handler: Ctrl-C kills it, in the middle of an
\* undo too.
Killed ==
    /\ pc # "idle"
    /\ faults < MaxFaults
    /\ faults' = faults + 1
    /\ \E gone \in SUBSET (IF pc = "undo" /\ CanUndo /\ ~HeldBack("Shared")
                           THEN Removable ELSE {}) :
          present' = present \ gone
    /\ warned' = warned \cap present'
    /\ pc' = "idle" /\ back' = "idle"
    /\ residue' = {}
    /\ status' = "error"
    /\ UNCHANGED <<manifest, torn, noConfig, target, others, left>>

Progress == Pass1 \/ Pass1Done \/ Pass2 \/ AllDone \/ NotCalled \/ Called \/ WriteBack

Next == RollbackAll \/ (\E i \in Instance : RollbackOne(i)) \/ Progress \/ Killed

Spec == Init /\ [][Next]_vars

\* The command is a single thread that never waits for anything.
FairSpec == Spec /\ WF_vars(Progress)

-----------------------------------------------------------------------------
TypeOK ==
    /\ present \subseteq Artifact
    /\ manifest \in [Instance -> Seq(Record)]
    /\ torn \subseteq Instance /\ noConfig \subseteq Instance
    /\ pc \in {"idle", "pass1", "pass2", "undo", "write"}
    /\ back \in {"idle", "pass1", "pass2"}
    /\ target \in Instance
    /\ others \subseteq Instance \ {target}
    /\ left \in Nat
    /\ pc = "undo" => left \in DOMAIN manifest[target]
    /\ residue \subseteq StepName
    /\ faults \in 0 .. MaxFaults
    /\ status \in {"none", "ok", "error"}
    /\ warned \subseteq present

\* As long as every manifest can be read, whatever is left on the machine is
\* still listed by one of them or is what an undo warned that it left: an undo
\* that returned an error, an unknown step, a shared artifact left to the
\* others, a failed write and a kill all keep the record (A-R8-1).  Without the
\* exception, which that comment does not make, TLC finds this violated.
NothingForgotten == torn = {} => present \subseteq Listed(manifest) \cup warned

\* A shared artifact is removed only when all that any other instance has of its
\* own on the machine is what that instance's undos warned that they left,
\* whichever order the commands come in and wherever they are killed, as long as
\* every manifest can be read (A-V6-4).
SharedOutlivesInstances ==
    [][\A a \in SharedArtifact : torn = {} /\ a \in present \ present' =>
          \A j \in Instance \ {target} : OwnArtifact[j] \cap present \subseteq warned]_vars

\* `rollback --all` that ends well has left nothing of ours behind but what some
\* undo warned about, although nothing tells it which instance made the shared
\* artifacts: the second pass removes what the first left to the others
\* (rollback_all's two passes).
AllRemovesEverything ==
    [][pc = "pass2" /\ torn = {} /\ status' = "ok" => present' \subseteq warned]_vars

\* Every record of every manifest can be undone by this binary.
Understood ==
    \A i \in Instance : \A k \in DOMAIN manifest[i] :
        manifest[i][k].step \in Known \cap Readable

\* A rollback whose failures are transient ends, --all included: no two
\* tombstones keep each other alive (Found::is_live).
RollbackEnds == pc # "idle" /\ Understood ~> pc = "idle"

=============================================================================
