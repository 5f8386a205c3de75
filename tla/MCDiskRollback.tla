--------------------------- MODULE MCDiskRollback ---------------------------
(***************************************************************************)
(* The unnamed instance (1) and two named ones.  Any of them may have come *)
(* first and created what they share: a root directory, a cluster.  Step   *)
(* names stand for prepare-opt-root, setup-postgres, the steps of scope    *)
(* OwnInstance and one a later version wrote, whose scope nobody knows.    *)
(***************************************************************************)
EXTENDS DiskRollback, TLC

CONSTANTS root, cluster, home2, home3, own1, own2, own3

MCArtifact == {root, cluster, home2, home3, own1, own2, own3}

MCShared == {root, cluster}

MCOwn == <<{own1}, {home2, own2}, {home3, own3}>>

MCInside == [a \in MCArtifact |-> IF a = root THEN {home2, home3} ELSE {}]

MCStepName == {"opt_root", "postgres", "own", "future"}

MCScope ==
    [i \in Instance |->
        "opt_root" :> (IF i = 1 THEN "Shared" ELSE "Mixed") @@
        "postgres" :> "Shared" @@ "own" :> "OwnInstance" @@ "future" :> "Shared"]

Rec(s, made) == [step |-> s, mine |-> made]

Home == <<{}, {home2}, {home3}>>
Own == <<{own1}, {own2}, {own3}>>

\* A complete installation of i, which made the shared artifacts of a set.
Whole(i, made) ==
    <<Rec("opt_root", (made \cap {root}) \cup Home[i]),
      Rec("postgres", made \cap {cluster}),
      Rec("own", Own[i])>>

\* Two or three instances; each shared artifact was made by one of them, or was
\* there before any.
MCInstalled ==
    {[i \in Instance |->
        IF i \in here
        THEN Whole(i, {a \in MCShared : IF a = root THEN r = i ELSE c = i})
        ELSE <<>>] :
      here \in {{1, 2, 3}, {2, 3}, {1, 3}, {2}}, r \in 0 .. 3, c \in 0 .. 3}

\* The second instance's manifest ends with a record this binary does not know.
MCFuture ==
    {[m EXCEPT ![2] = Append(@, Rec("future", {}))] : m \in {n \in MCInstalled : n[2] # <<>>}}

MCAny == MCInstalled \cup MCFuture

\* Every undo may warn and go on.  Only write-control-script and patch-bashrc,
\* both OwnInstance, have one that may return an error.
MCUndoMay ==
    [s \in MCStepName |->
        {"removed", "swallowed"} \cup (IF s = "own" THEN {"err"} ELSE {})]

=============================================================================
