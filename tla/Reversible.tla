----------------------------- MODULE Reversible -----------------------------
(***************************************************************************)
(* What a reversible installer promises to the machine it runs on, without *)
(* steps, verdicts or a manifest: a run goes forward, bringing new things  *)
(* into existence, and may turn and go backward, removing things some run  *)
(* made; it never goes forward again once it has turned, never lays a hand *)
(* on what it did not make, and removes nothing that other instances are   *)
(* using.                                                                  *)
(***************************************************************************)
CONSTANTS Artifact, SharedArtifact

VARIABLES
    art,     \* what the machine holds for each artifact
    mode,    \* "idle", "forward" or "backward"
    inUse    \* are other instances using the shared artifacts

rvars == <<art, mode, inUse>>

AtFirst ==
    /\ art \in [Artifact -> {"absent", "theirs"}]
    /\ mode = "idle"
    /\ inUse = FALSE

Begin ==
    /\ mode = "idle"
    /\ mode' = "forward"
    /\ inUse' \in BOOLEAN
    /\ UNCHANGED art

\* Leaving a mode may mean the end of the process, which forgets inUse.
Forward ==
    /\ mode = "forward"
    /\ \E made \in SUBSET {a \in Artifact : art[a] = "absent"} :
          art' = [a \in Artifact |-> IF a \in made THEN "ours" ELSE art[a]]
    /\ \/ mode' \in {"forward", "backward"} /\ UNCHANGED inUse
       \/ mode' = "idle" /\ inUse' = FALSE

Backward ==
    /\ mode = "backward"
    /\ \E gone \in SUBSET {a \in Artifact : art[a] = "ours" /\ (inUse => a \notin SharedArtifact)} :
          art' = [a \in Artifact |-> IF a \in gone THEN "absent" ELSE art[a]]
    /\ \/ mode' = "backward" /\ UNCHANGED inUse
       \/ mode' = "idle" /\ inUse' = FALSE

Move == Begin \/ Forward \/ Backward

RSpec == AtFirst /\ [][Move]_rvars

=============================================================================
