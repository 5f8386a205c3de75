----------------------------- MODULE MCService -----------------------------
(***************************************************************************)
(* Two instances of one administrator, and two sessions on the first.      *)
(***************************************************************************)
EXTENDS Service, TLC

CONSTANTS a, b, x, s, t

WorksOnFirst == [z \in {s, t} |-> a]

TwoInstances == \A i \in Instance : man[i].steps # {} \/ (pc # "idle" /\ who = i)
Edited == \E u \in Admin : "later" \in typed[u]
Sessions == \E z \in Session : at[z] # "none"
TheirFiles ==
    UNION {{found.conf[i], found.unit[i]} : i \in Odd}
    \cup UNION {{found.script[u][i], found.link[u][i]} : u \in Admin, i \in Odd}

InTheWay == "theirs" \in TheirFiles
FaultBefore == faults > 0
NoDirs == \A u \in Admin, d \in Dir : found.dirs[u][d] = "absent"
OwnLines == \A u \in Admin : found.bashrc[u].lines = {"own"}

\* The configuration, the unit, the script and the link were there, or none was.
\* Two instances share the directories and .bashrc and no other file: beside two
\* there is one of such a file in the way, an edit of .bashrc and a fault.  A fault
\* meets an edit where the directories were not there, and it meets two instances
\* where .bashrc was and had no PATH_LINE.  There is no session, which
\* would touch no file.
MCFiles ==
    /\ Cardinality(TheirFiles) <= 1
    /\ TwoInstances => ~(Edited /\ FaultBefore) /\ ~(InTheWay /\ (Edited \/ FaultBefore))
    /\ FaultBefore => (Edited => NoDirs) /\ (TwoInstances => NoDirs /\ OwnLines)
    /\ ~Sessions /\ \A i \in Instance : owed[i] = "nothing"

\* On a machine with none of the files; while there are two instances there is no
\* session, and no fault before.
MCSessions ==
    /\ "theirs" \notin TheirFiles /\ ~Edited
    /\ \A u \in Admin : found.bashrc[u] = NoBashrc /\ \A d \in Dir : found.dirs[u][d] = "absent"
    /\ TwoInstances => ~Sessions /\ faults = 0

MCBounds == MCFiles \/ MCSessions

MCSymmetry == Permutations({s, t})

=============================================================================
