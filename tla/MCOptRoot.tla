----------------------------- MODULE MCOptRoot -----------------------------
(***************************************************************************)
(* The unnamed instance and two named ones; the first logs to a file.      *)
(***************************************************************************)
EXTENDS OptRoot, TLC

CONSTANTS default, a, b, x, y, none

MCLogsOf == [i \in {default, a, b} |-> IF i = default THEN {x} ELSE {none}]

MCSymmetry == Permutations({a, b})

\* After a fault at most two instances are on the machine.
MCFewAfterFault ==
    faults > 0 => Cardinality({i \in Instance : man[i].steps # {} \/ (pc # "idle" /\ who = i)}) <= 2

=============================================================================
