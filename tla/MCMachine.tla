----------------------------- MODULE MCMachine -----------------------------
(***************************************************************************)
(* Two administrators and two instances; a shared step (the root) and then *)
(* the instance's own.  A gevent port is three above the http port, so     *)
(* 8069 and 8072 cross.                                                    *)
(***************************************************************************)
EXTENDS Machine, TLC

MCListens == [q \in Port |-> {q, q + 3}]

Symmetry == Permutations(Process)

=============================================================================
