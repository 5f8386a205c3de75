------------------------------ MODULE MCEngine ------------------------------
(***************************************************************************)
(* Three steps, one of each scope, as in the canonical sequence of a named *)
(* instance: prepare-opt-root owns the shared root and the instance's own  *)
(* home, setup-postgres the shared cluster, create-database its own.       *)
(***************************************************************************)
EXTENDS Engine, TLC

CONSTANTS root, home, cluster, db

MCArtifact == {root, home, cluster, db}

MCStepOf == root :> 1 @@ home :> 1 @@ cluster :> 2 @@ db :> 3

MCShared == {root, cluster}

MCScope == <<"Mixed", "Shared", "OwnInstance">>

=============================================================================
