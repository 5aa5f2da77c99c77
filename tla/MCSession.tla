------------------------------ MODULE MCSession ------------------------------
(***************************************************************************)
(* Session on a small instance.                                            *)
(***************************************************************************)
EXTENDS Session

MCAccountStates ==
    {[role |-> "operator", active |-> TRUE],
     [role |-> "reviewer", active |-> TRUE],
     [role |-> "reviewer", active |-> FALSE]}

MCRoutes == {SessionRoute, <<"manifests", "transition">>, <<"checks", "transition">>}
=============================================================================
