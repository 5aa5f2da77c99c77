------------------------------ MODULE MCStartup ------------------------------
(***************************************************************************)
(* Startup on small instances.                                             *)
(***************************************************************************)
EXTENDS Startup

MCTables == <<"users", "generators", "checks">>

Usual == [driver |-> "postgres", secret |-> "long", limit |-> {240}, timeout |-> {}, redis |-> TRUE]

\* The deployment's own environment, and one slip in it at a time.
MCEnvironment ==
    {Usual,
     [Usual EXCEPT !.redis = FALSE],
     [Usual EXCEPT !.limit = {0}],
     [Usual EXCEPT !.limit = {9}],
     [Usual EXCEPT !.limit = {100001}],
     [Usual EXCEPT !.secret = "short"],
     [Usual EXCEPT !.driver = "unknown"]}
=============================================================================
