---------------------------- MODULE MCRateLimiter ----------------------------
(***************************************************************************)
(* RateLimiter on a small instance.                                        *)
(***************************************************************************)
EXTENDS RateLimiter, TLC

MCSymmetry == Permutations(Requests) \cup Permutations(Keys)
=============================================================================
