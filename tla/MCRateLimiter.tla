---------------------------- MODULE MCRateLimiter ----------------------------
(***************************************************************************)
(* A small instance of RateLimiter: four calls, two of which a window of   *)
(* two ticks allows.                                                       *)
(***************************************************************************)
EXTENDS RateLimiter, TLC

SymmetricCalls == Permutations(Calls)
=============================================================================
