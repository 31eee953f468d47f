---------------------------- MODULE MCRateLimiter ----------------------------
(* An instance of RateLimiter: two keys over a window and a half of four ticks, *)
(* with two ticks to a second.                                                  *)
EXTENDS RateLimiter, TLC

CONSTANTS k1, k2

Symmetry == Permutations(Keys)
=============================================================================
