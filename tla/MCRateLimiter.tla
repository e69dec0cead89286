---------------------------- MODULE MCRateLimiter ----------------------------
(* RateLimiter on small instances; the constants are in the .cfg files. *)
EXTENDS RateLimiter, TLC

Symmetry == Permutations(Goroutines) \cup Permutations(Keys)
=============================================================================
