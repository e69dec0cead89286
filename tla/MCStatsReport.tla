---------------------------- MODULE MCStatsReport ----------------------------
(* StatsReport on small instances; the constants are in the .cfg files. *)
EXTENDS StatsReport, TLC

Symmetry == Permutations(Requests)
=============================================================================
