------------------------------- MODULE MCStore -------------------------------
(* SecretStore on small instances; the constants are in the .cfg files. *)
EXTENDS SecretStore, TLC

Symmetry == Permutations(Goroutines)
=============================================================================
