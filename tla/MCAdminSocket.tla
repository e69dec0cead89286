---------------------------- MODULE MCAdminSocket ----------------------------
(* AdminSocket on small instances; the constants are in the .cfg files. *)
EXTENDS AdminSocket, TLC

Symmetry == Permutations(Instances) \cup Permutations(Inodes)
=============================================================================
