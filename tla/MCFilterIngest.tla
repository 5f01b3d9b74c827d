---------------------------- MODULE MCFilterIngest ----------------------------
(* Small instance of FilterIngest for TLC. *)
EXTENDS FilterIngest, TLC

FileSymmetry == Permutations(Hash)
=============================================================================
