----------------------------- MODULE MCArchive -----------------------------
(* Instances of Archive for TLC.                                           *)
EXTENDS Archive, TLC

Symmetry == Permutations(Queries)
=============================================================================
