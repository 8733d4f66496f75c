------------------------------- MODULE MCKeys -------------------------------
(* Keys with ids and authors that TLC may permute. *)
EXTENDS Keys, TLC

Symmetry == Permutations(Ids) \cup Permutations(Authors)
=============================================================================
