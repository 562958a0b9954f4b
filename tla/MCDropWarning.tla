--------------------------- MODULE MCDropWarning ---------------------------
(* DropWarning for TLC: the goroutines are interchangeable. *)
EXTENDS DropWarning, TLC

Symmetry == Permutations(Producers)
=============================================================================
