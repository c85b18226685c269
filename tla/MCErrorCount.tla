---------------------------- MODULE MCErrorCount ----------------------------
(* An instance of ErrorCount for TLC. *)
EXTENDS ErrorCount, TLC

Symmetry == Permutations(Writers \ Unlocked)
=============================================================================
