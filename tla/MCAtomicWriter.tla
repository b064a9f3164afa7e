--------------------------- MODULE MCAtomicWriter ---------------------------
(* Writers of one destination are interchangeable. *)
EXTENDS AtomicWriter, TLC

CONSTANTS w1, w2, w3

Symmetry == Permutations(Writer)
=============================================================================
