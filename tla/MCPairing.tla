------------------------------ MODULE MCPairing ------------------------------
(* Small instances of Pairing for TLC. *)
EXTENDS Pairing, TLC

CONSTANTS p1, p2

Symmetry == Permutations(Phone)
=============================================================================
