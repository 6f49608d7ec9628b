------------------------------ MODULE MCProgram ------------------------------
(* A small instance of Program for TLC. *)
EXTENDS Program
\* No action tells pages, starts or mailboxes apart, and no liveness is checked.
Symmetry == Permutations(Tab) \union Permutations(Start) \union Permutations(Id)
=============================================================================
