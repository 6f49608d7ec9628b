------------------------------- MODULE MCUIDs --------------------------------
(* Small instances of UIDs for TLC. *)
EXTENDS UIDs, TLC

CONSTANTS m1, m2, x1, x2

\* Machines and messages are interchangeable; no liveness is checked.
Symmetry == {p @@ q : p \in Permutations(Machine), q \in Permutations(Mid)}
=============================================================================
