------------------------------ MODULE MCMailbox ------------------------------
(* Small instances of Mailbox for TLC.  Handlers are alike, and so are      *)
(* machines: which handler runs where is chosen at the start.               *)
EXTENDS Mailbox

CONSTANTS m1, m2, w1, w2, a, b

Symmetry == {p @@ q : p \in Permutations(Worker), q \in Permutations(Machine)}
=============================================================================
