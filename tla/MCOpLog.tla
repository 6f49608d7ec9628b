------------------------------- MODULE MCOpLog -------------------------------
(* Small instances of OpLog for TLC. *)
EXTENDS OpLogInv, TLC

CONSTANTS m1, m2, t1, t2, c1, c2

\* One goroutine on each of two machines.
TwoMachines == t1 :> m1 @@ t2 :> m2

\* Two goroutines of one machine.
OneMachine == t1 :> m1 @@ t2 :> m1

\* Two changes to one message.
Messages == {"a", "b"}
SameMessage == c1 :> "a" @@ c2 :> "a"

\* The two machines change places, each with its goroutine; so may c1 and c2,
\* which concern one message.  Host and MsgOf are unchanged by either, and no
\* property of these runs is a liveness property.
TwoSides == m1 :> m2 @@ m2 :> m1 @@ t1 :> t2 @@ t2 :> t1
Symmetry == Permutations({c1, c2}) \cup {TwoSides}

\* On one machine it is the two goroutines that do.
TwoGoroutines == Permutations({c1, c2}) \cup Permutations({t1, t2})
=============================================================================
