------------------------------ MODULE CoreInv -------------------------------
(***************************************************************************)
(* The inductive invariants of the parts of Core: bodies and dialogs here, *)
(* documents and pages in DeskInv.                                         *)
(***************************************************************************)

EXTENDS Core, DeskInv

-----------------------------------------------------------------------------
(* Opening a message.                                                        *)

BodiesInv == B!TypeOK /\ B!FilesTrue /\ B!InHand

\* The mutex of a program's cache, and the files in the directory.
LocksHeld ==
  /\ DOMAIN lock = Program
  /\ \A p \in Program : lock[p] \in {B!None} \cup {w \in Worker : B!P(w) = p}
  /\ \A w \in Worker : pc[w] \in B!Holding <=> lock[B!P(w)] = w
FilesHeld ==
  /\ DOMAIN files \subseteq B!Name
  /\ \A n \in DOMAIN files : /\ files[n] \in [of : Mail, key : CacheKeys, full : BOOLEAN]
                             /\ files[n].of = n[1]
  /\ \A w \in Worker : mem[w].file \in {B!NoFile, B!Unlinked} \cup DOMAIN files

-----------------------------------------------------------------------------
(* The size of the cache directory.                                          *)

\* Total adds up over the sets of names: one of a set, and the set without it.
One(s) == CHOOSE n \in s : TRUE
Adds(d, g, s) == IF s = {} THEN 0 ELSE B!SizeOf(d[One(s)]) + g[s \ {One(s)}]
Sums(d) == CHOOSE g : g = [s \in SUBSET DOMAIN d |-> Adds(d, g, s)]

\* Directories with sizes.
IsSized(d) == IsFiniteSet(DOMAIN d) /\ \A n \in DOMAIN d : B!SizeOf(d[n]) \in Nat

\* Writes that are done or were broken off, and not cleaned up after.
Owed == Cardinality(B!Past) + loose

-----------------------------------------------------------------------------
(* Writing a message.                                                        *)

ComposeInv ==
  /\ C!TypeOK /\ C!KeysFresh /\ C!TextsKnown /\ C!InTurn /\ C!Accounted
StraightInv == C!TypeOK /\ C!Straight /\ C!SentAsWritten
=============================================================================
