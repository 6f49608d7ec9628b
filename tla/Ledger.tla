------------------------------- MODULE Ledger --------------------------------
(***************************************************************************)
(* What the shared state promises, without snapshot, op objects, names,    *)
(* watermark, local file or batches: one ledger from which only somebody   *)
(* who writes without knowing all of it strikes anything, and screens that *)
(* show what had been acknowledged when a machine last began to load.      *)
(***************************************************************************)
CONSTANTS Machine, Thread, Host, Change

VARIABLES
  written,   \* what whoever reads the bucket finds
  struck,    \* what somebody who was blind took from the others
  told,      \* what somebody was told is written
  since,     \* per goroutine: what had been told when its load began
  screen,    \* per machine: what it shows
  blind      \* per goroutine: what it is about is overtaken, or could not be read

vars == <<written, struck, told, since, screen, blind>>

Init ==
  /\ written = {} /\ struck = {} /\ told = {}
  /\ since = [t \in Thread |-> {}] /\ screen = [m \in Machine |-> {}]
  /\ blind = [t \in Thread |-> FALSE]

\* Somebody makes a change: it is on the screen at once, and not written yet.
Edit(m) ==
  /\ \E c \in Change : screen' = [screen EXCEPT ![m] = @ \union {c}]
  /\ UNCHANGED <<written, struck, told, since>>

\* The ledger takes changes, acknowledged or not, and gives none back - but to
\* the blind.  Only what is written is acknowledged.
Grow ==
  /\ written \subseteq written' \union struck' /\ written' \subseteq Change
  /\ struck \subseteq struck'
  /\ struck' # struck => \E t \in Thread : blind[t]
  /\ told \subseteq told' /\ told' \subseteq written' \union struck'

Write == Grow /\ UNCHANGED <<since, screen>>

Ask(t) ==
  /\ since' = [since EXCEPT ![t] = told]
  /\ UNCHANGED <<written, struck, told, screen>>

\* A call ends, and with it the load that was part of it.
Tell(t) == Grow /\ since' = [since EXCEPT ![t] = {}]

Answer(t) == Tell(t) /\ UNCHANGED screen

\* A load that is not blind shows at least what had been acknowledged when it
\* began, and is not lost by now.
Show(t) ==
  /\ \E shown \in SUBSET Change :
       /\ blind[t] \/ since[t] \subseteq shown \union struck
       /\ screen' = [screen EXCEPT ![Host[t]] = shown]
  /\ Tell(t) \/ UNCHANGED <<written, struck, told, since>>

\* A machine that stops loses its screen, and nothing else.
Stop(m) ==
  /\ screen' = [screen EXCEPT ![m] = {}]
  /\ since' = [t \in Thread |-> IF Host[t] = m THEN {} ELSE since[t]]
  /\ UNCHANGED <<written, struck, told>>

\* Who is blind, and when, is up to those who overtake one another.
Next ==
  /\ \/ Write \/ \E m \in Machine : Edit(m) \/ Stop(m)
     \/ \E t \in Thread : Ask(t) \/ Answer(t) \/ Show(t)
  /\ blind' \in [Thread -> BOOLEAN]

Spec == Init /\ [][Next]_vars
=============================================================================
