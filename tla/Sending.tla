------------------------------- MODULE Sending -------------------------------
(***************************************************************************)
(* Sending one mail, with the marker that store/sending.go writes beside   *)
(* the draft.  web/send.go runs the six steps; RecoverSends finishes at    *)
(* the next start what a crash left; a question whose answer the bucket    *)
(* does not know is put to a person (web/sending.go).                      *)
(*                                                                         *)
(* The mail lies in drafts/.  Every press on "send" is an attempt with a   *)
(* Message-ID, a marker and a copy of its own.  The person presses again   *)
(* only as long as the draft is there, nothing says "sent" and the window  *)
(* in front of them shows no open question, and answers a question         *)
(* truthfully.                                                             *)
(***************************************************************************)
EXTENDS Integers, FiniteSets, FiniteSetsExt

CONSTANTS Server,       \* the running copies of s3mail, all on one bucket
          MaxAttempt,   \* bound: presses on "send"
          MaxFault,     \* bound: things that go wrong in one behaviour
          Faults        \* which things may go wrong, a subset of FaultKind

FaultKind ==
  {"crash",      \* a process dies while it works
   "marker",     \* BeginSend reports an error
   "ses",        \* SES takes the mail, the call reports an error
   "mark",       \* MarkSent reports an error
   "copy",       \* the copy into sent/ reports an error, in the handler
   "recopy",     \* the same in finishSent
   "drop",       \* the draft's removal reports an error
   "clear",      \* the marker's removal reports an error
   "list",       \* markers cannot be listed or read at a start
   "hasty",      \* "it did not go out" while the handler is still at work
   "elsewhere",  \* pressed where nobody looked at the markers since a crash
   "rearm"}      \* the wizard re-arms the running server

ASSUME SendingAssumption ==
  /\ IsFiniteSet(Server)
  /\ MaxAttempt \in Nat /\ MaxFault \in Nat
  /\ Faults \subseteq FaultKind

Attempt == 1 .. MaxAttempt
Worker  == Server \X {"start", "answer"}

VARIABLES
  marker,  \* the marker objects: "none", "open" (no SES id) or "out"
  sent,    \* the attempts with a copy in sent/
  draft,   \* the draft object is there
  out,     \* what SES has accepted
  pc, at, noted,         \* per attempt: handler step, server, marker known
  told,    \* what the person was last told: "nothing", "failed" or "sent"
  status,  \* per server: "down", "starting" or "up"
  asked,   \* openSends: the questions a server shows
  rec, keys, todo, ask,  \* RecoverSends of a server
  fin, which,            \* finishSent: step and marker
  stale,   \* servers that have not looked since a send died elsewhere
  met, spent             \* history: what went wrong, and how often

bucket  == <<marker, sent, draft>>
handler == <<pc, at, noted, told>>
start   == <<status, asked, rec, keys, todo, ask>>
finish  == <<fin, which>>
history == <<stale, met, spent>>
vars    == <<bucket, out, handler, start, finish, history>>

Marker == {"none", "open", "out"}
Step   == {"unused", "begin", "ses", "refused", "look", "mark", "copy", "drop",
           "clear", "answer", "over"}

TypeOK ==
  /\ marker \in [Attempt -> Marker] /\ sent \subseteq Attempt
  /\ draft \in BOOLEAN /\ out \subseteq Attempt
  /\ pc \in [Attempt -> Step] /\ at \in [Attempt -> Server]
  /\ noted \in [Attempt -> BOOLEAN] /\ told \in {"nothing", "failed", "sent"}
  /\ status \in [Server -> {"down", "starting", "up"}]
  /\ asked \in [Server -> SUBSET Attempt]
  /\ rec \in [Server -> {"off", "list", "work"}]
  /\ keys \in [Server -> SUBSET Attempt]
  /\ todo \in [Server -> SUBSET Attempt] /\ ask \in [Server -> SUBSET Attempt]
  /\ fin \in [Worker -> {"idle", "copy", "drop", "clear"}]
  /\ which \in [Worker -> Attempt \cup {0}]
  /\ stale \subseteq Server /\ met \subseteq FaultKind /\ spent \in 0 .. MaxFault

Init ==
  /\ marker = [a \in Attempt |-> "none"] /\ sent = {} /\ draft = TRUE
  /\ out = {}
  /\ pc = [a \in Attempt |-> "unused"] /\ noted = [a \in Attempt |-> FALSE]
  /\ at \in {[a \in Attempt |-> m] : m \in Server} /\ told = "nothing"
  /\ status = [m \in Server |-> "up"] /\ asked = [m \in Server |-> {}]
  /\ rec = [m \in Server |-> "off"] /\ keys = [m \in Server |-> {}]
  /\ todo = [m \in Server |-> {}] /\ ask = [m \in Server |-> {}]
  /\ fin = [w \in Worker |-> "idle"] /\ which = [w \in Worker |-> 0]
  /\ stale = {} /\ met = {} /\ spent = 0

-----------------------------------------------------------------------------
Running(a) == pc[a] \notin {"unused", "over"}

Fault(kind) ==
  /\ kind \in Faults /\ spent < MaxFault
  /\ met' = met \cup {kind}
  /\ spent' = spent + 1
  /\ UNCHANGED stale

Fine == UNCHANGED history

\* A call that reports success, or the error `kind': then its effect may have
\* taken place all the same.
Call(kind, Effect, Nothing, Then, Else) ==
  \/ Effect /\ Then /\ Fine
  \/ (Effect \/ Nothing) /\ Else /\ Fault(kind)

Goto(a, step) ==
  /\ pc' = [pc EXCEPT ![a] = step]
  /\ noted' = [noted EXCEPT ![a] = step # "over" /\ @]
PutMarker(a, content) == marker' = [marker EXCEPT ![a] = content]

\* Mutant: the marker goes as soon as it has the id.
HandlerClearsFirst(step) ==
  CASE step = "mark" -> "clear"
    [] step = "clear" -> "copy"
    [] step = "copy" -> "drop"
    [] step = "drop" -> "answer"
\* The order in the handler, once SES has the mail.
NextStep(step) ==
  CASE step = "mark" -> "copy"
    [] step = "copy" -> "drop"
    [] step = "drop" -> "clear"
    [] step = "clear" -> "answer"

-----------------------------------------------------------------------------
(* POST /api/send. *)
\* The person presses "send".
Click(m) ==
  /\ status[m] = "up" /\ rec[m] = "off" /\ asked[m] = {}
  /\ draft /\ told # "sent"
  /\ \A a \in Attempt : ~Running(a)
  /\ \E a \in Attempt :
       /\ pc[a] = "unused"
       /\ \A b \in Attempt : pc[b] = "unused" => a <= b
       /\ Goto(a, "begin")
       /\ at' = [at EXCEPT ![a] = m]
  /\ told' = "nothing"
  /\ IF m \in stale THEN Fault("elsewhere") ELSE Fine
  /\ UNCHANGED <<bucket, out, start, finish>>

\* A marker that cannot be written does not stop the send.
BeginSend(a) ==
  /\ pc[a] = "begin"
  /\ Call("marker", PutMarker(a, "open"), UNCHANGED marker,
          noted' = [noted EXCEPT ![a] = TRUE], UNCHANGED noted)
  /\ pc' = [pc EXCEPT ![a] = "ses"]
  /\ UNCHANGED <<sent, draft, out, at, told, start, finish>>

\* SES accepts, refuses, or accepts and the answer is lost.
Send(a) ==
  /\ pc[a] = "ses"
  /\ \/ /\ out' = out \cup {a} /\ Fine
        /\ Goto(a, IF noted[a] THEN "look" ELSE NextStep("mark"))
     \/ /\ UNCHANGED out /\ Fine
        /\ Goto(a, "refused")
     \/ /\ out' = out \cup {a} /\ Fault("ses")
        /\ Goto(a, "refused")
  /\ UNCHANGED <<bucket, at, told, start, finish>>

\* AbandonSend, whose error is ignored, and the error to the person.
Refused(a) ==
  /\ pc[a] = "refused"
  /\ IF noted[a]
     THEN Call("clear", PutMarker(a, "none"), UNCHANGED marker, TRUE, TRUE)
     ELSE UNCHANGED marker /\ Fine
  /\ Goto(a, "over")
  /\ told' = "failed"
  /\ UNCHANGED <<sent, draft, out, at, start, finish>>

\* MarkSent reads the marker ...
MarkLook(a) ==
  /\ pc[a] = "look"
  /\ \/ marker[a] # "none" /\ Goto(a, "mark") /\ Fine
     \/ marker[a] = "none" /\ Goto(a, NextStep("mark")) /\ Fine
     \/ Goto(a, NextStep("mark")) /\ Fault("mark")
  /\ UNCHANGED <<bucket, out, at, told, start, finish>>

\* Mutant: the id is written in the place of the marker.
MarkedById(a) == "id"
\* What MarkSent writes: the marker as it was read, with the id in it.
Marked(a) == "out"

\* ... and writes it back with the id.  An error becomes a warning.
MarkSent(a) ==
  /\ pc[a] = "mark"
  /\ Call("mark", PutMarker(a, Marked(a)), UNCHANGED marker, TRUE, TRUE)
  /\ Goto(a, NextStep("mark"))
  /\ UNCHANGED <<sent, draft, out, at, told, start, finish>>

\* The copy into sent/.  An error becomes a warning.
Copy(a) ==
  /\ pc[a] = "copy"
  /\ Call("copy", sent' = sent \cup {a}, UNCHANGED sent, TRUE, TRUE)
  /\ Goto(a, NextStep("copy"))
  /\ UNCHANGED <<marker, draft, out, at, told, start, finish>>

\* DropDraft.  An error becomes a warning.
Drop(a) ==
  /\ pc[a] = "drop"
  /\ Call("drop", draft' = FALSE, UNCHANGED draft, TRUE, TRUE)
  /\ Goto(a, NextStep("drop"))
  /\ UNCHANGED <<marker, sent, out, at, told, start, finish>>

\* AbandonSend, whose error is ignored.
Clear(a) ==
  /\ pc[a] = "clear"
  /\ IF noted[a]
     THEN Call("clear", PutMarker(a, "none"), UNCHANGED marker, TRUE, TRUE)
     ELSE UNCHANGED marker /\ Fine
  /\ Goto(a, NextStep("clear"))
  /\ UNCHANGED <<sent, draft, out, at, told, start, finish>>

\* The page says "sent", with or without a warning.
Answered(a) ==
  /\ pc[a] = "answer"
  /\ Goto(a, "over")
  /\ told' = "sent"
  /\ UNCHANGED <<bucket, out, at, start, finish, history>>

Handler(a) ==
  BeginSend(a) \/ Send(a) \/ Refused(a) \/ MarkLook(a) \/ MarkSent(a)
    \/ Copy(a) \/ Drop(a) \/ Clear(a) \/ Answered(a)

-----------------------------------------------------------------------------
(* RecoverSends, from activate: at a start, and when the wizard re-arms. *)
Start(m) ==
  /\ status[m] = "down"
  /\ status' = [status EXCEPT ![m] = "starting"]
  /\ rec' = [rec EXCEPT ![m] = "list"]
  /\ UNCHANGED <<bucket, out, handler, asked, keys, todo, ask, finish, history>>

Activate(m) ==
  /\ status[m] = "up" /\ rec[m] = "off"
  /\ rec' = [rec EXCEPT ![m] = "list"]
  /\ Fault("rearm")
  /\ UNCHANGED <<bucket, out, handler, status, asked, keys, todo, ask, finish>>

\* Mutant: only markers whose draft is still there.
MarkersOfDrafts == {a \in Attempt : marker[a] # "none" /\ draft}
Markers == {a \in Attempt : marker[a] # "none"}

\* PendingSends lists; a mailbox that cannot be listed is passed over.
RecoverList(m) ==
  /\ rec[m] = "list"
  /\ \/ /\ keys' = [keys EXCEPT ![m] = Markers]
        /\ rec' = [rec EXCEPT ![m] = "work"]
        /\ stale' = stale \ {m}
        /\ UNCHANGED <<status, met, spent>>
     \/ /\ Fault("list")
        /\ rec' = [rec EXCEPT ![m] = "off"]
        /\ status' = [status EXCEPT ![m] = "up"]
        /\ UNCHANGED keys
  /\ UNCHANGED <<bucket, out, handler, asked, todo, ask, finish>>

\* Mutant: without an id, take it that nothing went out and say nothing.
Presume(a) == FALSE
\* Decided, the other way round: is this marker a question?
Undecided(a) == marker[a] = "open"

\* PendingSends reads the next marker: gone or unreadable, a question, decided.
RecoverRead(m, a) ==
  /\ rec[m] = "work" /\ a \in keys[m] /\ \A b \in keys[m] : a <= b
  /\ keys' = [keys EXCEPT ![m] = @ \ {a}]
  /\ \/ /\ ask' = [ask EXCEPT ![m] = @ \cup {b \in {a} : Undecided(b)}]
        /\ todo' = [todo EXCEPT ![m] = @ \cup {b \in {a} : marker[b] = "out"}]
        /\ Fine
     \/ Fault("list") /\ UNCHANGED <<ask, todo>>
  /\ UNCHANGED <<bucket, out, handler, status, asked, rec, finish>>

\* Mutant: the copy is taken for done.
FinishWithoutCopy == "drop"
\* finishSent begins with the copy.
FinishFirst == "copy"

\* A decided marker is finished; the markers go in key order.
RecoverFinish(m) ==
  LET w == <<m, "start">> IN
  /\ rec[m] = "work" /\ keys[m] = {} /\ todo[m] # {} /\ fin[w] = "idle"
  /\ fin' = [fin EXCEPT ![w] = FinishFirst]
  /\ which' = [which EXCEPT ![w] = Min(todo[m])]
  /\ todo' = [todo EXCEPT ![m] = @ \ {Min(todo[m])}]
  /\ UNCHANGED <<bucket, out, handler, status, asked, rec, keys, ask, history>>

\* The questions replace those shown so far, and the window opens.
RecoverDone(m) ==
  /\ rec[m] = "work" /\ keys[m] = {} /\ todo[m] = {}
  /\ fin[<<m, "start">>] = "idle"
  /\ asked' = [asked EXCEPT ![m] = ask[m]]
  /\ ask' = [ask EXCEPT ![m] = {}]
  /\ rec' = [rec EXCEPT ![m] = "off"]
  /\ status' = [status EXCEPT ![m] = "up"]
  /\ UNCHANGED <<bucket, out, handler, keys, todo, finish, history>>

Recovery(m) ==
  \/ RecoverList(m) \/ RecoverFinish(m) \/ RecoverDone(m)
  \/ \E a \in Attempt : RecoverRead(m, a)

-----------------------------------------------------------------------------
(* finishSent, on behalf of a start or of an answer. *)
Idle(w) ==
  /\ fin' = [fin EXCEPT ![w] = "idle"]
  /\ which' = [which EXCEPT ![w] = 0]

FinishNext(w, step) == fin' = [fin EXCEPT ![w] = step] /\ UNCHANGED which

FinishCopy(w) ==
  /\ fin[w] = "copy"
  /\ Call("recopy", sent' = sent \cup {which[w]}, UNCHANGED sent,
          FinishNext(w, "drop"), Idle(w))
  /\ UNCHANGED <<marker, draft, out, handler, start>>

\* "A draft that is already gone is not an error" - nor is any other failure.
FinishDrop(w) ==
  /\ fin[w] = "drop"
  /\ Call("drop", draft' = FALSE, UNCHANGED draft, TRUE, TRUE)
  /\ FinishNext(w, "clear")
  /\ UNCHANGED <<marker, sent, out, handler, start>>

\* A question is off the list of its program.
Dropped(m, a) == asked' = [asked EXCEPT ![m] = @ \ {a}]

\* AbandonSend.  After it an answered question is off the list.
FinishClear(w) ==
  LET m == w[1] IN
  /\ fin[w] = "clear"
  /\ Call("clear", PutMarker(which[w], "none"), UNCHANGED marker,
          IF w[2] = "answer" THEN Dropped(m, which[w]) ELSE UNCHANGED asked,
          UNCHANGED asked)
  /\ Idle(w)
  /\ UNCHANGED <<sent, draft, out, handler, status, rec, keys, todo, ask>>

Finish(w) == FinishCopy(w) \/ FinishDrop(w) \/ FinishClear(w)

\* Mutant: either answer files the copy.
FinishAlways(yes) == "copy"
\* ResolveSending: "it went out" finishes, "it did not" only clears the marker.
Resolve(yes) == IF yes THEN FinishFirst ELSE "clear"

\* A question the server asked is answered.  If the marker is gone by now, the
\* answer is an error and nothing changes, the question on the page included.
Answer(m, a, yes) ==
  LET w == <<m, "answer">> IN
  /\ status[m] = "up" /\ a \in asked[m] /\ fin[w] = "idle"
  /\ marker[a] # "none"
  /\ yes <=> a \in out
  /\ IF ~yes /\ Running(a) THEN Fault("hasty") ELSE Fine
  /\ fin' = [fin EXCEPT ![w] = Resolve(yes)]
  /\ which' = [which EXCEPT ![w] = a]
  /\ UNCHANGED <<bucket, out, handler, start>>

-----------------------------------------------------------------------------
(* A process ends: all it knew is gone, the bucket stays. *)
Working(m) ==
  \/ \E a \in Attempt : at[a] = m /\ Running(a)
  \/ rec[m] # "off"
  \/ \E w \in Worker : w[1] = m /\ fin[w] # "idle"

Gone(m) ==
  /\ status' = [status EXCEPT ![m] = "down"]
  /\ pc' = [a \in Attempt |-> IF at[a] = m /\ Running(a) THEN "over" ELSE pc[a]]
  /\ asked' = [asked EXCEPT ![m] = {}] /\ rec' = [rec EXCEPT ![m] = "off"]
  /\ keys' = [keys EXCEPT ![m] = {}] /\ todo' = [todo EXCEPT ![m] = {}]
  /\ ask' = [ask EXCEPT ![m] = {}]
  /\ fin' = [w \in Worker |-> IF w[1] = m THEN "idle" ELSE fin[w]]
  /\ which' = [w \in Worker |-> IF w[1] = m THEN 0 ELSE which[w]]
  /\ noted' = [a \in Attempt |-> noted[a] /\ at[a] # m]
  /\ UNCHANGED <<bucket, out, at, told>>

Quit(m) == status[m] = "up" /\ ~Working(m) /\ Gone(m) /\ UNCHANGED history

Crash(m) ==
  /\ "crash" \in Faults /\ spent < MaxFault
  /\ Working(m) /\ Gone(m)
  /\ met' = met \cup {"crash"} /\ spent' = spent + 1
  /\ stale' = IF \E a \in Attempt : at[a] = m /\ Running(a)
              THEN stale \cup {s \in Server \ {m} : status[s] # "down"}
              ELSE stale

AnswerSome(m) == \E a \in Attempt, yes \in BOOLEAN : Answer(m, a, yes)

Next ==
  \/ \E a \in Attempt : Handler(a)
  \/ \E w \in Worker : Finish(w)
  \/ \E m \in Server :
       \/ Click(m) \/ Start(m) \/ Activate(m) \/ Recovery(m) \/ AnswerSome(m)
       \/ Quit(m) \/ Crash(m)

Spec == Init /\ [][Next]_vars

\* A handler or a recovery that runs goes on; whoever closes s3mail starts it
\* again, and closes it again some day; a question is answered some day.
Fairness ==
  /\ \A a \in Attempt : WF_vars(Handler(a))
  /\ \A w \in Worker : WF_vars(Finish(w))
  /\ \A m \in Server : /\ WF_vars(Start(m)) /\ WF_vars(Recovery(m))
                       /\ SF_vars(AnswerSome(m)) /\ SF_vars(Quit(m))

LiveSpec == Spec /\ Fairness

-----------------------------------------------------------------------------
(* Properties. *)
\* What the marker protocol cannot make good, as far as double sends go.
NoNet == {"marker", "ses", "drop", "recopy", "list", "hasty", "elsewhere"}

\* However the program dies, and whatever fails in MarkSent, the copy or the
\* marker's removal: nobody gets the mail twice (web/send.go, RecoverSends).
NoDoubleSend == Cardinality(out) <= 1 \/ met \cap NoNet # {}

\* The marker of a mail that is out goes only when the copy is in sent/ and the
\* draft is gone - in the handler, in a recovery and on an answer alike -
\* unless the very calls that file and drop have failed.
MarkerOutlivesWork ==
  [][\A a \in out :
       marker[a] # "none" /\ marker'[a] = "none" =>
         \/ a \in sent /\ ~draft
         \/ met' \cap {"copy", "drop", "ses", "hasty"} # {}]_vars

\* Only once it is out does sent/ hold a mail, and only once one is out is the
\* draft removed: whatever is answered, recovered or interrupted, the text is not
\* lost, and nothing is filed that was never taken (store/sending.go).
OnlyAfterSending == sent \subseteq out /\ (draft \/ out # {})

\* A mail that is out gets its copy, if only at a later start.
SentIsFiled ==
  \A a \in Attempt :
    a \in out ~> a \in sent \/ met \cap {"copy", "marker", "ses", "hasty"} # {}

\* In the end there is neither a marker nor a question left, whatever failed.
Settles ==
  <>[](/\ \A a \in Attempt : marker[a] = "none"
       /\ \A m \in Server : asked[m] = {})
=============================================================================
