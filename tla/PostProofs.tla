------------------------------ MODULE PostProofs ------------------------------
(***************************************************************************)
(* Theorems about the mail that goes out and the news of mail that comes   *)
(* in: about Sending, for any number of servers, presses and faults, and   *)
(* about Watch, for any amount of mail, number of armings, length of       *)
(* channel and number of troubles.                                         *)
(***************************************************************************)
EXTENDS SendingInv, Watch, TLAPS, FiniteSetTheorems, WellFoundedInduction

-----------------------------------------------------------------------------
(* Type correctness.                                                         *)

\* The smaller-than relation on numbers, as a set of pairs.
Less == {p \in Nat \X Nat : p[1] < p[2]}

LEMMA LessIsWellFounded == IsWellFoundedOn(Less, Nat)
BY Zenon, NatLessThanWellFounded DEF OpToRel, Less

\* A set of attempts that is not empty has a first one.
LEMMA MinOfAttempts ==
  ASSUME NEW S \in SUBSET Attempt, S # {}
  PROVE  Min(S) \in S
<1>1. S \subseteq Nat
  BY DEF Attempt
<1>2. \E x \in S : \A y \in S : ~ (<<y, x>> \in Less)
  BY <1>1, LessIsWellFounded, WFMin
<1>3. \A x, y \in Nat : y < x => <<y, x>> \in Less
  BY DEF Less
<1>4. PICK x \in S : \A y \in S : ~ (<<y, x>> \in Less)
  BY <1>2
<1>5. \A y \in S : ~ (y < x)
  BY Zenon, <1>1, <1>3, <1>4
<1>6. \A y \in S : x =< y
  BY <1>1, <1>5
<1>. QED  BY <1>6, Zenon DEF Min

LEMMA InitTyped == Init => Typed
BY SendingAssumption DEF Init, Typed, TypeOK, Attempt, Worker, Marker, Step, FaultKind

\* What goes wrong is counted.
HistoryType == stale' \subseteq Server /\ met' \subseteq FaultKind /\ spent' \in 0 .. MaxFault

LEMMA FaultType ==
  ASSUME TypeOK, NEW kind, Fault(kind)
  PROVE  HistoryType /\ kind \in met' /\ met \subseteq met' /\ UNCHANGED stale
BY SendingAssumption DEF TypeOK, Fault, HistoryType

LEMMA FineType ==
  ASSUME TypeOK, Fine
  PROVE  HistoryType /\ met' = met /\ UNCHANGED stale
BY DEF TypeOK, Fine, history, HistoryType

LEMMA GotoType ==
  ASSUME TypeOK, NEW a \in Attempt, NEW step \in Step, Goto(a, step)
  PROVE  /\ pc' = [pc EXCEPT ![a] = step] /\ pc' \in [Attempt -> Step]
         /\ noted' \in [Attempt -> BOOLEAN]
BY DEF TypeOK, Goto

\* A step of a handler.
LEMMA HandlerTyped ==
  ASSUME Typed, NEW a \in Attempt, Handler(a)
  PROVE  Typed'
<1>. USE DEF Typed, TypeOK
<1>1. HistoryType /\ UNCHANGED <<at, start, finish>>
  BY FaultType, FineType DEF Handler, BeginSend, Send, Refused, MarkLook, MarkSent,
     Copy, Drop, Clear, Answered, Call, history, HistoryType
<1>2. pc' \in [Attempt -> Step] /\ noted' \in [Attempt -> BOOLEAN]
  <2>. USE DEF Step
  <2>1. BeginSend(a) => pc' \in [Attempt -> Step] /\ noted' \in [Attempt -> BOOLEAN]
    BY DEF BeginSend, Call
  <2>2. \A step \in Step : Goto(a, step) =>
          pc' \in [Attempt -> Step] /\ noted' \in [Attempt -> BOOLEAN]
    BY GotoType
  <2>. QED  BY <2>1, <2>2 DEF Handler, Send, Refused, MarkLook, MarkSent,
               Copy, Drop, Clear, Answered, NextStep
<1>3. /\ marker' \in [Attempt -> Marker] /\ sent' \subseteq Attempt
      /\ draft' \in BOOLEAN /\ out' \subseteq Attempt
  BY ZenonT(30) DEF Handler, BeginSend, Send, Refused, MarkLook, MarkSent, Copy, Drop, Clear,
     Answered, Call, PutMarker, Marked, Marker, bucket
<1>4. told' \in {"nothing", "failed", "sent"}
  BY DEF Handler, BeginSend, Send, Refused, MarkLook, MarkSent, Copy, Drop, Clear,
     Answered
<1>. QED  BY <1>1, <1>2, <1>3, <1>4 DEF start, finish, HistoryType

\* A step of finishSent.
LEMMA FinishTyped ==
  ASSUME Typed, NEW w \in Worker, Finish(w)
  PROVE  Typed'
<1>. USE DEF Typed, TypeOK
<1>1. HistoryType
  BY FaultType, FineType DEF Finish, FinishCopy, FinishDrop, FinishClear, Call
<1>2. w[1] \in Server /\ fin[w] # "idle" /\ which[w] \in Attempt
  BY DEF Worker, Finish, FinishCopy, FinishDrop, FinishClear
<1>3. /\ fin' \in [Worker -> {"idle", "copy", "drop", "clear"}]
      /\ which' \in [Worker -> Attempt \cup {0}]
      /\ \A v \in Worker : fin'[v] # "idle" => which'[v] \in Attempt
  BY ZenonT(30), <1>2 DEF Finish, FinishCopy, FinishDrop, FinishClear, Call, FinishNext, Idle
<1>4. /\ marker' \in [Attempt -> Marker] /\ sent' \subseteq Attempt
      /\ draft' \in BOOLEAN /\ UNCHANGED <<out, handler>>
  <2>1. FinishCopy(w) => /\ sent' \subseteq Attempt
                         /\ UNCHANGED <<marker, draft, out, handler>>
    BY <1>2 DEF FinishCopy, Call
  <2>2. FinishDrop(w) => /\ draft' \in BOOLEAN
                         /\ UNCHANGED <<marker, sent, out, handler>>
    BY DEF FinishDrop, Call
  <2>3. FinishClear(w) => /\ marker' \in [Attempt -> Marker]
                          /\ UNCHANGED <<sent, draft, out, handler>>
    BY <1>2 DEF FinishClear, Call, PutMarker, Marker
  <2>. QED  BY <2>1, <2>2, <2>3 DEF Finish
<1>5. /\ asked' \in [Server -> SUBSET Attempt]
      /\ UNCHANGED <<status, rec, keys, todo, ask>>
  BY <1>2 DEF Finish, FinishCopy, FinishDrop, FinishClear, Call, Dropped, start
<1>. QED  BY <1>1, <1>3, <1>4, <1>5 DEF handler, HistoryType

\* A step of RecoverSends.
LEMMA RecoveryTyped ==
  ASSUME Typed, NEW m \in Server, Recovery(m)
  PROVE  Typed'
<1>. USE DEF Typed, TypeOK
<1>1. HistoryType /\ UNCHANGED <<bucket, out, handler>>
  BY FaultType, FineType DEF Recovery, RecoverList, RecoverRead, RecoverFinish,
     RecoverDone, history, HistoryType
<1>2. /\ status' \in [Server -> {"down", "starting", "up"}]
      /\ rec' \in [Server -> {"off", "list", "work"}]
      /\ asked' \in [Server -> SUBSET Attempt]
  BY SMTT(30) DEF Recovery, RecoverList, RecoverRead, RecoverFinish, RecoverDone
<1>3. CASE RecoverList(m)
  BY <1>1, <1>2, <1>3 DEF RecoverList, Markers, bucket, handler, finish, HistoryType
<1>4. ASSUME NEW a \in Attempt, RecoverRead(m, a) PROVE Typed'
  <2>1. ask' \in [Server -> SUBSET Attempt] /\ todo' \in [Server -> SUBSET Attempt]
    BY SMTT(30), <1>4 DEF RecoverRead
  <2>. QED  BY ZenonT(30), <1>1, <1>2, <1>4, <2>1
            DEF RecoverRead, bucket, handler, finish, HistoryType
<1>5. CASE RecoverFinish(m)
  <2>1. Min(todo[m]) \in Attempt /\ <<m, "start">> \in Worker
    BY <1>5, MinOfAttempts DEF RecoverFinish, Worker
  <2>2. /\ fin' = [fin EXCEPT ![<<m, "start">>] = "copy"]
        /\ which' = [which EXCEPT ![<<m, "start">>] = Min(todo[m])]
        /\ todo' \in [Server -> SUBSET Attempt]
        /\ UNCHANGED <<keys, ask>>
    BY <1>5 DEF RecoverFinish, FinishFirst
  <2>. QED  BY <1>1, <1>2, <2>1, <2>2 DEF bucket, handler, HistoryType
<1>6. CASE RecoverDone(m)
  BY <1>1, <1>2, <1>6 DEF RecoverDone, bucket, handler, finish, HistoryType
<1>. QED  BY <1>3, <1>4, <1>5, <1>6 DEF Recovery

\* A process ends.
LEMMA GoneTyped ==
  ASSUME Typed, NEW m \in Server, Gone(m), HistoryType
  PROVE  Typed'
<1>. USE DEF Typed, TypeOK, Gone
<1>1. pc' \in [Attempt -> Step] /\ noted' \in [Attempt -> BOOLEAN]
  BY DEF Step
<1>2. /\ status' \in [Server -> {"down", "starting", "up"}]
      /\ rec' \in [Server -> {"off", "list", "work"}]
      /\ asked' \in [Server -> SUBSET Attempt] /\ keys' \in [Server -> SUBSET Attempt]
      /\ todo' \in [Server -> SUBSET Attempt] /\ ask' \in [Server -> SUBSET Attempt]
  OBVIOUS
<1>3. /\ fin' \in [Worker -> {"idle", "copy", "drop", "clear"}]
      /\ which' \in [Worker -> Attempt \cup {0}]
      /\ \A w \in Worker : fin'[w] # "idle" => which'[w] \in Attempt
  OBVIOUS
<1>. QED  BY <1>1, <1>2, <1>3 DEF bucket, HistoryType

LEMMA ServerTyped ==
  ASSUME Typed, NEW m \in Server,
         Click(m) \/ Start(m) \/ Activate(m) \/ AnswerSome(m) \/ Quit(m) \/ Crash(m)
  PROVE  Typed'
<1>. USE DEF Typed, TypeOK
<1>1. CASE Click(m)
  <2>1. PICK a \in Attempt : Goto(a, "begin") /\ at' = [at EXCEPT ![a] = m]
    BY <1>1 DEF Click
  <2>2. pc' \in [Attempt -> Step] /\ noted' \in [Attempt -> BOOLEAN]
    BY <2>1, GotoType DEF Step
  <2>3. HistoryType
    BY <1>1, FaultType, FineType DEF Click
  <2>. QED  BY <1>1, <2>1, <2>2, <2>3 DEF Click, bucket, start, finish, HistoryType
<1>2. CASE Start(m)
  BY <1>2 DEF Start, bucket, handler, finish, history
<1>3. CASE Activate(m)
  BY <1>3, FaultType DEF Activate, bucket, handler, finish, HistoryType
<1>4. ASSUME NEW a \in Attempt, NEW yes \in BOOLEAN, Answer(m, a, yes) PROVE Typed'
  <2>1. <<m, "answer">> \in Worker /\ Resolve(yes) \in {"idle", "copy", "drop", "clear"}
    BY DEF Worker, Resolve, FinishFirst
  <2>2. HistoryType
    BY <1>4, FaultType, FineType DEF Answer
  <2>. QED  BY <1>4, <2>1, <2>2 DEF Answer, bucket, handler, start, HistoryType
<1>5. CASE Quit(m)
  BY <1>5, GoneTyped DEF Quit, history, HistoryType
<1>6. CASE Crash(m)
  <2>1. HistoryType
    BY <1>6, SendingAssumption DEF Crash, HistoryType, FaultKind
  <2>. QED  BY <1>6, <2>1, GoneTyped DEF Crash
<1>. QED  BY <1>1, <1>2, <1>3, <1>4, <1>5, <1>6 DEF AnswerSome

LEMMA NextTyped == Typed /\ [Next]_vars => Typed'
<1>1. Typed /\ UNCHANGED vars => Typed'
  BY DEF Typed, TypeOK, vars, bucket, handler, start, finish, history
<1>. QED  BY <1>1, HandlerTyped, FinishTyped, RecoveryTyped, ServerTyped DEF Next

\* Every variable keeps its type, however many servers and presses there are and
\* whatever fails; a finishSent under way always has a marker to finish.
THEOREM TypeCorrect == Spec => []TypeOK
<1>1. Typed => TypeOK
  BY DEF Typed
<1>. QED  BY InitTyped, NextTyped, <1>1, PTL DEF Spec

-----------------------------------------------------------------------------
(* What may be filed, and when a marker goes.                                *)

Fewer == met \subseteq met' /\ out \subseteq out' /\ sent \subseteq sent'
           /\ (draft' => draft)

\* Nothing that SES took or sent/ holds is taken back, and no draft comes back.
LEMMA Monotone ==
  ASSUME Typed, [Next]_vars
  PROVE  Fewer
<1>. USE DEF Fewer
<1>f. (\A kind \in FaultKind : Fault(kind) => met \subseteq met') /\ (Fine => met' = met)
  BY DEF Fault, Fine, history
<1>1. ASSUME NEW a \in Attempt, Handler(a) PROVE Fewer
  BY <1>1, <1>f DEF Handler, BeginSend, Send, Refused, MarkLook, MarkSent, Copy, Drop,
     Clear, Answered, Call, bucket, history, FaultKind
<1>2. ASSUME NEW w \in Worker, Finish(w) PROVE Fewer
  <2>1. FinishCopy(w) => Fewer
    BY <1>f DEF FinishCopy, Call, FaultKind
  <2>2. FinishDrop(w) => Fewer
    BY <1>f DEF FinishDrop, Call, FaultKind
  <2>3. FinishClear(w) => Fewer
    BY <1>f DEF FinishClear, Call, FaultKind
  <2>. QED  BY <1>2, <2>1, <2>2, <2>3 DEF Finish
<1>3. ASSUME NEW m \in Server, Recovery(m) PROVE Fewer
  BY <1>3, <1>f DEF Recovery, RecoverList, RecoverRead, RecoverFinish, RecoverDone,
     bucket, history, FaultKind
<1>4. ASSUME NEW m \in Server,
             Click(m) \/ Start(m) \/ Activate(m) \/ AnswerSome(m) \/ Quit(m) \/ Crash(m)
      PROVE  Fewer
  BY <1>4, <1>f DEF Click, Start, Activate, AnswerSome, Answer, Quit, Crash, Gone,
     bucket, history, FaultKind
<1>5. CASE UNCHANGED vars
  BY <1>5 DEF vars, bucket, history
<1>. QED  BY <1>1, <1>2, <1>3, <1>4, <1>5 DEF Next

FilingParts == Accepted /\ Finished /\ OnlyAfterSending

LEMMA InitFiling == Init => FilingInv
BY InitTyped DEF Init, FilingInv, Accepted, Finished, OnlyAfterSending, BeforeSes,
   AfterSes

\* The steps of the handler, in their order.
LEMMA HandlerFiling ==
  ASSUME FilingInv, NEW a \in Attempt, Handler(a), Fewer
  PROVE  FilingParts'
<1>. USE DEF FilingInv, FilingParts, Typed, TypeOK, Accepted, Finished,
             OnlyAfterSending, BeforeSes, AfterSes, Filed, Fewer
<1>1. CASE BeginSend(a)
  BY <1>1 DEF BeginSend, Call, PutMarker, Fine, history, Fault, start, finish
<1>2. CASE Send(a)
  BY <1>2 DEF Send, Goto, NextStep, Fine, history, Fault, start, finish, bucket
<1>3. CASE Refused(a)
  BY <1>3 DEF Refused, Goto, Call, PutMarker, Fine, history, Fault, start, finish
<1>4. CASE MarkLook(a)
  BY <1>4 DEF MarkLook, Goto, NextStep, Fine, history, Fault, start, finish, bucket
<1>5. CASE MarkSent(a)
  BY <1>5 DEF MarkSent, Goto, NextStep, Call, PutMarker, Marked, Fine, history,
     Fault, start, finish
<1>6. CASE Copy(a)
  BY <1>6 DEF Copy, Goto, NextStep, Call, Fine, history, Fault, start, finish
<1>7. CASE Drop(a)
  BY ZenonT(30), <1>7 DEF Drop, Goto, NextStep, Call, Fine, history, Fault, start, finish
<1>8. CASE Clear(a)
  BY <1>8 DEF Clear, Goto, NextStep, Call, PutMarker, Fine, history, Fault, start,
     finish
<1>9. CASE Answered(a)
  BY <1>9 DEF Answered, Goto, history, start, finish, bucket
<1>. QED  BY <1>1, <1>2, <1>3, <1>4, <1>5, <1>6, <1>7, <1>8, <1>9, Zenon DEF Handler

\* finishSent takes the marker away last.
LEMMA FinishFiling ==
  ASSUME FilingInv, NEW w \in Worker, Finish(w), Fewer
  PROVE  FilingParts'
<1>. USE DEF FilingInv, FilingParts, Typed, TypeOK, Accepted, Finished,
             OnlyAfterSending, BeforeSes, AfterSes, Filed, Fewer
<1>1. CASE FinishCopy(w)
  BY <1>1 DEF FinishCopy, Call, FinishNext, Idle, Fine, history, Fault, handler, start
<1>2. CASE FinishDrop(w)
  BY ZenonT(30), <1>2 DEF FinishDrop, Call, FinishNext, Fine, history, Fault, handler, start
<1>3. CASE FinishClear(w)
  BY <1>3 DEF FinishClear, Call, PutMarker, Idle, Fine, history, Fault, handler
<1>. QED  BY <1>1, <1>2, <1>3, Zenon DEF Finish

\* Only a marker that says "out" is finished without a question.
LEMMA RecoveryFiling ==
  ASSUME FilingInv, NEW m \in Server, Recovery(m), Fewer
  PROVE  FilingParts'
<1>. USE DEF FilingInv, FilingParts, Typed, TypeOK, Accepted, Finished,
             OnlyAfterSending, BeforeSes, AfterSes, Filed, Fewer
<1>1. CASE RecoverList(m)
  BY <1>1 DEF RecoverList, bucket, handler, finish
<1>2. ASSUME NEW a \in Attempt, RecoverRead(m, a) PROVE FilingParts'
  BY <1>2 DEF RecoverRead, bucket, handler, finish
<1>3. CASE RecoverFinish(m)
  <2>1. Min(todo[m]) \in todo[m] /\ <<m, "start">> \in Worker
    BY <1>3, MinOfAttempts DEF RecoverFinish, Worker
  <2>. QED  BY <1>3, <2>1 DEF RecoverFinish, FinishFirst, bucket, handler, history
<1>4. CASE RecoverDone(m)
  BY <1>4 DEF RecoverDone, bucket, handler, finish, history
<1>. QED  BY <1>1, <1>2, <1>3, <1>4, Zenon DEF Recovery

\* "It did not go out" is said of a mail whose handler is over.
LEMMA ServerFiling ==
  ASSUME FilingInv, NEW m \in Server, Fewer,
         Click(m) \/ Start(m) \/ Activate(m) \/ AnswerSome(m) \/ Quit(m) \/ Crash(m)
  PROVE  FilingParts'
<1>. USE DEF FilingInv, FilingParts, Typed, TypeOK, Accepted, Finished,
             OnlyAfterSending, BeforeSes, AfterSes, Filed, Fewer
<1>1. CASE Click(m)
  BY <1>1 DEF Click, Goto, bucket, start, finish
<1>2. CASE Start(m) \/ Activate(m)
  BY <1>2 DEF Start, Activate, bucket, handler, finish
<1>3. ASSUME NEW a \in Attempt, NEW yes \in BOOLEAN, Answer(m, a, yes)
      PROVE  FilingParts'
  <2>1. <<m, "answer">> \in Worker
    BY DEF Worker
  <2>2. ~yes => \/ Running(a) /\ "hasty" \in met'
                \/ ~Running(a)
    BY <1>3 DEF Answer, Fault
  <2>3. ~yes => pc[a] = "over" \/ "hasty" \in met'
    BY <1>3, <2>2 DEF Answer, Running
  <2>. QED  BY <1>3, <2>1, <2>3 DEF Answer, Resolve, FinishFirst, bucket, handler, start
<1>4. CASE Gone(m)
  BY <1>4 DEF Gone, Running, bucket
<1>. QED  BY <1>1, <1>2, <1>3, <1>4, Zenon DEF AnswerSome, Quit, Crash

LEMMA NextFiling == FilingInv /\ [Next]_vars => FilingInv'
<1>1. FilingInv /\ UNCHANGED vars => FilingInv'
  BY DEF FilingInv, Typed, TypeOK, Accepted, Finished, OnlyAfterSending, Filed,
     vars, bucket, handler, start, finish, history
<1>2. FilingInv /\ Next => FilingParts'
  BY Monotone, HandlerFiling, FinishFiling, RecoveryFiling, ServerFiling
     DEF Next, FilingInv
<1>. QED  BY <1>1, <1>2, NextTyped DEF FilingInv, FilingParts

\* sent/ holds no mail that SES did not take, and the draft is removed only for
\* one that is out: no crash, fault, recovery or answer loses the text.
THEOREM NothingFiledUnsent == Spec => []OnlyAfterSending
<1>1. FilingInv => OnlyAfterSending
  BY DEF FilingInv
<1>. QED  BY InitFiling, NextFiling, <1>1, PTL DEF Spec

\* Nobody but its handler, a finishSent or a failed call takes a marker away.
LEMMA MarkerGoes ==
  ASSUME FilingInv, [Next]_vars, NEW a \in out, marker[a] # "none", marker'[a] = "none"
  PROVE  \/ a \in sent /\ ~draft
         \/ met' \cap {"copy", "drop", "ses", "hasty"} # {}
<1>. USE DEF FilingInv, Typed, TypeOK, Filed, Fewer
<1>1. Fewer
  BY Monotone
<1>2. CASE Refused(a) \/ Clear(a)
  BY <1>1, <1>2 DEF Refused, Clear, Accepted, Finished
<1>3. ASSUME NEW w \in Worker, FinishClear(w), which[w] = a
      PROVE  \/ a \in sent /\ ~draft
             \/ met' \cap {"copy", "drop", "ses", "hasty"} # {}
  BY <1>1, <1>3 DEF FinishClear, Finished
<1>4. ASSUME NEW b \in Attempt, Handler(b), ~(b = a /\ (Refused(a) \/ Clear(a)))
      PROVE  FALSE
  BY <1>4 DEF Handler, BeginSend, Send, Refused, MarkLook, MarkSent, Copy, Drop, Clear,
     Answered, Call, PutMarker, Marked, bucket
<1>5. ASSUME NEW w \in Worker, Finish(w), ~(FinishClear(w) /\ which[w] = a)
      PROVE  FALSE
  BY <1>5 DEF Finish, FinishCopy, FinishDrop, FinishClear, Call, PutMarker
<1>6. ASSUME NEW m \in Server,
             \/ Click(m) \/ Start(m) \/ Activate(m) \/ Recovery(m) \/ AnswerSome(m)
             \/ Quit(m) \/ Crash(m)
      PROVE  FALSE
  BY <1>6 DEF Click, Start, Activate, Recovery, RecoverList, RecoverRead, RecoverFinish,
     RecoverDone, AnswerSome, Answer, Quit, Crash, Gone, bucket
<1>. QED  BY <1>2, <1>3, <1>4, <1>5, <1>6 DEF Next, vars, bucket

\* The marker of a mail that is out outlives the work it stands for: it goes only
\* when the copy is in sent/ and the draft is gone, unless just these calls failed.
THEOREM MarkersOutliveWork == Spec => MarkerOutlivesWork
<1>1. FilingInv /\ [Next]_vars =>
        [\A a \in out : marker[a] # "none" /\ marker'[a] = "none" =>
           \/ a \in sent /\ ~draft
           \/ met' \cap {"copy", "drop", "ses", "hasty"} # {}]_vars
  BY MarkerGoes
<1>. QED  BY InitFiling, NextFiling, <1>1, PTL DEF Spec, MarkerOutlivesWork

-----------------------------------------------------------------------------
(* Nobody gets the mail twice.                                               *)

\* What is assumed of a step in which nothing goes wrong that the marker does
\* not make good.
Safe == FilingInv /\ FilingInv' /\ DownIsIdle /\ Fewer /\ Netted /\ met' \cap NoNet = {}

LEMMA InitOnce == Init => OnceInv
BY InitFiling, ZenonT(30) DEF Init, OnceInv, DownIsIdle, Netted, Guarded, OneAtATime, Running

\* A handler's steps, while the draft is there, leave its mail guarded.
LEMMA HandlerNetted ==
  ASSUME Safe, NEW a \in Attempt, Handler(a)
  PROVE  Netted'
<1>. USE DEF Safe, FilingInv, Typed, TypeOK, Netted, OneAtATime, Running, NoNet, Fewer
<1>1. UNCHANGED <<start, finish, stale>> /\ \A b \in Attempt \ {a} : pc'[b] = pc[b]
  BY DEF Handler, BeginSend, Send, Refused, MarkLook, MarkSent, Copy, Drop, Clear,
     Answered, Call, Goto, Fault, Fine, history
<1>2. \A m \in Server, b \in Attempt : Knows(m, b)' <=> Knows(m, b)
  BY <1>1 DEF Knows, start, finish
<1>3. \A b \in Attempt \ {a} : draft /\ Guarded(b) /\ b \notin out' \ out
         /\ marker'[b] = marker[b] => Guarded(b)'
  BY <1>1, <1>2 DEF Guarded, start
<1>. USE DEF Accepted, BeforeSes, AfterSes
<1>4. CASE BeginSend(a)
  <2>1. /\ marker' = [marker EXCEPT ![a] = "open"] /\ pc' = [pc EXCEPT ![a] = "ses"]
        /\ UNCHANGED <<draft, out>> /\ pc[a] = "begin"
    BY <1>4 DEF BeginSend, Call, PutMarker, Fault
  <2>2. OneAtATime'
    BY <2>1
  <2>. QED  BY <1>3, <2>1, <2>2 DEF Guarded
<1>5. CASE Send(a)
  <2>1. /\ UNCHANGED bucket /\ pc[a] = "ses"
        /\ \/ /\ out' = out \cup {a} /\ pc' = [pc EXCEPT ![a] = "look"]
           \/ /\ out' = out \cup {a} /\ pc' = [pc EXCEPT ![a] = "copy"]
           \/ /\ out' = out /\ pc' = [pc EXCEPT ![a] = "refused"]
    BY <1>5 DEF Send, Goto, NextStep, Fault
  <2>2. \A b \in out : b = a
    BY <2>1
  <2>3. \A b \in Attempt : Running(b) => b = a
    BY <2>1
  <2>4. /\ \A b \in out' : b = a
        /\ \A b \in Attempt : Running(b)' => b = a
    BY <1>1, <2>1, <2>2, <2>3
  <2>5. OneAtATime'
    BY <2>4
  <2>. QED  BY <1>3, <2>1, <2>5 DEF Guarded, bucket
<1>6. CASE Refused(a)
  BY <1>1, <1>3, <1>6 DEF Refused, Goto, Call, PutMarker, Fault, Guarded
<1>7. CASE MarkLook(a)
  <2>1. /\ UNCHANGED <<bucket, out>> /\ pc[a] = "look"
        /\ \E step \in {"mark", "copy"} : pc' = [pc EXCEPT ![a] = step]
    BY <1>7 DEF MarkLook, Goto, NextStep
  <2>2. OneAtATime'
    BY <2>1
  <2>. QED  BY <1>3, <2>1, <2>2 DEF Guarded, bucket
<1>8. CASE MarkSent(a)
  BY <1>1, <1>3, <1>8 DEF MarkSent, Goto, NextStep, Call, PutMarker, Marked, Fault, Guarded
<1>9. CASE Copy(a)
  BY <1>1, <1>3, <1>9 DEF Copy, Goto, NextStep, Call, Fault, Guarded
<1>10. CASE Drop(a)
  BY <1>1, <1>3, <1>10 DEF Drop, Goto, NextStep, Call, Fault, Guarded
<1>11. CASE Clear(a)
  BY <1>1, <1>3, <1>11 DEF Clear, Goto, NextStep, Call, PutMarker, Fault, Guarded
<1>12. CASE Answered(a)
  BY <1>1, <1>3, <1>12 DEF Answered, Goto, Guarded, bucket
<1>. QED  BY <1>4, <1>5, <1>6, <1>7, <1>8, <1>9, <1>10, <1>11, <1>12, Zenon DEF Handler

\* A finishSent that removes a marker leaves no draft that could go out again.
LEMMA FinishNetted ==
  ASSUME Safe, NEW w \in Worker, Finish(w)
  PROVE  Netted'
<1>. USE DEF Safe, FilingInv, Typed, TypeOK, Netted, OneAtATime, Running, NoNet, Fewer
<1>1. UNCHANGED <<out, pc, status, rec, keys, todo, ask, stale>>
  BY DEF Finish, FinishCopy, FinishDrop, FinishClear, Call, Fault, Fine, history,
     handler, start
<1>2. CASE ~draft'
  BY <1>1, <1>2
<1>3. CASE draft' /\ FinishCopy(w)
  <2>1. /\ fin' = [fin EXCEPT ![w] = "drop"] /\ fin[w] = "copy"
        /\ UNCHANGED <<which, marker, asked>>
    BY <1>3 DEF FinishCopy, Call, FinishNext, Fault, start
  <2>2. \A m \in Server, a \in Attempt : Knows(m, a) => Knows(m, a)'
    BY <1>1, <2>1 DEF Knows, Worker
  <2>. QED  BY <1>1, <1>3, <2>1, <2>2 DEF Guarded
<1>4. CASE draft' /\ FinishDrop(w)
  BY <1>4 DEF FinishDrop, Call, Fault
<1>5. CASE draft' /\ FinishClear(w)
  <2>. DEFINE b == which[w]
  <2>1. b \notin out /\ pc[b] = "over" /\ b \in Attempt
    BY <1>5 DEF FinishClear, Finished, Filed
  <2>2. /\ \A a \in Attempt \ {b} : marker'[a] = marker[a]
        /\ \A m \in Server : asked[m] \ {b} \subseteq asked'[m]
        /\ \A v \in Worker \ {w} : fin'[v] = fin[v] /\ which'[v] = which[v]
        /\ fin[w] = "clear"
    BY SMTT(30), <1>5, <2>1 DEF FinishClear, Call, PutMarker, Dropped, Idle
  <2>3. \A m \in Server, a \in Attempt \ {b} : Knows(m, a) => Knows(m, a)'
    BY <1>1, <2>2 DEF Knows, Worker
  <2>. QED  BY <1>1, <1>5, <2>1, <2>2, <2>3 DEF Guarded
<1>. QED  BY <1>2, <1>3, <1>4, <1>5, Zenon DEF Finish

\* A recovery never forgets a marker it has listed.
LEMMA RecoveryNetted ==
  ASSUME Safe, NEW m \in Server, Recovery(m)
  PROVE  Netted'
<1>. USE DEF Safe, FilingInv, Typed, TypeOK, Netted, OneAtATime, Running, NoNet, Fewer
<1>1. UNCHANGED <<marker, sent, draft, out, pc>>
  BY DEF Recovery, RecoverList, RecoverRead, RecoverFinish, RecoverDone, bucket, handler
<1>. SUFFICES ASSUME draft, NEW a \in Attempt, a \in out, pc[a] = "over",
                     NEW s \in Server, status'[s] # "down", s \notin stale'
              PROVE  Knows(s, a)'
  BY <1>1 DEF Guarded
<1>2. marker[a] # "none"
  BY DEF Guarded
<1>3. status[s] = "down" \/ s \in stale \/ Knows(s, a)
  BY DEF Guarded
<1>4. CASE RecoverList(m)
  <2>1. UNCHANGED <<asked, fin, which, todo, ask>>
    BY <1>4 DEF RecoverList, finish
  <2>2. /\ keys' = [keys EXCEPT ![m] = Markers] /\ rec' = [rec EXCEPT ![m] = "work"]
        /\ stale' = stale \ {m} /\ UNCHANGED status
    BY <1>4 DEF RecoverList, Fault
  <2>3. a \in Markers
    BY <1>2 DEF Markers
  <2>4. CASE s = m
    BY <2>2, <2>3, <2>4 DEF Knows
  <2>5. CASE s # m
    BY <1>3, <2>1, <2>2, <2>5 DEF Knows
  <2>. QED  BY <2>4, <2>5
<1>5. ASSUME NEW b \in Attempt, RecoverRead(m, b) PROVE Knows(s, a)'
  <2>1. /\ ask' = [ask EXCEPT ![m] = @ \cup {c \in {b} : Undecided(c)}]
        /\ todo' = [todo EXCEPT ![m] = @ \cup {c \in {b} : marker[c] = "out"}]
        /\ keys' = [keys EXCEPT ![m] = @ \ {b}] /\ rec[m] = "work"
        /\ UNCHANGED <<stale, status, asked, rec, fin, which>>
    BY <1>5 DEF RecoverRead, Fine, Fault, history, finish
  <2>2. Knows(s, a)
    BY <1>3, <2>1
  <2>3. marker[a] \in {"open", "out"}
    BY <1>2 DEF Marker
  <2>. QED  BY <2>1, <2>2, <2>3 DEF Knows, Undecided
<1>6. CASE RecoverFinish(m)
  <2>1. <<m, "start">> \in Worker
    BY DEF Worker
  <2>2. /\ fin' = [fin EXCEPT ![<<m, "start">>] = "copy"]
        /\ which' = [which EXCEPT ![<<m, "start">>] = Min(todo[m])]
        /\ todo' = [todo EXCEPT ![m] = @ \ {Min(todo[m])}]
        /\ fin[<<m, "start">>] = "idle" /\ rec[m] = "work"
        /\ UNCHANGED <<stale, status, asked, rec, keys, ask>>
    BY <1>6 DEF RecoverFinish, FinishFirst, history
  <2>3. Knows(s, a)
    BY <1>3, <2>2
  <2>4. CASE s = m
    BY <2>1, <2>2, <2>3, <2>4 DEF Knows
  <2>5. CASE s # m
    BY <2>1, <2>2, <2>3, <2>5 DEF Knows, Worker
  <2>. QED  BY <2>4, <2>5
<1>7. CASE RecoverDone(m)
  <2>1. /\ asked' = [asked EXCEPT ![m] = ask[m]] /\ ask' = [ask EXCEPT ![m] = {}]
        /\ rec' = [rec EXCEPT ![m] = "off"] /\ rec[m] = "work"
        /\ keys[m] = {} /\ todo[m] = {} /\ fin[<<m, "start">>] = "idle"
        /\ status' = [status EXCEPT ![m] = "up"]
        /\ UNCHANGED <<stale, keys, todo, fin, which>>
    BY <1>7 DEF RecoverDone, finish, history
  <2>2. CASE s = m
    BY <1>3, <2>1, <2>2 DEF Knows, DownIsIdle
  <2>3. CASE s # m
    BY <1>3, <2>1, <2>3 DEF Knows
  <2>. QED  BY <2>2, <2>3
<1>. QED  BY <1>4, <1>5, <1>6, <1>7, Zenon DEF Recovery

\* A press on "send" in a window that asks nothing finds no mail out; a process
\* that dies leaves nobody behind who thinks he knows.
LEMMA ServerNetted ==
  ASSUME Safe, NEW m \in Server,
         Click(m) \/ Start(m) \/ Activate(m) \/ AnswerSome(m) \/ Quit(m) \/ Crash(m)
  PROVE  Netted'
<1>. USE DEF Safe, FilingInv, Typed, TypeOK, Netted, OneAtATime, Running, NoNet, Fewer
<1>1. CASE Click(m)
  <2>1. PICK a \in Attempt : Goto(a, "begin") /\ pc[a] = "unused"
    BY <1>1 DEF Click
  <2>2. /\ status[m] = "up" /\ rec[m] = "off" /\ asked[m] = {} /\ draft
        /\ m \notin stale /\ UNCHANGED <<bucket, out, start, finish, stale>>
        /\ \A b \in Attempt : ~Running(b)
    BY <1>1 DEF Click, Fault, Fine, history
  <2>3. ASSUME NEW b \in out PROVE FALSE
    <3>1. pc[b] = "over"
      BY <2>2 DEF Accepted, BeforeSes
    <3>2. Knows(m, b)
      BY <2>2, <3>1 DEF Guarded
    <3>. QED  BY <2>2, <3>2 DEF Knows
  <2>4. pc' = [pc EXCEPT ![a] = "begin"]
    BY <2>1 DEF Goto
  <2>5. \A b \in Attempt : pc'[b] \in {"unused", "over", "begin"}
    BY <2>2, <2>4 DEF Step
  <2>6. \A b \in Attempt : Guarded(b)'
    BY <2>2, <2>3, <2>5 DEF Guarded
  <2>. QED  BY <2>2, <2>3, <2>4, <2>5, <2>6
<1>2. CASE Start(m) \/ Activate(m)
  <2>1. /\ rec' = [rec EXCEPT ![m] = "list"]
        /\ \A s \in Server \ {m} : status'[s] = status[s]
        /\ UNCHANGED <<marker, sent, draft, out, pc, asked, keys, todo, ask, fin,
                       which, stale>>
    BY <1>2 DEF Start, Activate, Fault, bucket, handler, finish, history
  <2>2. \A s \in Server, a \in Attempt : s = m \/ Knows(s, a) => Knows(s, a)'
    BY <2>1 DEF Knows
  <2>. QED  BY <2>1, <2>2 DEF Guarded
<1>3. ASSUME NEW a \in Attempt, NEW yes \in BOOLEAN, Answer(m, a, yes)
      PROVE  Netted'
  <2>1. /\ fin' = [fin EXCEPT ![<<m, "answer">>] = Resolve(yes)]
        /\ which' = [which EXCEPT ![<<m, "answer">>] = a]
        /\ UNCHANGED <<marker, sent, draft, out, pc, start, stale>>
    BY <1>3 DEF Answer, Fault, Fine, bucket, handler, history
  <2>2. \A s \in Server : /\ fin'[<<s, "start">>] = fin[<<s, "start">>]
                          /\ which'[<<s, "start">>] = which[<<s, "start">>]
    BY <2>1 DEF Worker
  <2>3. \A s \in Server, b \in Attempt : Knows(s, b) => Knows(s, b)'
    BY <2>1, <2>2 DEF Knows, start
  <2>. QED  BY <2>1, <2>3 DEF Guarded, start
<1>4. CASE Quit(m) \/ Crash(m)
  <2>1. /\ status' = [status EXCEPT ![m] = "down"]
        /\ \A a \in Attempt : pc'[a] = IF at[a] = m /\ Running(a) THEN "over" ELSE pc[a]
        /\ UNCHANGED <<marker, sent, draft, out>>
    BY <1>4 DEF Quit, Crash, Gone, bucket
  <2>2. \A s \in Server \ {m}, a \in Attempt : Knows(s, a) => Knows(s, a)'
    BY <1>4 DEF Quit, Crash, Gone, Knows, Worker
  <2>3. /\ stale \subseteq stale'
        /\ \A a \in Attempt : at[a] = m /\ Running(a) =>
             \A s \in Server : status'[s] = "down" \/ s \in stale'
    <3>1. CASE Quit(m)
      BY <3>1 DEF Quit, Working, history
    <3>2. CASE Crash(m)
      BY <2>1, <3>2 DEF Crash
    <3>. QED  BY <1>4, <3>1, <3>2
  <2>4. ASSUME draft, NEW a \in Attempt PROVE Guarded(a)'
    <3>1. pc'[a] \in {"ses", "look", "mark", "copy", "drop"} => marker'[a] # "none"
      BY <2>1, <2>4 DEF Guarded
    <3>2. CASE at[a] = m /\ Running(a)
      <4>1. a \in out => pc[a] \in {"look", "mark", "copy", "drop"}
        BY <2>4, <3>2 DEF Accepted, BeforeSes, AfterSes, Step
      <4>2. a \in out => marker'[a] # "none"
        BY <2>1, <2>4, <4>1 DEF Guarded
      <4>. QED  BY <2>1, <2>3, <3>1, <3>2, <4>2 DEF Guarded
    <3>3. CASE ~(at[a] = m /\ Running(a))
      <4>1. a \in out /\ pc'[a] = "over" =>
              /\ marker'[a] # "none"
              /\ \A s \in Server : status[s] = "down" \/ s \in stale \/ Knows(s, a)
        BY <2>1, <2>4, <3>3 DEF Guarded
      <4>2. ASSUME NEW s \in Server,
                   status[s] = "down" \/ s \in stale \/ Knows(s, a)
            PROVE  status'[s] = "down" \/ s \in stale' \/ Knows(s, a)'
        BY <2>1, <2>2, <2>3, <4>2
      <4>. QED  BY <2>1, <3>1, <4>1, <4>2, Zenon DEF Guarded
    <3>. QED  BY <3>2, <3>3
  <2>5. \A a \in Attempt : Running(a)' => Running(a)
    BY <2>1
  <2>6. OneAtATime'
    BY <2>1, <2>5
  <2>7. \A a \in Attempt : pc'[a] \in {"clear", "answer"} => ~draft'
    BY <2>1
  <2>. QED  BY <2>1, <2>4, <2>6, <2>7, Zenon
<1>. QED  BY <1>1, <1>2, <1>3, <1>4, ZenonT(30) DEF AnswerSome

LEMMA NextDownIsIdle ==
  ASSUME Typed, DownIsIdle, [Next]_vars
  PROVE  DownIsIdle'
<1>. USE DEF DownIsIdle, Typed, TypeOK
<1>1. ASSUME UNCHANGED start PROVE DownIsIdle'
  BY <1>1 DEF start
<1>2. ASSUME NEW a \in Attempt, Handler(a) PROVE DownIsIdle'
  BY <1>1, <1>2 DEF Handler, BeginSend, Send, Refused, MarkLook, MarkSent, Copy, Drop,
     Clear, Answered
<1>3. ASSUME NEW w \in Worker, Finish(w) PROVE DownIsIdle'
  BY <1>3 DEF Finish, FinishCopy, FinishDrop, FinishClear, start
<1>4. ASSUME NEW m \in Server, Recovery(m) PROVE DownIsIdle'
  BY <1>4 DEF Recovery, RecoverList, RecoverRead, RecoverFinish, RecoverDone
<1>5. ASSUME NEW m \in Server,
             Click(m) \/ Start(m) \/ Activate(m) \/ AnswerSome(m) \/ Quit(m) \/ Crash(m)
      PROVE  DownIsIdle'
  BY <1>5 DEF Click, Start, Activate, AnswerSome, Answer, Quit, Crash, Gone, start
<1>6. CASE UNCHANGED vars
  BY <1>1, <1>6 DEF vars
<1>. QED  BY <1>2, <1>3, <1>4, <1>5, <1>6 DEF Next

LEMMA NextOnce == OnceInv /\ [Next]_vars => OnceInv'
<1>. SUFFICES ASSUME OnceInv, [Next]_vars PROVE OnceInv'
  OBVIOUS
<1>1. FilingInv' /\ DownIsIdle' /\ Fewer
  BY NextFiling, NextDownIsIdle, Monotone DEF OnceInv, FilingInv
<1>. SUFFICES ASSUME met' \cap NoNet = {} PROVE Netted'
  BY <1>1 DEF OnceInv
<1>2. Safe
  BY <1>1 DEF Safe, OnceInv, Fewer
<1>3. CASE UNCHANGED vars
  <2>1. UNCHANGED <<marker, sent, draft, out, pc, status, asked, rec, keys, todo, ask,
                    fin, which, stale>>
    BY <1>3 DEF vars, bucket, handler, start, finish, history
  <2>. QED  BY <1>2, <2>1 DEF Safe, Netted, OneAtATime, Running, Guarded, Knows
<1>. QED  BY <1>2, <1>3, HandlerNetted, FinishNetted, RecoveryNetted, ServerNetted DEF Next

\* However the program dies, and whatever fails in MarkSent, in the copy or in the
\* marker's removal, at most one press of all gets the mail out, for any number of
\* servers and presses.
THEOREM NobodyGetsItTwice == Spec => []NoDoubleSend
<1>1. OnceInv => NoDoubleSend
  <2>. SUFFICES ASSUME OnceInv, Netted PROVE Cardinality(out) =< 1
    BY DEF OnceInv, NoDoubleSend
  <2>1. CASE out = {}
    BY <2>1, FS_EmptySet
  <2>2. ASSUME NEW a \in out PROVE Cardinality(out) =< 1
    <3>1. out = {a}
      BY <2>2 DEF Netted, OneAtATime
    <3>2. Cardinality(out) = 1
      BY <3>1, FS_Singleton
    <3>. QED  BY <3>2
  <2>. QED  BY <2>1, <2>2
<1>. QED  BY InitOnce, NextOnce, <1>1, PTL DEF Spec

-----------------------------------------------------------------------------
(* What is new is on its way: the invariant of Watch.                         *)

\* As long as the program runs, what is new in the index the page is shown from
\* is on its way to the page, whether or not its stream is open: one that opens
\* again must not have missed anything either.
OnItsWay ==
  LET n == index[armed] IN
  n > shown =>
    \/ forgiven >= n
    \/ HasOwn(channel) \/ n \in answers
    \/ doing[armed] = "tell"

NewsInv ==
  /\ NewsTypeOK
  /\ stopped => ~open
  /\ ~stopped => OnItsWay

-----------------------------------------------------------------------------
(* The operators of Watch.                                                    *)

\* What the page may miss is a number of messages, and never shrinks.
LEMMA ForgiveMore ==
  ASSUME forgiven \in Mail, NEW n \in Mail, Forgive(n)
  PROVE  forgiven' \in Mail /\ forgiven' >= forgiven /\ forgiven' >= n
BY WatchAssumption DEF Forgive, Mail

\* A fault is counted within its bound.
LEMMA SpendCounts ==
  ASSUME trouble \in 0 .. MaxTrouble, NEW kind, Spend(kind)
  PROVE  trouble' \in 0 .. MaxTrouble
BY WatchAssumption DEF Spend

\* A channel holds events, and no more than its buffer.
Channel == {c \in Seq({Own, Other}) : Len(c) <= Buffer}

\* An event that is sent fits, and pushes none out.
LEMMA OfferKeeps ==
  ASSUME channel \in Channel, NEW what \in {Own, Other}, Offer(what)
  PROVE  channel' \in Channel /\ (HasOwn(channel) => HasOwn(channel'))
<1>1. CASE channel' = channel
  BY <1>1
<1>2. CASE Len(channel) < Buffer /\ channel' = Append(channel, what)
  <2>1. channel \in Seq({Own, Other}) /\ Len(channel) \in Nat
    BY DEF Channel
  <2>2. /\ channel' \in Seq({Own, Other}) /\ Len(channel') = Len(channel) + 1
        /\ \A i \in 1 .. Len(channel) : channel'[i] = channel[i]
    BY <1>2, <2>1
  <2>3. channel' \in Channel
    BY <1>2, <2>1, <2>2, WatchAssumption DEF Channel
  <2>4. HasOwn(channel) => HasOwn(channel')
    BY <2>1, <2>2 DEF HasOwn
  <2>. QED  BY <2>3, <2>4
<1>. QED  BY <1>1, <1>2 DEF Offer

\* Hearing one that is not the page's own leaves the others.
LEMMA TailKeeps ==
  ASSUME channel \in Channel, channel # <<>>
  PROVE  /\ Tail(channel) \in Channel
         /\ Head(channel) # Own /\ HasOwn(channel) => HasOwn(Tail(channel))
<1>1. channel \in Seq({Own, Other}) /\ Len(channel) \in Nat \ {0} /\ Len(channel) <= Buffer
  BY DEF Channel
<1>2. /\ Tail(channel) \in Seq({Own, Other}) /\ Len(Tail(channel)) = Len(channel) - 1
      /\ \A i \in 1 .. Len(channel) - 1 : Tail(channel)[i] = channel[i + 1]
  BY <1>1
<1>3. Tail(channel) \in Channel
  BY <1>1, <1>2, WatchAssumption DEF Channel
<1>4. ASSUME Head(channel) # Own, HasOwn(channel) PROVE HasOwn(Tail(channel))
  <2>1. PICK i \in DOMAIN channel : channel[i] = Own
    BY <1>4 DEF HasOwn
  <2>2. i # 1 /\ i \in 1 .. Len(channel)
    BY <1>1, <1>4, <2>1
  <2>3. i - 1 \in DOMAIN Tail(channel) /\ Tail(channel)[i - 1] = Own
    BY <1>1, <1>2, <2>1, <2>2
  <2>. QED  BY <2>3 DEF HasOwn
<1>. QED  BY <1>3, <1>4

-----------------------------------------------------------------------------
(* Types.                                                                     *)

\* TypeOK, the channel apart.
WatcherType ==
  /\ doing \in [Ear -> {"off", "top", "delete", "sleep", "list", "write",
                     "tell", "gone"}]
  /\ wait \in [Ear -> Nat] /\ lst \in [Ear -> Mail]
  /\ index \in [Ear -> Mail] /\ armed \in Ear
OtherType ==
  /\ mail \in Mail /\ queue \in BOOLEAN /\ taken \in BOOLEAN
  /\ open \in BOOLEAN
  /\ tab \in {"front", "hidden"} /\ task \in {"none", "write"}
  /\ pressed \in BOOLEAN
  /\ tlst \in Mail /\ answers \subseteq Mail /\ shown \in Mail
  /\ timer \in BOOLEAN /\ stopped \in BOOLEAN
PastType == forgiven \in Mail /\ trouble \in 0 .. MaxTrouble

LEMMA Types ==
  NewsTypeOK <=> WatcherType /\ OtherType /\ PastType /\ channel \in Channel
BY DEF NewsTypeOK, WatcherType, OtherType, PastType, Channel

LEMMA TypesNext ==
  WatcherType' /\ OtherType' /\ PastType' /\ channel' \in Channel => NewsTypeOK'
BY DEF NewsTypeOK, WatcherType, OtherType, PastType, Channel

\* The first state: nothing has arrived, and a watcher waits for it.
LEMMA InitNews == NewsInit => NewsInv
<1>. SUFFICES ASSUME NewsInit PROVE NewsInv
  OBVIOUS
<1>1. 0 \in Mail /\ 1 \in Ear /\ 0 \in 0 .. MaxTrouble
  BY WatchAssumption DEF Mail, Ear
<1>2. WatcherType
  BY <1>1 DEF NewsInit, WatcherType
<1>3. OtherType /\ PastType
  BY <1>1 DEF NewsInit, OtherType, PastType
<1>4. channel \in Channel
  BY WatchAssumption DEF NewsInit, Channel
<1>5. ~(index[armed] > shown)
  BY <1>1 DEF NewsInit
<1>. QED  BY <1>2, <1>3, <1>4, <1>5, Types DEF NewsInit, NewsInv, OnItsWay
-----------------------------------------------------------------------------
(* One lemma per kind of step, for the types.                                 *)

LEMMA PastKeeps ==
  ASSUME PastType, forgiven' = forgiven \/ \E n \in Mail : Forgive(n),
         trouble' = trouble \/ \E kind \in TroubleKind : Spend(kind)
  PROVE  PastType' /\ forgiven' >= forgiven
<1>1. forgiven' \in Mail /\ forgiven' >= forgiven
  BY ForgiveMore DEF PastType, Mail
<1>2. trouble' \in 0 .. MaxTrouble
  BY SpendCounts DEF PastType
<1>. QED  BY <1>1, <1>2 DEF PastType

\* What every step does to the history: it is typed, and forgives no less.
Forgives == PastType' /\ forgiven' >= forgiven

\* The outside of the program.
LEMMA OutsideType ==
  ASSUME NewsTypeOK, Arrive \/ Reappear \/ Elsewhere \/ TellOther \/ Breaks \/ Turn
  PROVE  NewsTypeOK' /\ Forgives
<1>1. WatcherType /\ OtherType /\ PastType /\ channel \in Channel
  BY Types
<1>2. Forgives
  <2>1. trouble' = trouble \/ \E kind \in TroubleKind : Spend(kind)
    BY DEF Arrive, Reappear, Elsewhere, TellOther, Breaks, Turn, past, TroubleKind
  <2>2. forgiven' = forgiven \/ \E n \in Mail : Forgive(n)
    BY <1>1 DEF Arrive, Reappear, Elsewhere, TellOther, Breaks, Turn, past,
                OtherType, WatcherType
  <2>. QED  BY <1>1, <2>1, <2>2, PastKeeps DEF Forgives
<1>3. WatcherType'
  BY <1>1 DEF Arrive, Reappear, Elsewhere, TellOther, Breaks, Turn, watcher, WatcherType
<1>4. OtherType'
  <2>1. mail' \in Mail
    BY <1>1, WatchAssumption
       DEF Arrive, Reappear, Elsewhere, TellOther, Breaks, Turn, OtherType, Mail
  <2>. QED
    BY ZenonT(30), <1>1, <2>1
       DEF Arrive, Reappear, Elsewhere, TellOther, Breaks, Turn, page, queueing, events,
           OtherType
<1>5. channel' \in Channel
  <2>1. <<>> \in Channel
    BY WatchAssumption DEF Channel
  <2>. QED
    BY <1>1, <2>1, OfferKeeps
       DEF Arrive, Reappear, Elsewhere, TellOther, Breaks, Turn, events
<1>. QED  BY <1>2, <1>3, <1>4, <1>5, TypesNext DEF Forgives

\* A watcher.
LEMMA WatcherKeepsType ==
  ASSUME NewsTypeOK, NEW e \in Ear, Watcher(e)
  PROVE  NewsTypeOK' /\ Forgives
<1>1. WatcherType /\ OtherType /\ PastType /\ channel \in Channel
  BY Types
<1>2. Forgives
  <2>1. trouble' = trouble \/ \E kind \in TroubleKind : Spend(kind)
    BY DEF Watcher, Receive, Delete, Sleep, List, Write, Tell, Smooth, past, TroubleKind
  <2>2. 0 \in Mail /\ mail \in Mail /\ index[e] \in Mail
    BY <1>1, WatchAssumption DEF OtherType, WatcherType, Mail
  <2>3. forgiven' = forgiven \/ \E n \in Mail : Forgive(n)
    BY <2>2 DEF Watcher, Receive, Delete, Sleep, List, Write, Tell, Smooth, past
  <2>. QED  BY <1>1, <2>1, <2>3, PastKeeps DEF Forgives
<1>3. WatcherType'
  <2>1. /\ doing' \in [Ear -> {"off", "top", "delete", "sleep", "list", "write", "tell", "gone"}]
        /\ armed' \in Ear
    BY <1>1 DEF Watcher, Receive, Delete, Sleep, List, Write, Tell, Goes, Errs, WatcherType
  <2>2. /\ wait' \in [Ear -> Nat]
    <3>1. \A w \in Nat : Longer(w) \in Nat
      BY DEF Longer
    <3>. QED
      BY <1>1, <3>1
         DEF Watcher, Receive, Delete, Sleep, List, Write, Tell, Success, WatcherType
  <2>3. /\ lst' \in [Ear -> Mail] /\ index' \in [Ear -> Mail]
    <3>1. 0 \in Mail /\ mail \in Mail
      BY <1>1, WatchAssumption DEF OtherType, Mail
    <3>. QED
      BY <1>1, <3>1
         DEF Watcher, Receive, Delete, Sleep, List, Write, Tell, WatcherType
  <2>. QED  BY <2>1, <2>2, <2>3 DEF WatcherType
<1>4. OtherType'
  BY ZenonT(30), <1>1 DEF Watcher, Receive, Delete, Sleep, List, Write, Tell, page, queueing,
     events, OtherType
<1>5. channel' \in Channel
  BY <1>1, OfferKeeps DEF Watcher, Receive, Delete, Sleep, List, Write, Tell, events
<1>. QED  BY <1>2, <1>3, <1>4, <1>5, TypesNext DEF Forgives

\* The page.
LEMMA PageKeepsType ==
  ASSUME NewsTypeOK, Page \/ Press
  PROVE  NewsTypeOK' /\ Forgives
<1>1. WatcherType /\ OtherType /\ PastType /\ channel \in Channel
  BY Types
<1>0. 0 \in Mail /\ mail \in Mail /\ index[armed] \in Mail /\ shown \in Mail /\ tlst \in Mail
  BY <1>1, WatchAssumption DEF OtherType, WatcherType, Mail
<1>2. Forgives
  <2>1. trouble' = trouble \/ \E kind \in TroubleKind : Spend(kind)
    BY DEF Page, Press, Hear, Reconnects, Render, Begin, PageWrites, Return, Smooth, past,
           TroubleKind
  <2>2. forgiven' = forgiven \/ \E n \in Mail : Forgive(n)
    BY <1>0 DEF Page, Press, Hear, Reconnects, Render, Begin, PageWrites, Return, Smooth, past
  <2>. QED  BY <1>1, <2>1, <2>2, PastKeeps DEF Forgives
<1>3. WatcherType'
  BY <1>0, <1>1 DEF Page, Press, Hear, Reconnects, Render, Begin, PageWrites, Return, watcher,
              WatcherType
<1>4. OtherType'
  <2>1. CASE Hear \/ Reconnects \/ Return
    BY <1>0, <1>1, <2>1 DEF Hear, Reconnects, Return, page, queueing, events, Ask,
                            OtherType
  <2>2. CASE Render
    <3>1. answers \subseteq Mail /\ pressed' \in BOOLEAN
      BY <1>1, <2>2 DEF Render, OtherType
    <3>. QED  BY <1>1, <2>2, <3>1 DEF Render, queueing, events, OtherType
  <2>3. CASE Begin \/ PageWrites \/ Press
    BY <1>0, <1>1, <2>3 DEF Begin, PageWrites, Press, queueing, events, Ask, OtherType
  <2>. QED  BY <2>1, <2>2, <2>3 DEF Page
<1>5. channel' \in Channel
  BY <1>1, TailKeeps DEF Page, Press, Hear, Reconnects, Render, Begin, PageWrites, Return,
                         events
<1>. QED  BY <1>2, <1>3, <1>4, <1>5, TypesNext DEF Forgives

\* The server.
LEMMA ServerKeepsType ==
  ASSUME NewsTypeOK, Rearm \/ Stop
  PROVE  NewsTypeOK' /\ Forgives
<1>1. WatcherType /\ OtherType /\ PastType /\ channel \in Channel
  BY Types
<1>2. Forgives
  <2>1. trouble' = trouble \/ \E kind \in TroubleKind : Spend(kind)
    BY DEF Rearm, Stop, past, TroubleKind
  <2>2. forgiven' = forgiven
    BY DEF Rearm, Stop, past
  <2>. QED  BY <1>1, <2>1, <2>2, PastKeeps DEF Forgives
<1>0. 0 \in Mail
  BY WatchAssumption DEF Mail
<1>3. CASE Rearm
  <2>1. armed' \in Ear /\ index[armed] \in Mail
    BY <1>1, <1>3, WatchAssumption DEF Rearm, WatcherType, Ear
  <2>2. WatcherType'
    BY <1>1, <1>3, <2>1 DEF Rearm, WatcherType
  <2>3. OtherType'
    BY <1>0, <1>1, <1>3, <2>1 DEF Rearm, queueing, OtherType
  <2>4. channel' \in Channel
    BY <1>3, WatchAssumption DEF Rearm, Channel
  <2>. QED  BY <1>2, <2>2, <2>3, <2>4, TypesNext DEF Forgives
<1>4. CASE Stop
  <2>1. WatcherType'
    BY <1>1, <1>4 DEF Stop, watcher, WatcherType
  <2>2. OtherType'
    BY <1>0, <1>1, <1>4 DEF Stop, queueing, OtherType
  <2>3. channel' \in Channel
    BY <1>4, WatchAssumption DEF Stop, Channel
  <2>. QED  BY <1>2, <2>1, <2>2, <2>3, TypesNext DEF Forgives
<1>. QED  BY <1>3, <1>4

\* Every step keeps the types.
LEMMA StepType == NewsTypeOK /\ [NewsNext]_news => NewsTypeOK' /\ Forgives
<1>. SUFFICES ASSUME NewsTypeOK, [NewsNext]_news PROVE NewsTypeOK' /\ Forgives
  OBVIOUS
<1>1. CASE UNCHANGED news
  <2>1. /\ UNCHANGED <<mail, queue, taken, armed, doing, wait, lst, index, channel, open>>
        /\ UNCHANGED <<tab, task, tlst, pressed, answers, shown, timer, stopped>>
        /\ UNCHANGED <<forgiven, trouble>>
    BY <1>1 DEF news, watcher, page, events, queueing, past
  <2>2. NewsTypeOK'
    BY <2>1 DEF NewsTypeOK
  <2>. QED  BY <2>1, <2>2, WatchAssumption DEF Forgives, PastType, NewsTypeOK, Mail
<1>. QED  BY <1>1, OutsideType, WatcherKeepsType, PageKeepsType, ServerKeepsType DEF NewsNext

\* Every variable of Watch keeps its type: in particular the page's channel
\* never holds more than its buffer (web/events.go).
THEOREM NewsTypeCorrect == NewsSpec => []NewsTypeOK
<1>1. NewsInit => NewsTypeOK
  BY InitNews DEF NewsInv
<1>. QED  BY <1>1, StepType, PTL DEF NewsSpec

-----------------------------------------------------------------------------
(* What is new is on its way: one lemma per kind of step.                     *)

\* A step that forgives no less, tells no less and shows what it showed.
LEMMA StillOnItsWay ==
  ASSUME NewsTypeOK, NewsTypeOK', Forgives, OnItsWay,
         UNCHANGED <<index[armed], shown, doing[armed]>>,
         HasOwn(channel) => HasOwn(channel') \/ forgiven' >= index[armed],
         index[armed] \in answers => index[armed] \in answers' \/ forgiven' >= index[armed]
  PROVE  OnItsWay'
<1>1. forgiven \in Nat /\ forgiven' \in Nat /\ index[armed] \in Nat /\ shown \in Nat
  BY DEF NewsTypeOK, Mail
<1>. QED  BY <1>1 DEF OnItsWay, Forgives

\* Mail arrives, notifications go and come, the stream breaks.
LEMMA OutsideKeeps ==
  ASSUME NewsTypeOK, NewsTypeOK', Forgives, OnItsWay,
         Arrive \/ Reappear \/ Elsewhere \/ TellOther \/ Breaks \/ Turn
  PROVE  OnItsWay'
<1>1. UNCHANGED <<index, armed, doing, shown, answers>>
  BY DEF Arrive, Reappear, Elsewhere, TellOther, Breaks, Turn, page, watcher
<1>2. HasOwn(channel) => HasOwn(channel') \/ forgiven' >= index[armed]
  <2>1. channel \in Channel /\ forgiven \in Mail /\ index[armed] \in Mail
    BY DEF NewsTypeOK, Channel
  <2>2. Breaks => forgiven' >= index[armed]
    BY <2>1, ForgiveMore DEF Breaks
  <2>3. ~Breaks => channel' = channel \/ Offer(Other)
    BY DEF Arrive, Reappear, Elsewhere, TellOther, Turn, events
  <2>. QED  BY <2>1, <2>2, <2>3, OfferKeeps
<1>. QED  BY <1>1, <1>2, StillOnItsWay

\* A watcher: one of an older arming writes an index nobody is shown.
LEMMA WatcherKeeps ==
  ASSUME NewsTypeOK, NewsTypeOK', Forgives, OnItsWay, NEW e \in Ear, Watcher(e)
  PROVE  OnItsWay'
<1>1. /\ channel \in Channel /\ forgiven \in Mail /\ armed \in Ear
      /\ doing \in [Ear -> {"off", "top", "delete", "sleep", "list", "write", "tell", "gone"}]
      /\ index \in [Ear -> Mail]
  BY DEF NewsTypeOK, Channel
<1>2. UNCHANGED <<armed, shown, answers>>
  BY DEF Watcher, Receive, Delete, Sleep, List, Write, Tell, page
<1>3. HasOwn(channel) => HasOwn(channel')
  BY <1>1, OfferKeeps DEF Watcher, Receive, Delete, Sleep, List, Write, Tell, events
<1>4. CASE e # armed
  <2>1. index'[armed] = index[armed] /\ doing'[armed] = doing[armed]
    BY <1>1, <1>4 DEF Watcher, Receive, Delete, Sleep, List, Write, Tell, Goes, Errs
  <2>. QED  BY <1>2, <1>3, <2>1, StillOnItsWay
<1>5. CASE e = armed /\ Write(e)
  BY <1>1, <1>2, <1>5 DEF Write, Goes, OnItsWay
<1>6. CASE e = armed /\ Tell(e)
  <2>1. HasOwn(channel') \/ forgiven' >= index[armed]
    BY <1>1, <1>6, ForgiveMore DEF Tell
  <2>2. index' = index
    BY <1>6 DEF Tell
  <2>. QED  BY <1>2, <2>1, <2>2 DEF OnItsWay
<1>7. CASE e = armed /\ (Receive(e) \/ Delete(e) \/ Sleep(e) \/ List(e))
  <2>1. doing[armed] # "tell" /\ index' = index
    BY <1>7 DEF Receive, Delete, Sleep, List
  <2>2. forgiven \in Nat /\ forgiven' \in Nat /\ index[armed] \in Nat
    BY DEF NewsTypeOK, Mail
  <2>. QED  BY <1>2, <1>3, <2>1, <2>2 DEF OnItsWay, Forgives
<1>. QED  BY <1>4, <1>5, <1>6, <1>7 DEF Watcher

\* The page: what it hears it asks for, what it writes it asks for, and an
\* answer that is older than what it shows is forgiven.
LEMMA PageKeeps ==
  ASSUME NewsTypeOK, NewsTypeOK', Forgives, OnItsWay, Page \/ Press
  PROVE  OnItsWay'
<1>1. /\ channel \in Channel /\ forgiven \in Mail /\ armed \in Ear
      /\ index \in [Ear -> Mail] /\ answers \subseteq Mail /\ shown \in Mail
      /\ tlst \in Mail
  BY DEF NewsTypeOK, Channel
<1>2. UNCHANGED <<armed, doing>>
  BY DEF Page, Press, Hear, Reconnects, Render, Begin, PageWrites, Return, watcher
<1>3. CASE Reconnects \/ Begin \/ Return \/ Press
  <2>1. UNCHANGED <<index, shown, channel, answers>>
    BY <1>3 DEF Reconnects, Begin, Return, Press, page, events
  <2>. QED  BY <1>2, <2>1, StillOnItsWay
<1>4. CASE Hear
  <2>1. UNCHANGED <<index, shown>> /\ answers \subseteq answers'
    BY <1>4 DEF Hear, Ask
  <2>2. CASE Head(channel) = Own
    <3>1. index[armed] \in answers' \/ forgiven' >= index[armed]
      BY <1>1, <1>4, <2>2, ForgiveMore DEF Hear, Ask
    <3>. QED  BY <1>2, <2>1, <3>1 DEF OnItsWay
  <2>3. CASE Head(channel) # Own
    <3>1. HasOwn(channel) => HasOwn(channel')
      BY <1>1, <1>4, <2>3, TailKeeps DEF Hear
    <3>. QED  BY <1>2, <2>1, <3>1, StillOnItsWay
  <2>. QED  BY <2>2, <2>3
<1>5. CASE Render
  <2>1. PICK a \in answers :
          /\ answers' = answers \ {a} /\ shown' = a
          /\ Forgive(IF a < shown THEN shown ELSE 0)
    BY <1>5 DEF Render
  <2>2. UNCHANGED <<index, channel>>
    BY <1>5 DEF Render, events
  <2>3. a \in Nat /\ shown \in Nat /\ index[armed] \in Nat /\ forgiven \in Nat
        /\ forgiven' \in Nat /\ forgiven' >= forgiven
    BY <1>1, <2>1 DEF Mail, Forgives, NewsTypeOK
  <2>4. a < shown => forgiven' >= shown
    BY <1>1, <2>1, ForgiveMore
  <2>. SUFFICES ASSUME index[armed] > a
                PROVE  \/ forgiven' >= index[armed]
                       \/ HasOwn(channel) \/ index[armed] \in answers'
                       \/ doing[armed] = "tell"
    BY <1>2, <2>1, <2>2 DEF OnItsWay
  <2>5. CASE index[armed] > shown
    BY <2>1, <2>3, <2>5 DEF OnItsWay
  <2>6. CASE ~(index[armed] > shown)
    BY <2>3, <2>4, <2>6
  <2>. QED  BY <2>5, <2>6
<1>6. CASE PageWrites
  <2>1. index'[armed'] \in answers'
    BY <1>1, <1>2, <1>6 DEF PageWrites, Ask
  <2>. QED  BY <2>1 DEF OnItsWay
<1>. QED  BY <1>3, <1>4, <1>5, <1>6 DEF Page

\* Every step keeps the invariant.
LEMMA StepNews == NewsInv /\ [NewsNext]_news => NewsInv'
<1>. SUFFICES ASSUME NewsInv, [NewsNext]_news PROVE NewsInv'
  OBVIOUS
<1>1. NewsTypeOK /\ NewsTypeOK' /\ Forgives
  BY StepType DEF NewsInv
<1>2. CASE UNCHANGED news
  <2>1. UNCHANGED <<index, armed, doing, shown, channel, answers, stopped, open>>
    BY <1>2 DEF news, watcher, page, events
  <2>2. OnItsWay => OnItsWay'
    BY <1>1, <2>1, StillOnItsWay
  <2>. QED  BY <1>1, <2>1, <2>2 DEF NewsInv
<1>3. CASE Stop
  BY <1>1, <1>3 DEF Stop, NewsInv
<1>4. CASE Rearm
  <2>1. armed + 1 \in Ear
    BY <1>1, <1>4, WatchAssumption DEF Rearm, NewsTypeOK, Ear
  <2>2. index'[armed'] \in answers'
    BY <1>1, <1>4, <2>1 DEF Rearm, NewsTypeOK
  <2>3. ~stopped' /\ OnItsWay'
    BY <1>4, <2>2 DEF Rearm, OnItsWay
  <2>. QED  BY <1>1, <2>3 DEF NewsInv
<1>5. ASSUME stopped' = stopped, stopped => open' = open, OnItsWay => OnItsWay'
      PROVE  NewsInv'
  BY <1>1, <1>5 DEF NewsInv
<1>6. CASE Arrive \/ Reappear \/ Elsewhere \/ TellOther \/ Breaks \/ Turn
  BY <1>1, <1>5, <1>6, OutsideKeeps
     DEF Arrive, Reappear, Elsewhere, TellOther, Breaks, Turn, events
<1>7. ASSUME NEW e \in Ear, Watcher(e) PROVE NewsInv'
  BY <1>1, <1>5, <1>7, WatcherKeeps
     DEF Watcher, Receive, Delete, Sleep, List, Write, Tell, events
<1>8. CASE Page \/ Press
  BY <1>1, <1>5, <1>8, PageKeeps
     DEF Page, Press, Hear, Reconnects, Render, Begin, PageWrites, Return, events
<1>. QED  BY <1>2, <1>3, <1>4, <1>6, <1>7, <1>8 DEF NewsNext

\* The page is behind the index it is shown from only as long as an event, a
\* list or an announcement is under way that will make it look, or the mail was
\* one of those the page is known to miss (web/events.go, cmd/s3mail/watch.go,
\* web/assets/inbox.html).
THEOREM NewsIsOnItsWay == NewsSpec => []NothingUntold
<1>1. NewsInv => NothingUntold
  BY DEF NewsInv, OnItsWay, NothingUntold
<1>. QED  BY <1>1, InitNews, StepNews, PTL DEF NewsSpec
=============================================================================
