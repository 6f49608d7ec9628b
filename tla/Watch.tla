-------------------------------- MODULE Watch --------------------------------
(***************************************************************************)
(* New mail reaches the page: the queue watcher (cmd/s3mail/watch.go,      *)
(* awsx/queue.go), the events it sends (web/events.go) and what the page   *)
(* does with them (web/assets/inbox.html).                                 *)
(*                                                                         *)
(* A mailbox is the number of messages that have arrived in it; an index   *)
(* and the page's list are the number they know of.  Every time the        *)
(* mailbox is armed there is one watcher more: the old ones run on, each   *)
(* with the mailbox object it was started with, and share the queue.       *)
(***************************************************************************)
EXTENDS Naturals, Sequences

CONSTANTS MaxMail,    \* bound: messages that arrive
          MaxArmed,   \* bound: how often the mailbox is armed
          Buffer,     \* events a page's channel holds (8 in the code)
          Minute,     \* seconds up to which the back-off doubles (60)
          MaxTrouble, \* bound: things that go wrong or get in the way
          Troubles    \* which may, a subset of TroubleKind

TroubleKind ==
  {"receive",    \* the queue cannot be asked
   "delete",     \* the notification is taken and cannot be deleted
   "refresh",    \* a refresh fails, a watcher's or the page's
   "elsewhere",  \* another machine, or a second start, takes the notification
   "stream",     \* the event stream breaks
   "hidden",     \* the window is in the background
   "button",     \* somebody presses the page's refresh button
   "rearm",      \* the wizard arms the mailbox again
   "other"}      \* mail in another mailbox of the same program

ASSUME WatchAssumption ==
  /\ MaxMail \in Nat /\ MaxArmed \in Nat \ {0} /\ Buffer \in Nat \ {0}
  /\ Minute \in Nat \ {0} /\ MaxTrouble \in Nat
  /\ Troubles \subseteq TroubleKind

Ear  == 1 .. MaxArmed     \* the watchers, by the arming that started them
Mail == 0 .. MaxMail
Other == "other"
Own   == "own"

VARIABLES
  mail,                   \* the bucket
  queue, taken,           \* SQS: notifications visible, invisible and not deleted
  armed,                  \* the arming the server serves
  doing, wait, lst,       \* per watcher: step, back-off, listing
  index,                  \* per arming: the index of its mailbox object
  channel, open,          \* the page's channel, and whether it is subscribed
  tab, task, tlst,        \* the page: what is in front, its refresh, its listing
  pressed,                \* the refresh is the button's, which is off until it ends
  answers, shown,         \* lists on their way to the page, the list on it
  timer,                  \* refresh_seconds is not 0
  stopped,                \* the context is cancelled
  forgiven, trouble       \* history: mail the page may miss, what went wrong

watcher == <<doing, wait, lst>>
page    == <<tab, task, tlst, pressed, answers, shown>>
events  == <<channel, open>>
queueing == <<queue, taken>>
past == <<forgiven, trouble>>
news == <<mail, queueing, armed, watcher, index, events, page, timer, stopped, past>>

NewsTypeOK ==
  /\ mail \in Mail /\ queue \in BOOLEAN /\ taken \in BOOLEAN /\ armed \in Ear
  /\ doing \in [Ear -> {"off", "top", "delete", "sleep", "list", "write",
                     "tell", "gone"}]
  /\ wait \in [Ear -> Nat] /\ lst \in [Ear -> Mail]
  /\ index \in [Ear -> Mail]
  /\ channel \in Seq({Own, Other}) /\ Len(channel) <= Buffer /\ open \in BOOLEAN
  /\ tab \in {"front", "hidden"} /\ task \in {"none", "write"}
  /\ pressed \in BOOLEAN
  /\ tlst \in Mail /\ answers \subseteq Mail /\ shown \in Mail
  /\ timer \in BOOLEAN /\ stopped \in BOOLEAN
  /\ forgiven \in Mail /\ trouble \in 0 .. MaxTrouble

NewsInit ==
  /\ mail = 0 /\ queue = FALSE /\ taken = FALSE /\ armed = 1
  /\ doing = [e \in Ear |-> IF e = 1 THEN "top" ELSE "off"]
  /\ wait = [e \in Ear |-> 1] /\ lst = [e \in Ear |-> 0]
  /\ index = [e \in Ear |-> 0]
  /\ channel = <<>> /\ open = TRUE
  /\ tab = "front" /\ task = "none" /\ tlst = 0 /\ pressed = FALSE
  /\ answers = {} /\ shown = 0
  /\ timer \in BOOLEAN /\ stopped = FALSE
  /\ forgiven = 0 /\ trouble = 0

-----------------------------------------------------------------------------
Goes(e, step) == doing' = [doing EXCEPT ![e] = step]
Spend(kind) == kind \in Troubles /\ trouble < MaxTrouble /\ trouble' = trouble + 1
Smooth == UNCHANGED past

\* What the page may miss, unless it looks by itself: the mail up to n.
Forgive(n) == forgiven' = IF n > forgiven THEN n ELSE forgiven

\* SES stores the message and tells SNS, SNS puts a notification in the queue.
Arrive ==
  /\ mail < MaxMail /\ ~stopped
  /\ mail' = mail + 1 /\ queue' = TRUE
  /\ UNCHANGED <<taken, armed, watcher, index, events, page, timer, stopped, past>>

\* Thirty seconds after it was taken a notification is visible again.
Reappear ==
  /\ taken /\ ~stopped /\ taken' = FALSE /\ queue' = TRUE
  /\ UNCHANGED <<mail, armed, watcher, index, events, page, timer, stopped, past>>

\* Another machine on the same mailbox, or a second start of this program that
\* finds the port taken and ends, takes what is there.
Elsewhere ==
  /\ queue /\ ~stopped /\ Spend("elsewhere")
  /\ queue' = FALSE /\ Forgive(mail)
  /\ UNCHANGED <<mail, taken, armed, watcher, index, events, page, timer, stopped>>

-----------------------------------------------------------------------------
(* watchQueue. *)
\* Wait reported an error.
Errs(e) == Goes(e, IF stopped THEN "gone" ELSE "sleep")

\* An answer starts the back-off afresh.
Success(e) == wait' = [wait EXCEPT ![e] = 1]

\* ReceiveMessage: an error, an empty answer, or up to ten notifications, which
\* nobody else sees for the next thirty seconds.  A context that is cancelled is
\* seen before the call or is an error of it.
Receive(e) ==
  /\ doing[e] = "top"
  /\ \/ /\ stopped /\ Goes(e, "gone") /\ Smooth
        /\ UNCHANGED <<queueing, wait>>
     \/ /\ ~stopped /\ Spend("receive") /\ UNCHANGED forgiven
        /\ Errs(e) /\ UNCHANGED <<queueing, wait>>
     \/ /\ ~queue /\ ~stopped /\ Smooth /\ Goes(e, "top") /\ Success(e)
        /\ UNCHANGED queueing
     \/ /\ queue /\ ~stopped /\ Smooth /\ Goes(e, "delete") /\ queue' = FALSE
        /\ UNCHANGED <<taken, wait>>
  /\ UNCHANGED <<mail, armed, lst, index, events, page, timer, stopped>>

\* DeleteMessageBatch.  Without it Wait reports an error although something
\* came: no refresh now, one when the notification is visible again.
Delete(e) ==
  /\ doing[e] = "delete"
  /\ \/ /\ ~stopped /\ Smooth /\ Goes(e, "list") /\ Success(e) /\ UNCHANGED taken
     \/ /\ stopped /\ Smooth /\ Errs(e) /\ taken' = TRUE
        /\ UNCHANGED wait
     \/ /\ ~stopped /\ Spend("delete") /\ UNCHANGED forgiven /\ Errs(e)
        /\ taken' = TRUE /\ UNCHANGED wait
  /\ UNCHANGED <<mail, queue, armed, lst, index, events, page, timer, stopped>>

\* Twice as long each time, while below a minute.
Longer(w) == IF w < Minute THEN 2 * w ELSE w

Sleep(e) ==
  /\ doing[e] = "sleep"
  /\ IF stopped THEN Goes(e, "gone") /\ UNCHANGED wait
     ELSE Goes(e, "top") /\ wait' = [wait EXCEPT ![e] = Longer(@)]
  /\ UNCHANGED <<mail, queueing, armed, lst, index, events, page, timer,
                 stopped, past>>

\* Refresh of the watcher's own mailbox object: the listing ...
List(e) ==
  /\ doing[e] = "list"
  /\ \/ ~stopped /\ lst' = [lst EXCEPT ![e] = mail] /\ Goes(e, "write") /\ Smooth
     \/ stopped /\ Goes(e, "top") /\ UNCHANGED lst /\ Smooth
     \/ ~stopped /\ Spend("refresh") /\ Forgive(mail) /\ Goes(e, "top") /\ UNCHANGED lst
  /\ UNCHANGED <<mail, queueing, armed, wait, index, events, page,
                 timer, stopped>>

\* ... and the index: what was not listed goes, what was listed comes.  A
\* listing made before that of another refresh takes mail away again.
Write(e) ==
  /\ doing[e] = "write"
  /\ index' = [index EXCEPT ![e] = lst[e]] /\ lst' = [lst EXCEPT ![e] = 0]
  /\ Goes(e, "tell")
  /\ Forgive(IF index[e] > lst[e] THEN index[e] ELSE 0) /\ UNCHANGED trouble
  /\ UNCHANGED <<mail, queueing, armed, wait, events, page, timer,
                 stopped>>

\* Mutant: the oldest event makes room and goes, of whatever mailbox it is.
OfferLatest(what) ==
  channel' = Append(IF Len(channel) < Buffer THEN channel ELSE Tail(channel), what)
\* Mutant: a channel takes whatever comes.
OfferMore(what) == channel' = IF open THEN Append(channel, what) ELSE channel

\* events.send: a full channel is skipped, no channel gets nothing.
Offer(what) ==
  channel' = IF open /\ Len(channel) < Buffer THEN Append(channel, what) ELSE channel

HasOwn(waiting) == \E i \in DOMAIN waiting : waiting[i] = Own

\* Notify.  It names the mailbox, and the server has the newest arming's: what
\* an older watcher found is not in the index the page gets to see.
Tell(e) ==
  /\ doing[e] = "tell"
  /\ Offer(Own) /\ Goes(e, "top")
  /\ Forgive(IF HasOwn(channel') /\ e = armed THEN 0 ELSE index[e]) /\ UNCHANGED trouble
  /\ UNCHANGED <<mail, queueing, armed, wait, lst, index, open, page,
                 timer, stopped>>

\* The watcher of another mailbox tells the same pages.
TellOther ==
  /\ ~stopped /\ Spend("other") /\ Offer(Other)
  /\ UNCHANGED <<mail, queueing, armed, watcher, index, open, page, timer, stopped, forgiven>>

Watcher(e) ==
  Receive(e) \/ Delete(e) \/ Sleep(e) \/ List(e) \/ Write(e) \/ Tell(e)

-----------------------------------------------------------------------------
(* The stream and the page. *)
\* load(): /api/messages reads the index the server serves.
Ask(known) == answers' = answers \cup {known}

\* An event of this mailbox makes the page load, unless the button's refresh is
\* under way, which may have looked before.
Hear ==
  /\ open /\ channel # <<>> /\ ~stopped
  /\ channel' = Tail(channel)
  /\ IF Head(channel) = Own /\ ~pressed THEN Ask(index[armed]) /\ Smooth
     ELSE /\ UNCHANGED <<answers, trouble>>
          /\ Forgive(IF Head(channel) = Own THEN index[armed] ELSE 0)
  /\ UNCHANGED <<mail, queueing, armed, watcher, index, open, tab, task, tlst, pressed,
                 shown, timer, stopped>>

\* A write to the stream fails, or the page goes: the handler unsubscribes, and
\* what the channel held is gone.
Breaks ==
  /\ open /\ ~stopped /\ Spend("stream")
  /\ open' = FALSE /\ channel' = <<>> /\ Forgive(index[armed])
  /\ UNCHANGED <<mail, queueing, armed, watcher, index, page, timer, stopped>>
\* EventSource reconnects by itself, and loads nothing when it does.
Reconnects ==
  /\ ~open /\ ~stopped /\ open' = TRUE
  /\ UNCHANGED <<mail, queueing, armed, watcher, index, channel, page, timer, stopped, past>>

\* Whichever answer comes is what the page shows, in whatever order they come.
Render ==
  /\ ~stopped
  /\ \E a \in answers :
       /\ answers' = answers \ {a} /\ shown' = a
       /\ pressed' = (pressed /\ ~(task = "none" /\ a = tlst))
       /\ Forgive(IF a < shown THEN shown ELSE 0)
  /\ UNCHANGED trouble
  /\ UNCHANGED <<mail, queueing, armed, watcher, index, events, tab, task, tlst, timer, stopped>>

\* Mutant: the timer's refresh waits for the stream to be quiet.
TickIfQuiet == timer /\ tab = "front" /\ channel = <<>> /\ ~open
Tick == timer /\ tab = "front"

\* scheduleAutoRefresh, and coming back to the window when there is a timer:
\* POST /api/refresh lists the bucket and writes the index, then load.
Begin ==
  /\ Tick /\ task = "none" /\ ~pressed /\ ~stopped
  /\ \/ tlst' = mail /\ task' = "write" /\ Smooth
     \/ Spend("refresh") /\ UNCHANGED <<forgiven, tlst, task>>
  /\ UNCHANGED <<mail, queueing, armed, watcher, index, events, tab, pressed, answers,
                 shown, timer, stopped>>
\* The button does the same, with or without a timer.
Press ==
  /\ tab = "front" /\ task = "none" /\ ~pressed /\ ~stopped
  /\ Spend("button") /\ pressed' = TRUE /\ tlst' = mail /\ task' = "write"
  /\ UNCHANGED <<mail, queueing, armed, watcher, index, events, tab, answers, shown,
                 timer, stopped, forgiven>>
PageWrites ==
  /\ task = "write" /\ ~stopped
  /\ index' = [index EXCEPT ![armed] = tlst]
  /\ task' = "none" /\ tlst' = (IF pressed THEN tlst ELSE 0) /\ Ask(tlst)
  /\ Forgive(IF index[armed] > tlst THEN index[armed] ELSE 0) /\ UNCHANGED trouble
  /\ UNCHANGED <<mail, queueing, armed, watcher, events, tab, pressed, shown,
                 timer, stopped>>

\* Another window comes to the front ...
Turn ==
  /\ tab = "front" /\ ~stopped /\ Spend("hidden") /\ tab' = "hidden"
  /\ UNCHANGED <<mail, queueing, armed, watcher, index, events, task, tlst, pressed,
                 answers, shown, timer, stopped, forgiven>>
\* ... and it is over.
Return ==
  /\ tab # "front" /\ ~stopped /\ tab' = "front"
  /\ UNCHANGED <<mail, queueing, armed, watcher, index, events, task, tlst, pressed,
                 answers, shown, timer, stopped, past>>

Page == Hear \/ Reconnects \/ Render \/ Begin \/ PageWrites \/ Return

-----------------------------------------------------------------------------
\* The wizard saves and activates: a new mailbox object, whose index is read
\* from the cache file, a new watcher, and the page goes to "/".
Rearm ==
  /\ armed < MaxArmed /\ ~stopped /\ Spend("rearm")
  /\ armed' = armed + 1
  /\ doing' = [doing EXCEPT ![armed'] = "top"]
  /\ index' = [index EXCEPT ![armed'] = index[armed]]
  /\ channel' = <<>> /\ open' = TRUE
  /\ tab' = "front" /\ task' = "none" /\ tlst' = 0 /\ pressed' = FALSE /\ answers' = {index[armed]}
  /\ UNCHANGED <<mail, queueing, wait, lst, shown, timer, stopped,
                 forgiven>>

\* /api/quit or a signal: every watcher has the same context, and the streams
\* and requests end with the program.
Stop ==
  /\ ~stopped /\ stopped' = TRUE
  /\ open' = FALSE /\ channel' = <<>>
  /\ tab' = "front" /\ task' = "none" /\ tlst' = 0 /\ pressed' = FALSE /\ answers' = {}
  /\ UNCHANGED <<mail, queueing, armed, watcher, index, shown, timer, past>>

NewsNext ==
  \/ Arrive \/ Reappear \/ Elsewhere \/ TellOther \/ Rearm \/ Stop
  \/ \E e \in Ear : Watcher(e)
  \/ Page \/ Press \/ Breaks \/ Turn

NewsSpec == NewsInit /\ [][NewsNext]_news

\* Loops and handlers go on, notifications come back, and a person looks at the
\* window again.
NewsFairness ==
  /\ \A e \in Ear : WF_news(Watcher(e))
  /\ WF_news(Reappear) /\ WF_news(Hear) /\ WF_news(Reconnects) /\ WF_news(Render)
  /\ WF_news(Begin) /\ WF_news(PageWrites) /\ WF_news(Return)
NewsLiveSpec == NewsSpec /\ NewsFairness

-----------------------------------------------------------------------------
(* Properties. *)
\* The page is behind the index it is shown from only as long as something is
\* under way that will make it look: an event in its channel - a full channel
\* skips only what one in it tells as well -, a list on its way, or a refresh
\* between its write and its announcement.
NothingUntold ==
  LET n == index[armed] IN
  open /\ n > shown =>
    \/ forgiven >= n
    \/ HasOwn(channel) \/ n \in answers
    \/ doing[armed] = "tell"

\* With the timer every message is shown in the end, whatever failed on the way.
\* Without it, it is shown unless the notification or the event was lost.
NewsIsShown ==
  \A n \in 1 .. MaxMail :
    (mail >= n) ~> (shown >= n \/ stopped \/ (~timer /\ forgiven >= n))
=============================================================================
