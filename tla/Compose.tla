-------------------------------- MODULE Compose --------------------------------
(***************************************************************************)
(* Writing a message: the dialog of the page (web/assets/inbox.html), the  *)
(* routes that store a draft and send (web/send.go), what they put into    *)
(* the message (mailer/send.go) and what a draft reads as when it is       *)
(* opened again (mimeparse).                                               *)
(*                                                                         *)
(* Recipients, subject and text are one version number, the blind copy     *)
(* apart; every change of the writer is a new version.  A file is taken    *)
(* out together with such a change only: the page counts the attachments,  *)
(* so one exchanged for another is no change to it.  What the markers of a *)
(* send in progress are for is in Sending.                                 *)
(***************************************************************************)
EXTENDS Integers, FiniteSets

CONSTANTS
  Incoming,    \* messages to answer or forward
  File,        \* files to attach
  None,        \* no message, no key
  First, Kept, \* the key of a draft that lies there, and its attachments
  Patient,     \* the writer waits for the answer before going on
  MaxTyped, MaxCalls, MaxFault  \* bounds: changes, requests, failures

Constants ==
  /\ First \notin Nat \cup {None} /\ None \notin Nat
  /\ \A k \in Incoming : k \notin Nat \cup {First, None}
  /\ IsFiniteSet(File) /\ Kept \subseteq File /\ Patient \in BOOLEAN
  /\ MaxTyped \in Nat /\ MaxCalls \in Nat /\ MaxFault \in Nat

VARIABLES
  drafts,   \* the drafts folder: key -> message
  sent,     \* the messages that went out
  current,  \* the page: the message that was clicked,
  view,     \* the one that is shown, with its buttons,
  dlg,      \* the dialog,
  calls,    \* and its requests, unanswered
  owed,     \* history: what was written and not written over: version, attachments
  excused,  \* history: the versions for which a call failed
  astray,   \* history: what was left for another message, or for none: a pair of them
  typed, made, spent  \* counters behind the bounds

vars == <<drafts, sent, current, view, dlg, calls, owed, excused, astray, typed, made, spent>>
server == <<drafts, sent>>
history == <<owed, excused, astray, typed, spent>>

Fault == spent < MaxFault /\ spent' = spent + 1
Ready == Patient => calls = {}
\* The messages of a set are left for another one.
Strays(from, to) == astray' = astray \cup ((from \cap Incoming) \X {to})

-----------------------------------------------------------------------------
(* The message. *)
\* The mail goes to all of them, and the header says so, but for the blind copies
\* of what is sent; only a draft keeps them, to know them when it is opened again.
Envelope(e) == {"to"} \cup (IF e.bcc THEN {"bcc"} ELSE {})
Header(e, keepBcc) == IF keepBcc THEN Envelope(e) ELSE Envelope(e) \ {"bcc"}

\* What goes into the message: a reply names what it answers, a forward carries
\* it, if it was there.
Build(e, original, raw, keepBcc) ==
  [mode |-> e.mode, text |-> e.text, quotes |-> e.quotes, bcc |-> e.bcc, atts |-> e.atts,
   thread |-> IF e.mode = "reply" THEN original ELSE None,
   eml |-> IF e.mode = "forward" THEN raw ELSE None,
   header |-> Header(e, keepBcc), envelope |-> Envelope(e)]

\* Every part with a name is an attachment, a forwarded message too.
Named(m) == m.atts \cup ({m.eml} \ {None})
\* What the page is told of a message.
Read(m) ==
  [text |-> m.text, quotes |-> m.quotes, bcc |-> "bcc" \in m.header, atts |-> Named(m)]

Blank == [text |-> 0, quotes |-> None, bcc |-> FALSE, atts |-> {}]
Nothing == [key |-> None, mail |-> Blank]
Draft ==
  Build([mode |-> "new", text |-> 0, quotes |-> None, bcc |-> TRUE, atts |-> Kept],
        None, None, TRUE)

-----------------------------------------------------------------------------
(* The dialog. *)
\* Mutant: a file is not a change.
StateOfText(d) == <<d.text, d.bcc>>
\* composeState: how the page tells whether there is anything to save.
State(d) == <<d.text, d.bcc, Cardinality(d.atts)>>
Start(d) == [d EXCEPT !.start = State(d)]
Shut(d)  == [d EXCEPT !.open = FALSE]
\* What counts as the same: every change of the fields is a version of its own.
Version(x) == [text |-> x.text, files |-> Cardinality(x.atts)]

Closed ==
  [open |-> FALSE, mode |-> "new", draftKey |-> None, start |-> <<>>,
   text |-> 0, quotes |-> None, bcc |-> FALSE, atts |-> {}]

Init ==
  /\ drafts = [k \in {First} |-> Draft] /\ sent = {}
  /\ current = None /\ view = Nothing /\ dlg = Closed /\ calls = {}
  /\ owed = {Version(Draft)} /\ excused = {} /\ astray = {}
  /\ typed = 0 /\ made = 0 /\ spent = 0

Call(c) == made < MaxCalls /\ made' = made + 1 /\ calls' = calls \cup {c}

\* draftBody: the message that is answered is the one clicked last.
Body ==
  [key |-> IF dlg.mode = "new" THEN None ELSE current, mode |-> dlg.mode,
   draftKey |-> dlg.draftKey, text |-> dlg.text, quotes |-> dlg.quotes,
   bcc |-> dlg.bcc, atts |-> dlg.atts]
SaveCall(shuts) ==
  Call([at |-> "asked", id |-> made, kind |-> "save", body |-> Body, shuts |-> shuts])

\* The messages that were clicked and have not come yet, and the one that is answered.
Coming == {c.key : c \in {x \in calls : x.kind = "open"}}
Answered == IF dlg.open /\ dlg.mode # "new" THEN {dlg.quotes} ELSE {}

\* open(key): the choice is made at once, the message comes later.
Choose(key, shown) ==
  /\ Ready /\ ~dlg.open
  /\ current' = key /\ view' = shown /\ Strays(Coming, key)
  /\ Call([at |-> "asked", id |-> made, kind |-> "open", key |-> key])
  /\ UNCHANGED <<server, dlg, owed, excused, typed, spent>>
\* Mutant: the message before is shown until the next one comes.
ClickOver(key) == Choose(key, view)
Click(key) == Choose(key, Nothing)

\* Another folder, a conversation, a message moved or deleted: nothing is clicked
\* any more, and the view is emptied or stands.  Of a move or a deletion the
\* answer may come under an open dialog; it is a request like the others.
Leave ==
  /\ Ready /\ (Patient => ~dlg.open) /\ made < MaxCalls /\ made' = made + 1
  /\ current' = None /\ (view' = Nothing \/ (view' = view /\ ~dlg.open))
  /\ <<current', view'>> # <<current, view>>
  /\ Strays(Coming \cup Answered \cup {view'.key}, None)
  /\ UNCHANGED <<server, dlg, calls, owed, excused, typed, spent>>

\* compose: a reply, a forward, or a new message, prefilled from what is shown.
Compose(mode) ==
  /\ Ready /\ ~dlg.open /\ typed < MaxTyped
  /\ mode # "new" => view # Nothing /\ view.key \in Incoming
  /\ typed' = typed + 1
  /\ dlg' = Start([Closed EXCEPT !.open = TRUE, !.mode = mode, !.text = typed',
                                 !.quotes = IF mode = "new" THEN None ELSE view.key])
  /\ UNCHANGED <<server, current, view, calls, owed, excused, astray, made, spent>>

\* editDraft: the fields at once, the attachments one by one, and only then is
\* it noted where the writer started.
Edit ==
  /\ Ready /\ ~dlg.open /\ view # Nothing /\ view.key \notin Incoming
  /\ LET at == [Closed EXCEPT !.open = TRUE, !.draftKey = view.key, !.start = State(Blank),
                              !.text = view.mail.text, !.quotes = view.mail.quotes,
                              !.bcc = view.mail.bcc] IN
     IF view.mail.atts = {}
       THEN dlg' = Start(at) /\ UNCHANGED <<calls, made>>
       ELSE dlg' = at /\ Call([at |-> "asked", id |-> made, kind |-> "files",
                               key |-> view.key, left |-> view.mail.atts])
  /\ UNCHANGED <<server, current, view, history>>

\* What the dialog held before is written over.
Change(d) ==
  /\ Ready /\ dlg.open /\ d # dlg /\ dlg' = d
  /\ owed' = (owed \ {Version(dlg)}) \cup {Version(d)}
  /\ UNCHANGED <<server, current, view, calls, excused, astray, made, spent>>
Write(bcc, files) ==
  /\ typed < MaxTyped /\ typed' = typed + 1
  /\ Change([dlg EXCEPT !.text = typed', !.bcc = bcc, !.atts = files])
Attach(f) == Change([dlg EXCEPT !.atts = @ \cup {f}]) /\ UNCHANGED typed

Save ==
  /\ Ready /\ dlg.open /\ SaveCall(TRUE)
  /\ UNCHANGED <<server, current, view, dlg, history>>
\* Closing saves what was written since.
Close ==
  /\ Ready /\ dlg.open /\ dlg' = Shut(dlg)
  /\ IF State(dlg) = dlg.start THEN UNCHANGED <<calls, made>>
     ELSE SaveCall(FALSE)
  /\ UNCHANGED <<server, current, view, history>>
\* The button is off until the answer is there.
Send ==
  /\ Ready /\ dlg.open /\ ~ \E c \in calls : c.kind = "send"
  /\ Call([at |-> "asked", id |-> made, kind |-> "send", body |-> Body])
  /\ UNCHANGED <<server, current, view, dlg, history>>

-----------------------------------------------------------------------------
(* The server. *)
Becomes(c, d) == calls' = (calls \ {c}) \cup {d}
Fails(c) ==
  /\ Fault /\ Becomes(c, [c EXCEPT !.at = "failed"]) /\ excused' = excused \cup {c.body.text}
  /\ UNCHANGED server

\* The new version goes in under a key of its own, then the old one out - unless
\* that fails, which nobody is told.
StoreDraft(c) ==
  /\ c.kind = "save" /\ c.at = "asked"
  /\ \/ Fails(c)
     \/ \E gone \in {{c.body.draftKey}, {}} :
          /\ \/ gone # {} /\ UNCHANGED spent
             \/ gone = {} /\ c.body.draftKey # None /\ Fault
          /\ drafts' = [k \in (DOMAIN drafts \ gone) \cup {c.id} |->
                          IF k = c.id THEN Build(c.body, None, None, TRUE) ELSE drafts[k]]
          /\ Becomes(c, [c EXCEPT !.at = "ok"]) /\ UNCHANGED <<sent, excused>>
  /\ UNCHANGED <<current, view, dlg, owed, astray, typed, made>>

\* The message goes out, with what it forwards unless that cannot be fetched a
\* second time; its draft goes, unless that fails.
Deliver(c) ==
  /\ c.kind = "send" /\ c.at = "asked"
  /\ \/ Fails(c) /\ UNCHANGED astray
     \/ \E raw \in {c.body.key} \cup (IF c.body.mode = "forward" THEN {None} ELSE {}),
           gone \in {{c.body.draftKey}, {}} :
          /\ \/ raw = c.body.key /\ gone # {} /\ UNCHANGED spent
             \/ (raw = c.body.key) # (gone # {}) /\ Fault
          /\ Strays(IF raw = c.body.key THEN {} ELSE {c.body.quotes}, None)
          /\ sent' = sent \cup {Build(c.body, c.body.key, raw, FALSE)}
          /\ drafts' = [k \in DOMAIN drafts \ gone |-> drafts[k]]
          /\ Becomes(c, [c EXCEPT !.at = "ok"]) /\ UNCHANGED excused
  /\ UNCHANGED <<current, view, dlg, owed, typed, made>>

-----------------------------------------------------------------------------
(* The answers. *)
Done(c) == calls' = calls \ {c}

\* The message is shown, whatever was clicked since; without an answer nothing is.
Shown(c) ==
  /\ c.kind = "open" /\ Done(c)
  /\ \/ /\ c.key \in Incoming \cup DOMAIN drafts
        /\ view' = [key |-> c.key, mail |-> IF c.key \in Incoming THEN Blank ELSE Read(drafts[c.key])]
        /\ UNCHANGED spent
     \/ Fault /\ UNCHANGED view
     \/ c.key \notin Incoming \cup DOMAIN drafts /\ UNCHANGED <<view, spent>>
  /\ UNCHANGED <<server, current, dlg, owed, excused, astray, typed, made>>

\* An attachment arrives in the dialog that is there by then; one that does not
\* arrive is passed over.
Fetched(c) ==
  /\ c.kind = "files"
  /\ \E f \in c.left :
       LET rest == c.left \ {f}
           with == [dlg EXCEPT !.atts = @ \cup {f}]
           on(d) == dlg' = IF rest = {} THEN Start(d) ELSE d
       IN /\ IF rest = {} THEN Done(c) ELSE Becomes(c, [c EXCEPT !.left = rest])
          /\ \/ c.key \in DOMAIN drafts /\ on(with) /\ UNCHANGED <<excused, spent>>
             \/ c.key \notin DOMAIN drafts /\ on(dlg) /\ UNCHANGED <<excused, spent>>
             \/ Fault /\ on(dlg) /\ excused' = excused \cup {dlg.text}
  /\ UNCHANGED <<server, current, view, owed, astray, typed, made>>

\* The draft is stored: its key is that of the dialog, and it closes if asked to.
Saved(c) ==
  /\ c.kind = "save" /\ c.at # "asked" /\ Done(c)
  /\ LET d == Start([dlg EXCEPT !.draftKey = c.id]) IN
     dlg' = IF c.at = "failed" THEN dlg ELSE IF c.shuts THEN Shut(d) ELSE d
  /\ UNCHANGED <<server, current, view, history, made>>

\* It is out: nothing left to save, and the dialog closes.
Out(c) ==
  /\ c.kind = "send" /\ c.at # "asked" /\ Done(c)
  /\ dlg' = IF c.at = "failed" THEN dlg ELSE Shut(Start(dlg))
  /\ UNCHANGED <<server, current, view, history, made>>

Next ==
  \/ \E key \in Incoming \cup DOMAIN drafts : Click(key)
  \/ \E mode \in {"new", "reply", "forward"} : Compose(mode)
  \/ Leave \/ Edit \/ Save \/ Close \/ Send
  \/ \E b \in BOOLEAN, files \in SUBSET dlg.atts : Write(b, files)
  \/ \E f \in File : Attach(f)
  \/ \E c \in calls :
       StoreDraft(c) \/ Deliver(c) \/ Shown(c) \/ Fetched(c) \/ Saved(c) \/ Out(c)
Spec == Init /\ [][Next]_vars

-----------------------------------------------------------------------------
Ref  == Incoming \cup {None, First} \cup Nat
Text == 0 .. MaxTyped
Mode == {"new", "reply", "forward"}
Parts == SUBSET {"to", "bcc"}
Mails == [text : Text, quotes : Ref, bcc : BOOLEAN, atts : SUBSET File]
Messages == [mode : Mode, text : Text, quotes : Ref, bcc : BOOLEAN, atts : SUBSET File,
             thread : Ref, eml : Ref, header : Parts, envelope : Parts]
Bodies == [key : Ref, mode : Mode, draftKey : Ref, text : Text, quotes : Ref,
           bcc : BOOLEAN, atts : SUBSET File]
Dialogs == [open : BOOLEAN, mode : Mode, draftKey : Ref,
            start : {<<>>} \cup (Text \X BOOLEAN \X Nat),
            text : Text, quotes : Ref, bcc : BOOLEAN, atts : SUBSET File]
Requests ==
       [at : {"asked"}, id : Nat, kind : {"open"}, key : Ref]
  \cup [at : {"asked"}, id : Nat, kind : {"files"}, key : Ref, left : SUBSET File]
  \cup [at : {"asked", "ok", "failed"}, id : Nat, kind : {"save"}, body : Bodies, shuts : BOOLEAN]
  \cup [at : {"asked", "ok", "failed"}, id : Nat, kind : {"send"}, body : Bodies]

TypeOK ==
  /\ DOMAIN drafts \subseteq Ref
  /\ \A k \in DOMAIN drafts : drafts[k] \in Messages /\ drafts[k].eml = None
  /\ sent \subseteq Messages
  /\ current \in Ref /\ view \in [key : Ref, mail : Mails]
  /\ dlg \in Dialogs /\ (dlg.open => dlg.start # <<>>) /\ calls \subseteq Requests
  /\ owed \subseteq [text : Text, files : 0 .. Cardinality(File)] /\ excused \subseteq Text
  /\ astray \subseteq Incoming \X Ref
  /\ typed \in Text /\ made \in 0 .. MaxCalls /\ spent \in 0 .. MaxFault

\* Of what can be told apart by what was written in it, and where it is going.
Asked  == {c \in calls : c.kind \in {"save", "send"} /\ c.at = "asked"}
Loading == \E c \in calls : c.kind = "files"
Landed  == \E c \in calls : c.at = "ok"

\* A key is given once: neither the page nor the folder has that of a draft that is
\* about to be stored.
Given == {First} \cup 0 .. (made - 1)
KeysFresh ==
  /\ DOMAIN drafts \subseteq Given /\ view.key \in Incoming \cup {None} \cup Given
  /\ dlg.draftKey \in {None} \cup Given
  /\ \A c \in calls : c.id \in 0 .. (made - 1)
  /\ \A c \in Asked : c.kind = "save" => c.id \notin DOMAIN drafts /\ c.id # view.key
  /\ view.key \in DOMAIN drafts => view.mail = Read(drafts[view.key])

\* Nothing has a version that is still to be written.
TextsKnown ==
  /\ dlg.text <= typed /\ view.mail.text <= typed
  /\ \A k \in DOMAIN drafts : drafts[k].text <= typed
  /\ \A c \in calls : c.kind \in {"save", "send"} => c.body.text <= typed

\* The writer waits for each answer.
InTurn ==
  /\ \A c, d \in calls : c = d
  /\ \A c \in calls :
       /\ c.kind = "open" => ~dlg.open
       /\ c.kind = "files" => dlg.open /\ dlg.draftKey = c.key
       /\ c.kind \in {"save", "send"} /\ dlg.open =>
            c.body.draftKey = dlg.draftKey /\ Version(c.body) = Version(dlg)
       /\ c.kind = "save" /\ ~c.shuts => ~dlg.open

\* A version is safe in the drafts but for the key k, in what was sent, or excused.
SafeBut(k, v) ==
  \/ v.text \in excused
  \/ \E x \in DOMAIN drafts \ {k} : Version(drafts[x]) = v
  \/ \E m \in sent : Version(m) = v
\* Where the writer started, and what may be closed unsaved.
Begun == [text |-> dlg.start[1], files |-> dlg.start[3]]
Accounted ==
  /\ \A v \in owed :
       /\ Loading \/ Landed \/ (~dlg.open /\ Asked = {}) => SafeBut(None, v)
       /\ dlg.open /\ ~Loading /\ ~Landed =>
            /\ SafeBut(dlg.draftKey, v) \/ v = Version(dlg)
            /\ v = Begun => SafeBut(None, v)
       /\ \A c \in Asked : SafeBut(c.body.draftKey, v) \/ v = Version(c.body)
  /\ dlg.open /\ ~Loading =>
       dlg.start[1] \in 0 .. typed /\ (dlg.text = dlg.start[1] => Cardinality(dlg.atts) >= dlg.start[3])
  /\ \A c \in calls : c.kind = "files" /\ c.key \in DOMAIN drafts =>
       /\ dlg.text = drafts[c.key].text
       /\ dlg.text \in excused \/ dlg.atts \cup c.left = drafts[c.key].atts

Has(v, x) == x.text = v.text /\ Cardinality(x.atts) >= v.files

\* What somebody has written, attachments included, is in the dialog, on its way,
\* a draft, or sent - whatever was opened, saved, continued and closed, in
\* whatever order -, unless they wrote over it or a call failed for it.
WrittenIsKept ==
  \A v \in owed :
    \/ v.text \in excused
    \/ dlg.open /\ Has(v, dlg)
    \/ \E c \in calls : c.kind \in {"save", "send"} /\ c.at = "asked" /\ Has(v, c.body)
    \/ \E k \in DOMAIN drafts : Has(v, drafts[k])
    \/ \E m \in sent : Has(v, m)

\* The message named is the one that is meant, or that one was left for it.
Follows(quoted, key) == key = quoted \/ <<quoted, key>> \in astray

\* A message that went out reaches the blind copies and does not name them, in
\* whichever draft they were noted; a reply hangs on the message that it quotes
\* and a forward carries it, whoever clicks what in the meantime - unless that
\* message was left, for another folder or before it was there, or could not be
\* fetched a second time.
SentAsWritten ==
  \A m \in sent :
    /\ "bcc" \notin m.header /\ ("bcc" \in m.envelope <=> m.bcc)
    /\ m.mode = "reply" => Follows(m.quotes, m.thread)
    /\ m.mode = "forward" => Follows(m.quotes, m.eml)

\* What is shown, on its way, in the dialog or in a request is the message that
\* was clicked last, unless it was left.
Straight ==
  /\ view.key \in Incoming => Follows(view.key, current)
  /\ \A k \in Coming : k \in Incoming => Follows(k, current)
  /\ \A q \in Answered : q \in Incoming /\ Follows(q, current)
  /\ \A c \in calls : c.kind \in {"save", "send"} /\ c.body.mode # "new" =>
       c.body.quotes \in Incoming /\ Follows(c.body.quotes, c.body.key)
=============================================================================
