------------------------------- MODULE Mailbox -------------------------------
(***************************************************************************)
(* The mailbox of store/mail.go: the index each machine keeps over the     *)
(* bucket, and the operations that change bucket, index and state.         *)
(* Refresh and the rules, moving, deleting for good, saving and dropping a *)
(* draft run as handlers of a machine; every S3 call and every section     *)
(* under the index lock is a step.                                         *)
(*                                                                         *)
(* An object is the content it holds, and the content is its ETag.  The    *)
(* shared state is one document here, of which a machine has the copy it   *)
(* loaded last; how the document gets from one machine to the next is the  *)
(* subject of OpLog, the IMAP numbers a move gives up that of UIDs.        *)
(***************************************************************************)
EXTENDS Integers, SequencesExt

CONSTANTS Worker,      \* handlers and watchers, goroutines of a machine
          Machine,
          Message,     \* the mail there may be
          Old,         \* the message that is there, and marked, at the start
          RuleHits,    \* the messages the rule files
          GiveUpAfter, \* movesGiveUpAfter: failures in a row that end a Move
          AllowDelete, \* whether deleting for good is switched on
          MaxSaves,    \* bound: versions of the draft
          MaxOp,       \* bound: operations begun and messages delivered
          MaxFault,    \* bound: things that go wrong
          Faults       \* which, a subset of FaultKind

FaultKind == {"list", "get", "copy", "delete", "put", "crash"}

Inbox   == "inbox"
Archive == "archiv"
Trash   == "trash"
Drafts  == "drafts"
Folder  == {Inbox, Archive, Trash, Drafts}
RuleTarget == Archive

ASSUME MailboxAssumption ==
  /\ IsFiniteSet(Worker) /\ Machine # {} /\ IsFiniteSet(Message)
  /\ Old \in Message /\ RuleHits \subseteq Message
  /\ "draft" \notin Message /\ \A n \in 1 .. MaxSaves : <<"draft", n>> \notin Message
  /\ GiveUpAfter \in Nat \ {0} /\ AllowDelete \in BOOLEAN
  /\ MaxSaves \in Nat /\ MaxOp \in Nat /\ MaxFault \in Nat
  /\ Faults \subseteq FaultKind

Draft(n)   == <<"draft", n>>
Content    == Message \cup {Draft(n) : n \in 1 .. MaxSaves}
NoETag     == <<>>
Unreadable == <<"unreadable">>
\* A base name: the message it was given to, and the numbers freeKey added.
\* A key is a folder and a base name.
IsMid(mid)  == mid # <<>> /\ mid[1] \in Message \cup {"draft"}
IsKey(k)    == k[1] \in Folder /\ IsMid(k[2])
FolderOf(k) == k[1]
Mid(k)      == k[2]
KeyFor(mid, folder) == <<folder, mid>>
\* A message comes under a name of its own; so does every version of a draft.
BaseName(c) == IF c \in Message THEN <<c>> ELSE c
DraftKey(n) == KeyFor(BaseName(Draft(n)), Drafts)
Home(c)     == KeyFor(BaseName(c), Inbox)

VARIABLES
  bucket,   \* the mail objects: key -> content
  doc,      \* the shared state: base name -> [marks, ruled], marks standing
            \* for all that is known of a message: read, starred, tags, notes
  host,     \* worker -> its machine; does not change
  index,    \* per machine: key -> [etag, shows]
  disk,     \* per machine: the index as written to the cache file
  view,     \* per machine: the document as loaded and changed here
  pend,     \* per machine: the ops not written yet
  pc,       \* per worker: the next step
  mem,      \* per worker: what it holds on to between steps
  saves, ops, spent,   \* counters behind the bounds
  failed,    \* history: the kinds of failure so far
  arrived,   \* history: the messages there are, drafts that were stored too
  destroyed, \* history: messages deleted for good, on request, and drafts that
             \* were dropped, or replaced by a version that is there
  bare,      \* history: base names whose state a drop has struck, or which a
             \* move has given to a copy and not got to its end, or before the
             \* name it had was told of
  filed,     \* history: how often the rules moved a message
  overlap,   \* history: two operations ran at once
  crossed,   \* history: a move copied to where another was about to delete
  calm       \* history: the refreshes during which nothing else changed

shared  == <<bucket, doc>>
local   == <<index, disk, view, pend>>
tally   == <<ops, spent, failed>>
history == <<arrived, destroyed, bare, filed, overlap, crossed>>
vars == <<shared, host, local, pc, mem, saves, tally, history, calm>>

Blank == [listing |-> <<>>, todo |-> {}, fresh |-> <<>>, auto |-> {},
          keys |-> {}, target |-> Inbox, back |-> "save", from |-> <<>>,
          to |-> <<>>, entry |-> <<>>, inARow |-> 0]

RefreshStep == {"list", "compare", "fetch", "plan"}
BatchStep   == {"rule", "pick", "copy", "delete", "reindex", "purge", "forget",
                "save", "flush"}
DraftStep   == {"put", "flag", "note", "drop", "dropped", "strike"}
StateType   == [marks : BOOLEAN, ruled : BOOLEAN]

TypeOK ==
  /\ \A k \in DOMAIN bucket : IsKey(k) /\ bucket[k] \in Content
  /\ \A d \in {doc} \cup Range(view) :
       \A mid \in DOMAIN d : IsMid(mid) /\ d[mid] \in StateType
  /\ host \in [Worker -> Machine]
  /\ \A i \in Range(index) \cup Range(disk) : \A k \in DOMAIN i :
       /\ IsKey(k) /\ i[k].etag \in Content \cup {NoETag}
       /\ i[k].shows \in Content \cup {Unreadable}
  /\ pc \in [Worker -> {"idle"} \cup RefreshStep \cup BatchStep \cup DraftStep]
  /\ \A w \in Worker :
       /\ DOMAIN mem[w] = DOMAIN Blank
       /\ \A k \in mem[w].todo \cup mem[w].keys : IsKey(k)
       /\ mem[w].inARow \in 0 .. GiveUpAfter - 1
       /\ pc[w] \in {"copy", "delete", "reindex"} =>
            /\ IsKey(mem[w].from) /\ IsKey(mem[w].to)
            /\ FolderOf(mem[w].from) # FolderOf(mem[w].to)
  /\ saves \in 0 .. MaxSaves /\ ops \in 0 .. MaxOp /\ spent \in 0 .. MaxFault
  /\ destroyed \subseteq Content /\ failed \subseteq FaultKind
  /\ arrived \subseteq Content /\ \A mid \in bare : IsMid(mid)
  /\ filed \in [Message -> Nat] /\ overlap \in BOOLEAN /\ crossed \in BOOLEAN
  /\ calm \subseteq Worker

\* One message is there, known and marked; if the rules know it, too, they have
\* filed it once and the reader has moved it back.
Init ==
  /\ bucket = [k \in {Home(Old)} |-> Old]
  /\ \E r \in BOOLEAN : doc = [mid \in {<<Old>>} |-> [marks |-> TRUE, ruled |-> r]]
  /\ host \in [Worker -> Machine]
  /\ index = [m \in Machine |-> [k \in {Home(Old)} |-> [etag |-> Old, shows |-> Old]]]
  /\ disk = index /\ view = [m \in Machine |-> doc]
  /\ pend = [m \in Machine |-> <<>>]
  /\ pc = [w \in Worker |-> "idle"] /\ mem = [w \in Worker |-> Blank]
  /\ saves = 0 /\ ops = 0 /\ spent = 0 /\ failed = {}
  /\ arrived = {Old} /\ destroyed = {} /\ bare = {}
  /\ filed = [c \in Message |-> IF c = Old /\ doc[<<Old>>].ruled THEN 1 ELSE 0]
  /\ overlap = FALSE /\ crossed = FALSE /\ calm = {}

-----------------------------------------------------------------------------
(* Small change. *)
Without(f, S) == Restrict(f, DOMAIN f \ S)
Set(f, x, v)  == [y \in DOMAIN f \cup {x} |-> IF y = x THEN v ELSE f[y]]
Over(f, g)    == [y \in DOMAIN f \cup DOMAIN g |-> IF y \in DOMAIN f THEN f[y] ELSE g[y]]
Index(w) == index[host[w]]
View(w)  == view[host[w]]
SetIndex(w, i) == index' = [index EXCEPT ![host[w]] = i]
WriteCache(w)  == disk' = [disk EXCEPT ![host[w]] = index'[host[w]]]
Goto(w, step, known) ==
  /\ pc' = [pc EXCEPT ![w] = step]
  /\ mem' = [mem EXCEPT ![w] = known]
End(w) == Goto(w, "idle", Blank)
Idle(w) == pc[w] = "idle"

Fault(kind) ==
  /\ kind \in Faults /\ spent < MaxFault
  /\ spent' = spent + 1
  /\ failed' = failed \cup {kind}
Fine == UNCHANGED <<spent, failed>>

\* What a step disturbs: the refreshes of others, all of them, or none.
Disturbs(w)    == calm' = calm \cap {w}
DisturbsAll    == calm' = {}
DisturbsNobody == UNCHANGED calm

\* A handler begins.
Begin(w, step, known) ==
  /\ Idle(w) /\ ops < MaxOp
  /\ ops' = ops + 1
  /\ overlap' = (overlap \/ \E v \in Worker \ {w} : ~Idle(v))
  /\ Goto(w, step, known)
  /\ UNCHANGED <<shared, host, index, disk, pend, saves, spent, failed, arrived,
                 destroyed, bare, filed, crossed>>

-----------------------------------------------------------------------------
(* The state. *)
NoState == [marks |-> FALSE, ruled |-> FALSE]
StateOf(d, mid) == IF mid \in DOMAIN d THEN d[mid] ELSE NoState

\* Mutant: a message that gets another base name leaves its state behind.
RekeyNothing(d, old, new) == d
\* The op "rekey" copies the state; the old name keeps it.
Rekey(d, old, new) == IF old \in DOMAIN d THEN Set(d, new, d[old]) ELSE d

\* core.Apply, for the ops this module writes.
Apply(d, op) ==
  CASE op.t = "ruled" -> Set(d, op.mid, [StateOf(d, op.mid) EXCEPT !.ruled = TRUE])
    [] op.t = "flags" -> Set(d, op.mid, [StateOf(d, op.mid) EXCEPT !.marks = TRUE])
    [] op.t = "drop"  -> Without(d, {op.mid})
    [] op.t = "rekey" -> Rekey(d, op.mid, op.new)
Op(t, mid) == [t |-> t, mid |-> mid, new |-> <<>>]

\* Mutate: here at once; in the bucket with the last batch of the machine.
Batched(w) == \E v \in Worker : host[v] = host[w] /\ pc'[v] \in BatchStep
Flush(w, unwritten) ==
  IF Batched(w)
  THEN UNCHANGED doc /\ pend' = [pend EXCEPT ![host[w]] = unwritten]
  ELSE /\ doc' = FoldLeft(Apply, doc, unwritten)
       /\ pend' = [pend EXCEPT ![host[w]] = <<>>]
Mutate(w, op) ==
  /\ view' = [view EXCEPT ![host[w]] = Apply(@, op)]
  /\ Flush(w, Append(pend[host[w]], op))

\* The end of a batch, and of the handler.  Move and Delete write the cache
\* file, the rules and DropDraft do not.
Save(w) ==
  /\ pc[w] \in {"save", "flush"}
  /\ End(w)
  /\ Flush(w, pend[host[w]])
  /\ IF pc[w] = "save" THEN disk' = [disk EXCEPT ![host[w]] = Index(w)]
                       ELSE UNCHANGED disk
  /\ DisturbsNobody
  /\ UNCHANGED <<bucket, host, index, view, saves, tally, history>>

-----------------------------------------------------------------------------
(* Mail arrives. *)
Deliver(c) ==
  /\ c \notin arrived /\ ops < MaxOp
  /\ ops' = ops + 1 /\ arrived' = arrived \cup {c}
  /\ bucket' = Set(bucket, Home(c), c)
  /\ DisturbsAll
  /\ UNCHANGED <<doc, host, local, pc, mem, saves, spent, failed, destroyed,
                 bare, filed, overlap, crossed>>

-----------------------------------------------------------------------------
(* Refresh: from the page, which applies the rules afterwards, or from the  *)
(* queue watcher.                                                           *)
\* It starts with State.Load; what this machine has not written yet is kept.
Refresh(w) ==
  /\ Begin(w, "list", Blank)
  /\ view' = [view EXCEPT ![host[w]] = FoldLeft(Apply, doc, pend[host[w]])]
  /\ calm' = calm \cup {w}

List(w) ==
  /\ pc[w] = "list"
  /\ \/ Goto(w, "compare", [Blank EXCEPT !.listing = bucket]) /\ Fine
     \/ End(w) /\ Fault("list")
  /\ DisturbsNobody
  /\ UNCHANGED <<shared, host, local, saves, ops, history>>

\* New, or changed: the ETag differs.
ToFetch(i, listing) ==
  {k \in DOMAIN listing : k \notin DOMAIN i \/ i[k].etag # listing[k]}

\* Mutant: what is gone from the bucket stays in the index.
KeepAll(i, listing) == i
Present(i, listing) == Restrict(i, DOMAIN i \cap DOMAIN listing)

\* Under the lock: what is not listed any more goes, what is to fetch is noted.
Compare(w) ==
  LET listing == mem[w].listing IN
  /\ pc[w] = "compare"
  /\ SetIndex(w, Present(Index(w), listing))
  /\ Goto(w, "fetch", [mem[w] EXCEPT !.todo = ToFetch(Index(w), listing)])
  /\ Disturbs(w)
  /\ UNCHANGED <<shared, host, disk, view, pend, saves, tally, history>>

\* summarize, without the lock: the entry has the listed ETag and shows what is
\* there by now - or that it cannot be read.
Fetch(w) ==
  /\ pc[w] = "fetch" /\ mem[w].todo # {}
  /\ LET k == CHOOSE k \in mem[w].todo : TRUE
         Got(what) ==
           Goto(w, "fetch", [mem[w] EXCEPT
             !.todo = @ \ {k},
             !.fresh = Set(@, k, [etag |-> mem[w].listing[k], shows |-> what])])
     IN \/ Got(IF k \in DOMAIN bucket THEN bucket[k] ELSE Unreadable) /\ Fine
        \/ Got(Unreadable) /\ Fault("get")
  /\ DisturbsNobody
  /\ UNCHANGED <<shared, host, local, saves, ops, history>>

\* Under the lock again: the entries go in, and the cache file is written.
Install(w) ==
  /\ pc[w] = "fetch" /\ mem[w].todo = {}
  /\ SetIndex(w, Over(mem[w].fresh, Index(w)))
  /\ WriteCache(w)
  /\ Goto(w, "plan", Blank) \/ End(w)
  /\ Disturbs(w)
  /\ UNCHANGED <<shared, host, view, pend, saves, tally, history>>

-----------------------------------------------------------------------------
(* ApplyRules, with one rule that files the messages of RuleHits.           *)
SkipsRules(folder) == folder \in {Trash, Drafts}

\* Mutant: the mark is not asked for.
AnyMail(w, mid) == TRUE
NotYetRuled(w, mid) == ~StateOf(View(w), mid).ruled

\* PlanRules over the index and the state as they are now.
Plan(w) ==
  LET pool == {k \in DOMAIN Index(w) : NotYetRuled(w, Mid(k))}
      hit  == {k \in pool : /\ ~SkipsRules(FolderOf(k))
                            /\ Index(w)[k].shows \in RuleHits
                            /\ FolderOf(k) # RuleTarget}
  IN /\ pc[w] = "plan"
     /\ IF pool = {} THEN End(w)
        ELSE Goto(w, "rule", [Blank EXCEPT !.todo = pool, !.auto = hit])
     /\ DisturbsNobody
     /\ UNCHANGED <<shared, host, local, saves, tally, history>>

\* The next action: the mark first, then the move.
Rule(w) ==
  /\ pc[w] = "rule" /\ mem[w].todo # {}
  /\ LET k == CHOOSE k \in mem[w].todo : TRUE
         rest == [mem[w] EXCEPT !.todo = @ \ {k}]
     IN /\ IF k \in mem[w].auto
           THEN Goto(w, "pick", [rest EXCEPT !.keys = {k}, !.target = RuleTarget,
                                             !.back = "rule", !.inARow = 0])
           ELSE Goto(w, "rule", rest)
        /\ Mutate(w, Op("ruled", Mid(k)))
  /\ DisturbsNobody
  /\ UNCHANGED <<bucket, host, index, disk, saves, tally, history>>

RulesDone(w) ==
  /\ pc[w] = "rule" /\ mem[w].todo = {}
  /\ Goto(w, "flush", Blank)
  /\ DisturbsNobody
  /\ UNCHANGED <<shared, host, local, saves, tally, history>>

-----------------------------------------------------------------------------
(* Move: of what the page shows, or one message for the rules.              *)
Move(w, K, f) ==
  /\ K # {} /\ K \subseteq DOMAIN Index(w)
  /\ Begin(w, "pick", [Blank EXCEPT !.keys = K, !.target = f])
  /\ UNCHANGED view /\ DisturbsNobody

\* freeKey: the name, or the first numbered one that this index does not know.
FreeKey(i, mid, f) ==
  IF KeyFor(mid, f) \notin DOMAIN i THEN KeyFor(mid, f)
  ELSE LET Numbered(n) == KeyFor(Append(mid, n), f)
           free == {n \in 1 .. Cardinality(DOMAIN i) : Numbered(n) \notin DOMAIN i}
       IN Numbered(Min(free))

\* The next message: gone from the index, there already, or to be copied.
Pick(w) ==
  LET i == Index(w) IN
  /\ pc[w] = "pick" /\ mem[w].keys # {}
  /\ LET k == CHOOSE k \in mem[w].keys : TRUE
         rest == [mem[w] EXCEPT !.keys = @ \ {k}]
     IN IF k \notin DOMAIN i \/ FolderOf(k) = mem[w].target
        THEN Goto(w, "pick", rest)
        ELSE Goto(w, "copy", [rest EXCEPT !.from = k, !.entry = i[k],
                                !.to = FreeKey(i, Mid(k), mem[w].target)])
  /\ DisturbsNobody
  /\ UNCHANGED <<shared, host, local, saves, tally, history>>

\* Mutant: the message is not left alone after a failure.
CarryOn(w) ==
  Goto(w, IF pc[w] = "copy" THEN "delete" ELSE "reindex", mem[w])
\* Mutant: the limit is noticed one failure late.
NotMovedLate(w) ==
  LET n == mem[w].inARow + 1 IN
  IF n > GiveUpAfter THEN Goto(w, "save", Blank)
  ELSE Goto(w, "pick", [mem[w] EXCEPT !.inARow = n])
\* One more failure: on to the next message, or the end of it all.
NotMoved(w) ==
  LET n == mem[w].inARow + 1 IN
  IF n >= GiveUpAfter THEN Goto(w, "save", Blank)
  ELSE Goto(w, "pick", [mem[w] EXCEPT !.inARow = n])

\* The copy has a base name that state was not taken to.
Bare(w) == {Mid(mem[w].to)} \ {Mid(mem[w].from)}

\* CopyObject.  An error may hide that the copy is there.
Copy(w) ==
  LET from   == mem[w].from
      Copied == bucket' = Set(bucket, mem[w].to, bucket[from])
      c      == bucket[from]
  IN
  /\ pc[w] = "copy"
  /\ \/ /\ from \in DOMAIN bucket
        /\ Copied /\ Goto(w, "delete", mem[w]) /\ Fine
        /\ filed' = IF mem[w].back = "rule" /\ c \in Message
                    THEN [filed EXCEPT ![c] = @ + 1] ELSE filed
        /\ UNCHANGED bare
     \/ /\ from \notin DOMAIN bucket
        /\ NotMoved(w) /\ Fine /\ UNCHANGED <<bucket, filed, bare>>
     \/ /\ from \in DOMAIN bucket
        /\ Copied \/ UNCHANGED bucket
        /\ NotMoved(w) /\ Fault("copy")
        /\ bare' = bare \cup Bare(w) /\ UNCHANGED filed
  /\ crossed' = (crossed \/ \E v \in Worker \ {w} :
                              pc[v] = "delete" /\ mem[v].from = mem[w].to)
  /\ DisturbsAll
  /\ UNCHANGED <<doc, host, local, saves, ops, arrived, destroyed, overlap>>

\* DeleteObject.  After an error the message lies in both places.
Delete(w) ==
  LET Gone == bucket' = Without(bucket, {mem[w].from}) IN
  /\ pc[w] = "delete"
  /\ \/ Gone /\ Goto(w, "reindex", mem[w]) /\ Fine /\ UNCHANGED bare
     \/ /\ Gone \/ UNCHANGED bucket
        /\ NotMoved(w) /\ Fault("delete") /\ bare' = bare \cup Bare(w)
  /\ DisturbsAll
  /\ UNCHANGED <<doc, host, local, saves, ops, arrived, destroyed, filed,
                 overlap, crossed>>

\* A second name, given while the first is known on the machine alone that gave
\* it: where it is to be taken from there is no state yet.
Untold(w) ==
  LET from == Mid(mem[w].from) IN
  IF from[1] = Old /\ ~StateOf(FoldLeft(Apply, doc, pend[host[w]]), from).marks
  THEN Bare(w) ELSE {}

\* The entry goes under its new key, as it was read before the copy; a new base
\* name takes the state along.
Reindex(w) ==
  LET from == mem[w].from
      to   == mem[w].to
  IN /\ pc[w] = "reindex"
     /\ SetIndex(w, Set(Without(Index(w), {from}), to, mem[w].entry))
     /\ Goto(w, "pick", [mem[w] EXCEPT !.inARow = 0])
     /\ IF Mid(to) # Mid(from)
        THEN Mutate(w, [t |-> "rekey", mid |-> Mid(from), new |-> Mid(to)])
        ELSE UNCHANGED <<doc, view, pend>>
     /\ bare' = bare \cup Untold(w)
     /\ DisturbsAll
     /\ UNCHANGED <<bucket, host, disk, saves, tally, arrived, destroyed, filed,
                    overlap, crossed>>

\* All are through: the end of the batch, or on with the rules, after the cache
\* file.
MoveDone(w) ==
  /\ pc[w] = "pick" /\ mem[w].keys = {}
  /\ Goto(w, mem[w].back, mem[w])
  /\ IF mem[w].back = "rule" THEN disk' = [disk EXCEPT ![host[w]] = Index(w)]
                             ELSE UNCHANGED disk
  /\ DisturbsNobody
  /\ UNCHANGED <<shared, host, index, view, pend, saves, tally, history>>

-----------------------------------------------------------------------------
(* Deleting for good, of all the trash or of what a page shows there, which *)
(* may be older than the index.                                             *)
InTrash(w) == {k \in DOMAIN Index(w) : FolderOf(k) = Trash}
                \cup {KeyFor(BaseName(c), Trash) : c \in arrived}

Purge(w, K) ==
  /\ AllowDelete
  /\ K # {}
  /\ Begin(w, "purge", [Blank EXCEPT !.keys = K])
  /\ UNCHANGED view /\ DisturbsNobody

\* An error ends it.  A key that is gone is no error, and its state goes too.
PurgeOne(w) ==
  /\ pc[w] = "purge" /\ mem[w].keys # {}
  /\ LET k == CHOOSE k \in mem[w].keys : TRUE
         Gone == /\ bucket' = Without(bucket, {k})
                 /\ destroyed' = destroyed \cup
                                   {bucket[j] : j \in {k} \cap DOMAIN bucket}
     IN \/ /\ Gone /\ Fine
           /\ Goto(w, "forget", [mem[w] EXCEPT !.keys = @ \ {k}, !.from = k])
        \/ /\ Gone \/ UNCHANGED <<bucket, destroyed>>
           /\ Goto(w, "save", Blank) /\ Fault("delete")
  /\ DisturbsAll
  /\ UNCHANGED <<doc, host, local, saves, ops, arrived, bare, filed, overlap,
                 crossed>>

Forget(w) ==
  LET mid == Mid(mem[w].from) IN
  /\ pc[w] = "forget"
  /\ SetIndex(w, Without(Index(w), {mem[w].from}))
  /\ Goto(w, "purge", [mem[w] EXCEPT !.from = <<>>])
  /\ Mutate(w, Op("drop", mid)) /\ bare' = bare \cup {mid}
  /\ DisturbsAll
  /\ UNCHANGED <<bucket, host, disk, saves, tally, arrived, destroyed, filed,
                 overlap, crossed>>

PurgeDone(w) ==
  /\ pc[w] = "purge" /\ mem[w].keys = {}
  /\ Goto(w, "save", Blank)
  /\ DisturbsNobody
  /\ UNCHANGED <<shared, host, local, saves, tally, history>>

-----------------------------------------------------------------------------
(* Own mail.  Put stores a new version under a name of its own, and the     *)
(* version the page had before is dropped after that; neither opens a batch.*)
OldDrafts(w) == {DraftKey(n) : n \in 1 .. saves}

SaveDraft(w) ==
  /\ saves < MaxSaves
  /\ \E old \in {<<>>} \cup OldDrafts(w) : Begin(w, "put", [Blank EXCEPT !.from = old])
  /\ UNCHANGED view /\ DisturbsNobody

Put(w) ==
  LET c      == Draft(saves')
      Stored == bucket' = Set(bucket, DraftKey(saves'), c)
  IN /\ pc[w] = "put" /\ saves < MaxSaves
     /\ saves' = saves + 1
     /\ \/ /\ Stored /\ arrived' = arrived \cup {c} /\ Fine
           /\ Goto(w, "flag", [mem[w] EXCEPT !.to = DraftKey(saves'),
                                             !.entry = [etag |-> NoETag, shows |-> c]])
        \/ (Stored \/ UNCHANGED bucket) /\ End(w) /\ Fault("put") /\ UNCHANGED arrived
     /\ DisturbsAll
     /\ UNCHANGED <<doc, host, local, ops, destroyed, bare, filed, overlap, crossed>>

Flag(w) ==
  /\ pc[w] = "flag"
  /\ Goto(w, "note", mem[w])
  /\ Mutate(w, Op("flags", Mid(mem[w].to)))
  /\ DisturbsNobody
  /\ UNCHANGED <<bucket, host, index, disk, saves, tally, history>>

\* Into the index right away, without an ETag.  Only now does the old one go.
Note(w) ==
  /\ pc[w] = "note"
  /\ SetIndex(w, Set(Index(w), mem[w].to, mem[w].entry))
  /\ WriteCache(w)
  /\ IF mem[w].from = <<>> THEN End(w) ELSE Goto(w, "drop", [Blank EXCEPT !.from = mem[w].from])
  /\ DisturbsAll
  /\ UNCHANGED <<shared, host, view, pend, saves, tally, history>>

\* After sending, of the draft that was sent.
DropDraft(w) ==
  /\ \E k \in OldDrafts(w) : Begin(w, "drop", [Blank EXCEPT !.from = k])
  /\ UNCHANGED view /\ DisturbsNobody

DropObject(w) ==
  LET k == mem[w].from
      Gone == /\ bucket' = Without(bucket, {k})
              /\ destroyed' = destroyed \cup {bucket[j] : j \in {k} \cap DOMAIN bucket}
  IN
  /\ pc[w] = "drop"
  /\ \/ Gone /\ Goto(w, "dropped", mem[w]) /\ Fine
     \/ (Gone \/ UNCHANGED <<bucket, destroyed>>) /\ End(w) /\ Fault("delete")
  /\ DisturbsAll
  /\ UNCHANGED <<doc, host, local, saves, ops, arrived, bare, filed, overlap, crossed>>

Dropped(w) ==
  /\ pc[w] = "dropped"
  /\ SetIndex(w, Without(Index(w), {mem[w].from}))
  /\ WriteCache(w)
  /\ Goto(w, "strike", mem[w])
  /\ DisturbsAll
  /\ UNCHANGED <<shared, host, view, pend, saves, tally, history>>

Strike(w) ==
  /\ pc[w] = "strike"
  /\ End(w)
  /\ Mutate(w, Op("drop", Mid(mem[w].from)))
  /\ DisturbsNobody
  /\ UNCHANGED <<bucket, host, index, disk, saves, tally, history>>

-----------------------------------------------------------------------------
\* A machine dies and starts again: the cache file is what it knows.
Crash(m) ==
  LET Here == {w \in Worker : host[w] = m} IN
  /\ \E w \in Here : ~Idle(w)
  /\ pc' = [w \in Worker |-> IF w \in Here THEN "idle" ELSE pc[w]]
  /\ mem' = [w \in Worker |-> IF w \in Here THEN Blank ELSE mem[w]]
  /\ pend' = [pend EXCEPT ![m] = <<>>]
  /\ index' = [index EXCEPT ![m] = disk[m]]
  /\ view' = [view EXCEPT ![m] = doc]
  /\ bare' = bare \cup (UNION {Bare(w) : w \in {v \in Here : pc[v] \in {"delete", "reindex"}}})
                  \cup {op.new : op \in {o \in Range(pend[m]) : o.t = "rekey"}}
  /\ Fault("crash")
  /\ DisturbsAll
  /\ UNCHANGED <<shared, host, disk, saves, ops, arrived, destroyed, filed,
                 overlap, crossed>>

Step(w) ==
  \/ List(w) \/ Compare(w) \/ Fetch(w) \/ Install(w)
  \/ Plan(w) \/ Rule(w) \/ RulesDone(w)
  \/ Pick(w) \/ Copy(w) \/ Delete(w) \/ Reindex(w) \/ MoveDone(w) \/ Save(w)
  \/ PurgeOne(w) \/ Forget(w) \/ PurgeDone(w)
  \/ Put(w) \/ Flag(w) \/ Note(w) \/ DropObject(w) \/ Dropped(w) \/ Strike(w)

Next ==
  \/ \E c \in Message : Deliver(c)
  \/ \E w \in Worker :
       \/ Step(w) \/ Refresh(w) \/ SaveDraft(w) \/ DropDraft(w)
       \/ \E K \in SUBSET InTrash(w) : Purge(w, K)
       \/ \E K \in SUBSET DOMAIN Index(w) : \E f \in Folder \ {Drafts} : Move(w, K, f)
  \/ \E m \in Machine : Crash(m)

Spec == Init /\ [][Next]_vars

-----------------------------------------------------------------------------
(* Properties. *)
InBucket(c) == \E k \in DOMAIN bucket : bucket[k] = c

\* A message is not lost: whatever is moved, filed, refreshed, cut off or
\* refused halfway, it is in some folder until somebody deletes it for good -
\* unless a move copied to the very place another was about to delete.
MessageKept ==
  \A c \in arrived : InBucket(c) \/ c \in destroyed \/ crossed

\* What was known about a message survives moving it: between moves, and with
\* every batch written, the marks are there under every name the message has -
\* unless a drop struck that name or the one it comes from, a move or a machine
\* stopped halfway, or a machine that had not been told of a name gave the next.
MarksKept ==
  (\A w \in Worker : pc[w] \notin BatchStep) =>
    \A k \in DOMAIN bucket :
      bucket[k] = Old => \/ StateOf(doc, Mid(k)).marks
                         \/ \E mid \in bare : IsPrefix(mid, Mid(k))

\* The rules file a message once, so moving it back makes it stay: on every
\* machine, as long as operations do not overlap, no move and no batch is cut
\* off, which may leave two copies to file, and no state is dropped.
FiledOnce ==
  ~overlap /\ failed \cap {"copy", "delete", "crash"} = {} /\ bare = {} =>
    \A c \in Message : filed[c] <= 1

\* Whatever earlier refreshes, moves and crashes left in the index, an
\* undisturbed Refresh ends with the keys of the bucket, and every entry shows
\* its message - or is the placeholder of a read that failed.
IndexTrue ==
  [][\A w \in calm :
       Install(w) =>
         LET i == index'[host[w]] IN
         /\ DOMAIN i = DOMAIN bucket
         /\ \A k \in DOMAIN i : /\ i[k].etag = bucket[k]
                                /\ i[k].shows \in {bucket[k], Unreadable}]_vars
=============================================================================
