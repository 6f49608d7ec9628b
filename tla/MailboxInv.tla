------------------------------ MODULE MailboxInv ------------------------------
(* The inductive invariant behind the theorems of MailboxProofs: what every  *)
(* step of Mailbox keeps, so that a move never deletes the last copy.        *)
EXTENDS Mailbox

-----------------------------------------------------------------------------
(* Names.  freeKey numbers a name at its end, so a name tells what it was    *)
(* given to, wherever the message has been moved.                            *)
Name ==
  {mid \in Seq(Message \cup {"draft"} \cup Nat) :
     IsMid(mid) /\ (mid[1] = "draft" => Len(mid) >= 2)}
Key == Folder \X Name
ContentOf(mid) == IF mid[1] = "draft" THEN <<"draft", mid[2]>> ELSE mid[1]

\* A map over finitely many keys, as a listing, an index and the bucket are.
IsMap(f, V) == /\ DOMAIN f \subseteq Key /\ IsFiniteSet(DOMAIN f)
               /\ \A k \in DOMAIN f : f[k] \in V
Entry    == [etag : Content \cup {NoETag}, shows : Content \cup {Unreadable}]
IsDoc(d) == DOMAIN d \subseteq Name /\ \A mid \in DOMAIN d : d[mid] \in StateType
Ops ==
  {op \in [t : {"ruled", "flags", "drop", "rekey"}, mid : Name, new : Name \cup {<<>>}] :
     op.t = "rekey" => op.new \in Name}

-----------------------------------------------------------------------------
(* Shared and local state.                                                   *)
\* What there is to be found: the mail that came, and every version of a draft.
There == (arrived \cap Message) \cup {Draft(n) : n \in 1 .. saves}

BucketOK ==
  /\ IsMap(bucket, Content)
  /\ \A k \in DOMAIN bucket : bucket[k] = ContentOf(Mid(k)) /\ bucket[k] \in There

IndexOK ==
  /\ host \in [Worker -> Machine]
  /\ DOMAIN index = Machine /\ DOMAIN disk = Machine
  /\ \A m \in Machine : IsMap(index[m], Entry) /\ IsMap(disk[m], Entry)

StateOK ==
  /\ IsDoc(doc)
  /\ DOMAIN view = Machine /\ \A m \in Machine : IsDoc(view[m])
  /\ pend \in [Machine -> Seq(Ops)]

TallyOK ==
  /\ saves \in 0 .. MaxSaves /\ ops \in 0 .. MaxOp /\ spent \in 0 .. MaxFault
  /\ failed \subseteq FaultKind
  /\ arrived \subseteq There /\ destroyed \subseteq Content /\ bare \subseteq Name
  /\ filed \in [Message -> Nat] /\ overlap \in BOOLEAN /\ crossed \in BOOLEAN
  /\ calm \subseteq Worker

-----------------------------------------------------------------------------
(* The workers.                                                              *)
PcType == {"idle"} \cup RefreshStep \cup BatchStep \cup DraftStep

MemOK(x) ==
  /\ DOMAIN x = DOMAIN Blank
  /\ IsMap(x.listing, Content) /\ IsMap(x.fresh, Entry)
  /\ x.todo \subseteq Key /\ x.keys \subseteq Key
  /\ x.target \in Folder /\ x.back \in {"save", "rule"}
  /\ x.from \in Key \cup {<<>>}
  /\ x.inARow \in 0 .. GiveUpAfter - 1

\* What a worker at a step holds on to.
At(step, x, there) ==
  /\ step = "fetch" => x.todo \subseteq DOMAIN x.listing
  /\ step \in {"copy", "delete", "reindex"} =>
       /\ x.from \in Key /\ x.to \in Key /\ x.entry \in Entry
       /\ FolderOf(x.from) # FolderOf(x.to)
       /\ ContentOf(Mid(x.from)) = ContentOf(Mid(x.to))
  /\ step = "delete" => ContentOf(Mid(x.from)) \in there
  /\ step \in {"flag", "note"} => x.to \in Key /\ x.entry \in Entry
  /\ step \in {"forget", "drop", "dropped", "strike"} => x.from \in Key

WorkersOK ==
  /\ pc \in [Worker -> PcType] /\ DOMAIN mem = Worker
  /\ \A w \in Worker : MemOK(mem[w]) /\ At(pc[w], mem[w], There)

Shape == BucketOK /\ IndexOK /\ StateOK /\ TallyOK /\ WorkersOK

-----------------------------------------------------------------------------
(* Nothing is lost: every message is somewhere where no move is about to     *)
(* delete it.                                                                *)
Doomed(k) == \E w \in Worker : pc[w] = "delete" /\ mem[w].from = k

Kept == ~crossed =>
  \A c \in arrived \ destroyed :
    \E k \in DOMAIN bucket : bucket[k] = c /\ ~Doomed(k)

-----------------------------------------------------------------------------
(* What the index shows.                                                     *)
\* An entry tells what its name tells, or that it could not be read; a draft's
\* has no ETag until a Refresh sees it.
Tells(k, e) == /\ e.etag \in {ContentOf(Mid(k)), NoETag}
               /\ e.shows \in {ContentOf(Mid(k)), Unreadable}
TellsAll(i) == \A k \in DOMAIN i : Tells(k, i[k])

IndexTells == \A m \in Machine : TellsAll(index[m]) /\ TellsAll(disk[m])

\* What a worker at a step brings along for the index.
Brings(step, x) ==
  /\ TellsAll(x.fresh)
  /\ \A k \in DOMAIN x.listing : x.listing[k] = ContentOf(Mid(k))
  /\ step \in {"copy", "delete", "reindex"} => Tells(x.from, x.entry)
  /\ step \in {"flag", "note"} => Tells(x.to, x.entry)

WorkersTell == \A w \in Worker : Brings(pc[w], mem[w])

\* How far an undisturbed Refresh is: what it listed is there still, and what it
\* has no entry for, or an old one, it has fetched or is going to.
Known(i, k) == k \in DOMAIN i /\ i[k].etag = bucket[k]
OnTheWay(step, x, i) ==
  /\ step \in {"compare", "fetch"} => x.listing = bucket
  /\ step = "compare" => x.fresh = <<>>
  /\ step = "fetch" =>
       /\ DOMAIN i \subseteq DOMAIN bucket /\ DOMAIN x.fresh \subseteq DOMAIN bucket
       /\ \A k \in DOMAIN x.fresh : x.fresh[k].etag = bucket[k]
       /\ \A k \in DOMAIN bucket : k \in x.todo \/ k \in DOMAIN x.fresh \/ Known(i, k)

CalmOK == \A w \in calm : OnTheWay(pc[w], mem[w], Index(w))

Telling == IndexTells /\ WorkersTell /\ CalmOK

-----------------------------------------------------------------------------
(* Batches.                                                                  *)
\* Ops wait for as long as a worker of their machine has a batch open.
BatchOpen ==
  \A m \in Machine :
    pend[m] # <<>> => \E w \in Worker : host[w] = m /\ pc[w] \in BatchStep

\* What saving and dropping drafts touches are drafts.
IsDraft(mid) == \E n \in 1 .. MaxSaves : mid = Draft(n)
DraftWork(step, x) ==
  /\ step \in {"put", "flag", "note"} => x.from = <<>> \/ IsDraft(Mid(x.from))
  /\ step \in {"flag", "note"} => IsDraft(Mid(x.to))
  /\ step \in {"drop", "dropped", "strike"} => IsDraft(Mid(x.from))
DraftsOnly == \A w \in Worker : DraftWork(pc[w], mem[w])

\* The state with what the worker's machine has not written yet.
Current(w) == FoldLeft(Apply, doc, pend[host[w]])

-----------------------------------------------------------------------------
(* Filing.                                                                   *)
\* Nothing happened that may make the rules file a message twice.
Orderly == ~overlap /\ failed \cap {"copy", "delete", "crash"} = {} /\ bare = {}
Alone(w) == \A v \in Worker \ {w} : pc[v] = "idle"

RuledAt(d, mid)  == StateOf(d, mid).ruled
RuledFor(w, mid) == RuledAt(Current(w), mid)

\* A message is there once, but while a move is about to delete where it was.
OneCopy(w) ==
  /\ \A j, k \in DOMAIN bucket :
       bucket[j] = bucket[k] /\ bucket[k] \in Message /\ j # k =>
         pc[w] = "delete" /\ {j, k} = {mem[w].from, mem[w].to}
  /\ pc[w] \in {"delete", "reindex"} => mem[w].to \in DOMAIN bucket

\* A message that was filed is marked, under the name it has, or had before the
\* move it is in.
FiledIsRuled(w) ==
  \A k \in DOMAIN bucket :
    bucket[k] \in Message /\ filed[bucket[k]] > 0 =>
      RuledFor(w, IF pc[w] \in {"delete", "reindex"} /\ k = mem[w].to
                  THEN Mid(mem[w].from) ELSE Mid(k))

\* The rules are applied to the state as it is, and to mail that is there.
UpToDate(w) ==
  /\ pc[w] \in RefreshStep => View(w) = Current(w)
  /\ pc[w] \in {"compare", "fetch"} =>
       DOMAIN mem[w].listing \cup DOMAIN mem[w].fresh \subseteq DOMAIN bucket
  /\ pc[w] \in {"fetch", "plan"} => DOMAIN Index(w) \subseteq DOMAIN bucket

\* What they are filing and are going to file are messages not filed before, each
\* of them once.
AtHand(w) ==
  {k \in mem[w].keys : mem[w].back = "rule" /\ pc[w] = "pick"}
    \cup {k \in {mem[w].from} : mem[w].back = "rule" /\ pc[w] = "copy"}
ToFile(w) ==
  {k \in mem[w].todo \cap mem[w].auto :
     pc[w] \in {"rule", "pick", "copy", "delete", "reindex"}} \cup AtHand(w)
FilesOnce(w) ==
  /\ \A k \in ToFile(w) : ContentOf(Mid(k)) \in Message => filed[ContentOf(Mid(k))] = 0
  /\ \A j, k \in ToFile(w) :
       ContentOf(Mid(j)) = ContentOf(Mid(k)) /\ ContentOf(Mid(k)) \in Message => j = k
  /\ \A k \in AtHand(w) : RuledFor(w, Mid(k)) /\ k \notin mem[w].todo
  /\ mem[w].back = "rule" =>
       /\ pc[w] \in {"copy", "delete", "reindex"} => mem[w].keys = {}
       /\ pc[w] = "pick" => \A j, k \in mem[w].keys : j = k

Filing(w) == OneCopy(w) /\ FiledIsRuled(w) /\ UpToDate(w) /\ FilesOnce(w)

FiledWell == \A c \in Message : filed[c] <= 1 /\ (filed[c] > 0 => c \in arrived)
InTurn ==
  Orderly =>
    /\ FiledWell
    /\ \A v, w \in Worker : pc[v] # "idle" /\ pc[w] # "idle" => v = w
    /\ \A w \in Worker : Alone(w) => Filing(w)

-----------------------------------------------------------------------------
(* Marks.                                                                    *)
Marked(d, mid) == StateOf(d, mid).marks
\* It is known why there may be no marks under a name.
Excused(known, mid) == \E p \in known : IsPrefix(p, mid)

\* Ops that are going to take a state to a name.
Hands(op, mid) == op.t = "rekey" /\ op.new = mid
Told(s, mid)   == \E i \in DOMAIN s : Hands(s[i], mid)

\* What waits to be written takes marks from a name that has them by then, on to a
\* name made from it, and strikes no marks but those the history knows of.
OpKeeps(d, known, s, i) ==
  /\ s[i].t = "rekey" =>
       /\ IsPrefix(s[i].mid, s[i].new)
       /\ s[i].mid[1] = Old /\ ~Excused(known, s[i].new) =>
            Marked(d, s[i].mid) \/ \E j \in 1 .. i - 1 : Hands(s[j], s[i].mid)
  /\ s[i].t = "drop" /\ s[i].mid[1] = Old => s[i].mid \in known
  /\ s[i].t = "flags" => s[i].mid[1] # Old
OpsKeep(d, known, s) == \A i \in DOMAIN s : OpKeeps(d, known, s, i)

\* The name a move has given to a copy, until the state follows.
Awaited(mid) ==
  \E w \in Worker : /\ pc[w] \in {"delete", "reindex"}
                    /\ Mid(mem[w].to) = mid /\ Mid(mem[w].from) # mid

NamedOn ==
  \A w \in Worker :
    pc[w] \in {"copy", "delete", "reindex"} =>
      IsPrefix(Mid(mem[w].from), Mid(mem[w].to))

\* Every copy of Old has marks under its name, or is going to.
MarksFollow(k) ==
  /\ Mid(k)[1] = Old
  /\ \/ Excused(bare, Mid(k)) \/ Marked(doc, Mid(k)) \/ Awaited(Mid(k))
     \/ \E m \in Machine : Told(pend[m], Mid(k))

Marking ==
  /\ Old \in arrived
  /\ NamedOn
  /\ \A m \in Machine : OpsKeep(doc, bare, pend[m])
  /\ \A k \in DOMAIN bucket : bucket[k] = Old => MarksFollow(k)

=============================================================================
