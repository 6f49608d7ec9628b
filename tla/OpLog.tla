-------------------------------- MODULE OpLog --------------------------------
(***************************************************************************)
(* The shared state of store/state.go: a snapshot object, one op object    *)
(* per write, and on every machine a document in memory, a local file and  *)
(* the changes not yet written.  Several machines share the bucket, and    *)
(* several goroutines share the State of one machine.                      *)
(*                                                                         *)
(* A document is abstracted to the set of changes it reflects; MsgOf names *)
(* the message entry a change touches, which is what MergeMissing looks    *)
(* at.  An op object's key is a number, in key order.                      *)
(***************************************************************************)
EXTENDS Integers, FiniteSets

CONSTANTS Machine,       \* the processes that share the bucket
          Thread,        \* their goroutines: HTTP handlers, the queue watcher
          Host,          \* the machine a thread runs on
          Change,        \* the changes users make
          Msg, MsgOf,    \* messages, and the one a change is about
          MaxName,       \* bound: op names handed out in one behaviour
          CompactAfter,  \* open ops from which they are merged
          MaxFault,      \* bound: how many things go wrong in one behaviour
          Faults         \* what may go wrong, a subset of FaultKind

FaultKind == {"put", "get", "list", "delete", "clock", "crash"}

ASSUME OpLogAssumption ==
  /\ Host \in [Thread -> Machine]
  /\ MsgOf \in [Change -> Msg]
  /\ MaxName \in Nat
  /\ CompactAfter \in Nat \ {0}
  /\ MaxFault \in Nat
  /\ Faults \subseteq FaultKind

Name == 1 .. MaxName
Doc  == SUBSET Change
Shot == [doc : Doc, upto : Nat]

VARIABLES
  snap,      \* the snapshot object: document and watermark (0: none yet)
  objs,      \* the op objects by name ({}: no such object)
  stamps,    \* the names handed out so far
  local,     \* the local file, which survives a crash
  status,    \* "down", "starting" or "up"
  data, pending, openOps, remoteOK, defers, dirty,    \* the fields of State
  pc, inBatch, ask, flight, name, base, lupto, open, shot,  \* per goroutine
  made,      \* history: changes applied by a machine since it started
  acked,     \* history: changes whose caller was told "written"
  known,     \* history: what was acked when a goroutine began its Load
  behind,    \* history: its Load or Compact does not know all it replaces
  struck,    \* history: changes lost to a step of a goroutine that was behind
  entrusted, \* history: acked or asked for, and left to another goroutine's write
  spent      \* bound: how many things have gone wrong

bucket  == <<snap, objs, stamps>>
machine == <<local, status, data, pending, openOps, remoteOK, defers, dirty>>
thread  == <<pc, inBatch, ask, flight, name, base, lupto, open, shot>>
history == <<made, acked, known>>
excuses == <<behind, struck, entrusted>>
vars    == <<bucket, machine, thread, history, excuses, spent>>

Loading == {"base", "list", "fetch", "install"}
Merging == {"list", "fetch", "install", "clone", "snapput"}
Step    == {"idle", "save", "put", "saved", "clone", "snapput", "gc"} \cup Loading

TypeOK ==
  /\ snap \in Shot /\ objs \in [Name -> Doc] /\ stamps \subseteq Name
  /\ local \in [Machine -> Doc]
  /\ status \in [Machine -> {"down", "starting", "up"}]
  /\ data \in [Machine -> Doc] /\ pending \in [Machine -> Doc]
  /\ openOps \in [Machine -> Nat] /\ defers \in [Machine -> Int]
  /\ remoteOK \in [Machine -> BOOLEAN] /\ dirty \in [Machine -> BOOLEAN]
  /\ pc \in [Thread -> Step] /\ inBatch \in [Thread -> BOOLEAN]
  /\ ask \in [Thread -> Doc] /\ flight \in [Thread -> Doc]
  /\ name \in [Thread -> Nat] /\ lupto \in [Thread -> Nat]
  /\ base \in [Thread -> Doc] /\ open \in [Thread -> SUBSET Name]
  /\ shot \in [Thread -> Shot]
  /\ made \in [Machine -> Doc] /\ acked \in Doc /\ known \in [Thread -> Doc]
  /\ behind \in [Thread -> BOOLEAN] /\ struck \in Doc /\ entrusted \in Doc
  /\ spent \in Nat

NoShot == [doc |-> {}, upto |-> 0]

Init ==
  /\ snap = NoShot /\ objs = [n \in Name |-> {}] /\ stamps = {}
  /\ local = [m \in Machine |-> {}] /\ status = [m \in Machine |-> "up"]
  /\ data = [m \in Machine |-> {}] /\ pending = [m \in Machine |-> {}]
  /\ openOps = [m \in Machine |-> 0] /\ defers = [m \in Machine |-> 0]
  /\ remoteOK = [m \in Machine |-> TRUE] /\ dirty = [m \in Machine |-> FALSE]
  /\ pc = [t \in Thread |-> "idle"] /\ inBatch = [t \in Thread |-> FALSE]
  /\ ask = [t \in Thread |-> {}] /\ flight = [t \in Thread |-> {}]
  /\ name = [t \in Thread |-> 0] /\ lupto = [t \in Thread |-> 0]
  /\ base = [t \in Thread |-> {}] /\ open = [t \in Thread |-> {}]
  /\ shot = [t \in Thread |-> NoShot]
  /\ made = [m \in Machine |-> {}] /\ acked = {}
  /\ known = [t \in Thread |-> {}]
  /\ behind = [t \in Thread |-> FALSE] /\ struck = {} /\ entrusted = {}
  /\ spent = 0

Fault(kind) == kind \in Faults /\ spent < MaxFault /\ spent' = spent + 1
Fine == UNCHANGED spent

-----------------------------------------------------------------------------
(* The bucket and the document. *)
\* What a machine that reads the bucket now, without errors, gets to see.
Seen(s) == s.doc \cup UNION {objs[n] : n \in {k \in Name : k > s.upto}}
View == Seen(snap)

\* Mutant: the arguments of MergeMissing swapped.
MergeSwapped(doc, other) ==
  other \cup {c \in doc : \A d \in other : MsgOf[d] # MsgOf[c]}

\* Mutant: the keys of the local document copied, not its entries.
MergeKeys(doc, other) == doc \cup {MsgOf[c] : c \in other}

\* core.MergeMissing: only entries the first document does not know at all.
MergeMissing(doc, other) ==
  doc \cup {c \in other : \A d \in doc : MsgOf[d] # MsgOf[c]}

\* As long as the clocks agree names are handed out in key order.  One that is
\* ahead leaves a gap, which others fill later.
NoGap(n) == \A k \in Name : k < n => k \in stamps

\* Mutant: a name without the instance in it, so that two writers can meet.
FreshNoInstance(n) == n \notin stamps \/ \A k \in Name : k > n => k \notin stamps
\* opName: the instance is part of it, and nobody has had it before.
FreshName(n) == n \notin stamps

\* Mutant: the first open op is taken for the watermark itself.
NewerLate(n, mark) == n > mark + 1
\* Load's filter on op names.
Newer(n, mark) == n > mark

Reapply(doc, waiting) == doc \cup waiting

\* Mutant: a failed write drops what it took.
PutBackNothing(taken, waiting) == waiting
PutBack(taken, waiting) == taken \cup waiting

\* Mutant: the loop over the op objects ends one short.
OpsButLast(names) ==
  UNION {objs[n] : n \in {k \in names : \E later \in names : k < later}}
\* The changes in the op objects of these names.
Ops(names) == UNION {objs[n] : n \in names}

\* Batch: does the end of this batch write?
Flush(m) == defers[m] = 1 /\ dirty[m]

\* Bound: every goroutine that may still write keeps one name in reserve.
NamesLeft ==
  Cardinality(Name \ stamps)
    > Cardinality({u \in Thread : pc[u] = "save" \/ inBatch[u]})

\* A write arrives: nobody's to wait for any more, but not in the lists that
\* already hold a later name, and behind the watermark for no one to see.
Late(t) == pc[t] = "put" /\ name[t] <= snap.upto

Arrives(t) ==
  /\ objs' = [objs EXCEPT ![name[t]] = flight[t]]
  /\ behind' = [u \in Thread |->
       behind[u] \/ (pc[u] \in Merging /\ \E n \in open[u] : name[t] < n)]
  /\ struck' = IF Late(t) THEN struck \cup (flight[t] \ View) ELSE struck
  /\ entrusted' = entrusted \ flight[t]

\* A snapshot arrives: who is between reading the old one and writing the next
\* does not know it; nor may who cleans up trust it, if its writer was behind.
Overwrites(t, own) ==
  /\ snap' = shot[t]
  /\ behind' = [u \in Thread |->
       IF u = t THEN own
       ELSE behind[u] \/ pc[u] \in Merging \/ (pc[u] = "gc" /\ behind[t])]
  /\ struck' = IF behind[t] THEN struck \cup (View \ Seen(shot[t])) ELSE struck
  /\ UNCHANGED entrusted

\* A handler returns; outside a batch, success tells its caller "written".
Return(t) ==
  LET m == Host[t] IN
  /\ pc' = [pc EXCEPT ![t] = "idle"]
  /\ status' = [status EXCEPT ![m] = "up"]
  /\ known' = [known EXCEPT ![t] = {}]
  /\ IF inBatch[t] THEN UNCHANGED <<ask, acked>>
     ELSE /\ acked' = acked \cup ask[t]
          /\ ask' = [ask EXCEPT ![t] = {}]

Goto(t, step) ==
  /\ pc' = [pc EXCEPT ![t] = step]
  /\ UNCHANGED <<status, known, ask, acked>>

-----------------------------------------------------------------------------
(* Mutate, Batch and Save. *)
Mutate(t, c) ==
  LET m == Host[t] IN
  /\ pc[t] = "idle" /\ status[m] = "up"
  /\ inBatch[t] \/ NamesLeft
  /\ \A k \in Machine : c \notin made[k]
  /\ c \notin acked
  /\ data' = [data EXCEPT ![m] = @ \cup {c}]
  /\ pending' = [pending EXCEPT ![m] = @ \cup {c}]
  /\ dirty' = [dirty EXCEPT ![m] = TRUE]
  /\ made' = [made EXCEPT ![m] = @ \cup {c}]
  /\ ask' = [ask EXCEPT ![t] = @ \cup {c}]
  /\ pc' = [pc EXCEPT ![t] = "save"]
  /\ UNCHANGED <<bucket, local, status, openOps, remoteOK, defers,
                 inBatch, flight, name, base, lupto, open, shot, acked, known, excuses, spent>>

BatchBegin(t) ==
  LET m == Host[t] IN
  /\ pc[t] = "idle" /\ ~inBatch[t] /\ status[m] = "up"
  /\ NamesLeft
  /\ defers' = [defers EXCEPT ![m] = @ + 1]
  /\ inBatch' = [inBatch EXCEPT ![t] = TRUE]
  /\ UNCHANGED <<bucket, local, status, data, pending, openOps, remoteOK,
                 dirty, pc, ask, flight, name, base, lupto, open, shot, history, excuses, spent>>

\* The counter is shared: only the batch that brings it to zero writes.
BatchEnd(t) ==
  LET m == Host[t] IN
  /\ pc[t] = "idle" /\ inBatch[t]
  /\ defers' = [defers EXCEPT ![m] = @ - 1]
  /\ inBatch' = [inBatch EXCEPT ![t] = FALSE]
  /\ \/ /\ Flush(m)
        /\ pc' = [pc EXCEPT ![t] = "save"]
        /\ UNCHANGED <<ask, acked, entrusted>>
     \/ /\ ~Flush(m)
        /\ acked' = acked \cup ask[t]
        /\ ask' = [ask EXCEPT ![t] = {}]
        /\ entrusted' = entrusted \cup (ask[t] \ View)
        /\ UNCHANGED pc
  /\ UNCHANGED <<bucket, local, status, data, pending, openOps, remoteOK,
                 dirty, flight, name, base, lupto, open, shot, made, known, behind, struck, spent>>

\* Inside a batch - anybody's on this machine - Save writes nothing.
SaveDeferred(t) ==
  LET m == Host[t] IN
  /\ pc[t] = "save" /\ defers[m] > 0
  /\ dirty' = [dirty EXCEPT ![m] = TRUE]
  /\ Return(t)
  /\ entrusted' = IF inBatch[t] THEN entrusted ELSE entrusted \cup (ask[t] \ View)
  /\ UNCHANGED <<bucket, local, data, pending, openOps, remoteOK, defers,
                 inBatch, flight, name, base, lupto, open, shot, made, behind, struck, spent>>

SaveNothing(t) ==
  LET m == Host[t] IN
  /\ pc[t] = "save" /\ defers[m] = 0 /\ pending[m] = {}
  /\ local' = [local EXCEPT ![m] = data[m]]
  /\ dirty' = [dirty EXCEPT ![m] = FALSE]
  /\ Return(t)
  /\ UNCHANGED <<bucket, data, pending, openOps, remoteOK, defers,
                 inBatch, flight, name, base, lupto, open, shot, made, excuses, spent>>

\* Take everything pending, write the local file, name the op object.
SaveTake(t) ==
  LET m == Host[t] IN
  /\ pc[t] = "save" /\ defers[m] = 0 /\ pending[m] # {}
  /\ flight' = [flight EXCEPT ![t] = pending[m]]
  /\ pending' = [pending EXCEPT ![m] = {}]
  /\ entrusted' = entrusted \cup
                    (pending[m] \cap UNION {ask[u] : u \in Thread \ {t}})
  /\ local' = [local EXCEPT ![m] = data[m]]
  /\ \E n \in Name :
       /\ FreshName(n)
       /\ IF NoGap(n) THEN Fine ELSE Fault("clock")
       /\ name' = [name EXCEPT ![t] = n]
       /\ stamps' = stamps \cup {n}
  /\ Goto(t, "put")
  /\ UNCHANGED <<snap, objs, data, openOps, remoteOK, defers, dirty,
                 inBatch, base, lupto, open, shot, made, behind, struck>>

PutLands(t) ==
  /\ pc[t] = "put"
  /\ Arrives(t)
  /\ Goto(t, "saved")
  /\ UNCHANGED <<snap, stamps, machine, inBatch, flight, name, base, lupto,
                 open, shot, made, spent>>

\* An error from S3; the object may have been stored all the same.
PutFails(t) ==
  LET m == Host[t] IN
  /\ pc[t] = "put" /\ Fault("put")
  /\ Arrives(t) \/ UNCHANGED <<objs, excuses>>
  /\ pending' = [pending EXCEPT ![m] = PutBack(flight[t], @)]
  /\ remoteOK' = [remoteOK EXCEPT ![m] = FALSE]
  /\ flight' = [flight EXCEPT ![t] = {}]
  /\ name' = [name EXCEPT ![t] = 0]
  /\ ask' = [ask EXCEPT ![t] = {}]
  /\ pc' = [pc EXCEPT ![t] = "idle"]
  /\ UNCHANGED <<snap, stamps, local, status, data, openOps, defers, dirty,
                 inBatch, base, lupto, open, shot, history>>

Saved(t) ==
  LET m == Host[t] IN
  /\ pc[t] = "saved"
  /\ remoteOK' = [remoteOK EXCEPT ![m] = TRUE]
  /\ dirty' = [dirty EXCEPT ![m] = FALSE]
  /\ openOps' = [openOps EXCEPT ![m] = @ + 1]
  /\ flight' = [flight EXCEPT ![t] = {}]
  /\ name' = [name EXCEPT ![t] = 0]
  /\ IF openOps[m] + 1 >= CompactAfter THEN Goto(t, "base") ELSE Return(t)
  /\ UNCHANGED <<bucket, local, data, pending, defers, inBatch, base, lupto,
                 open, shot, made, excuses, spent>>

-----------------------------------------------------------------------------
(* Load and Compact. *)
\* Mailbox.Refresh, from a handler or from the queue watcher.
Refresh(t) ==
  /\ pc[t] = "idle" /\ ~inBatch[t] /\ status[Host[t]] = "up"
  /\ Goto(t, "base")
  /\ UNCHANGED <<bucket, local, data, pending, openOps, remoteOK, defers, dirty,
                 inBatch, flight, name, base, lupto, open, shot, made, excuses, spent>>

\* The local file and the snapshot.  An unreadable snapshot counts as none.
LoadBase(t) ==
  LET m == Host[t] IN
  /\ pc[t] = "base"
  /\ \/ /\ base' = [base EXCEPT ![t] = MergeMissing(snap.doc, local[m])]
        /\ lupto' = [lupto EXCEPT ![t] = snap.upto]
        /\ behind' = [behind EXCEPT ![t] = FALSE]
        /\ Fine
     \/ /\ Fault("get")
        /\ base' = [base EXCEPT ![t] = local[m]]
        /\ lupto' = [lupto EXCEPT ![t] = 0]
        /\ behind' = [behind EXCEPT ![t] = TRUE]
  /\ known' = [known EXCEPT ![t] = acked \ entrusted]
  /\ pc' = [pc EXCEPT ![t] = "list"]
  /\ UNCHANGED <<bucket, machine, inBatch, ask, flight, name, open, shot,
                 made, acked, struck, entrusted>>

LoadList(t) ==
  /\ pc[t] = "list"
  /\ \/ /\ open' = [open EXCEPT ![t] =
                      {n \in Name : objs[n] # {} /\ Newer(n, lupto[t])}]
        /\ UNCHANGED behind /\ Fine
     \/ /\ Fault("list")
        /\ open' = [open EXCEPT ![t] = {}]
        /\ behind' = [behind EXCEPT ![t] = TRUE]
  /\ Goto(t, "fetch")
  /\ UNCHANGED <<bucket, machine, inBatch, flight, name, base, lupto, shot, made, struck, entrusted>>

\* An op object that cannot be read, or is gone by now, is skipped.
LoadFetch(t) ==
  /\ pc[t] = "fetch"
  /\ \E got \in SUBSET open[t] :
       /\ IF got = open[t] THEN Fine ELSE Fault("get")
       /\ base' = [base EXCEPT ![t] = @ \cup Ops(got)]
       /\ behind' = [behind EXCEPT ![t] = @ \/ got # open[t]]
  /\ Goto(t, "install")
  /\ UNCHANGED <<bucket, machine, inBatch, flight, name, lupto, open, shot, made, struck, entrusted>>

\* The new document replaces the old one; what is pending is applied again.
Install(t) ==
  LET m == Host[t] IN
  /\ pc[t] = "install"
  /\ data' = [data EXCEPT ![m] = Reapply(base[t], pending[m])]
  /\ openOps' = [openOps EXCEPT ![m] = Cardinality(open[t])]
  /\ base' = [base EXCEPT ![t] = {}]
  /\ lupto' = [lupto EXCEPT ![t] = 0]
  /\ IF Cardinality(open[t]) >= CompactAfter
     THEN Goto(t, "clone") /\ UNCHANGED open
     ELSE Return(t) /\ open' = [open EXCEPT ![t] = {}]
  /\ behind' = [u \in Thread |->
       IF u = t THEN behind[t] /\ pc'[t] = "clone"
       ELSE behind[u] \/ (pc[u] = "clone" /\ Host[u] = m)]
  /\ UNCHANGED <<bucket, local, pending, remoteOK, defers, dirty, inBatch,
                 flight, name, shot, made, struck, entrusted, spent>>

\* The document as it is now, with the last merged name as watermark.
Clone(t) ==
  /\ pc[t] = "clone"
  /\ \E last \in open[t] :
       /\ \A n \in open[t] : n <= last
       /\ shot' = [shot EXCEPT ![t] = [doc |-> data[Host[t]], upto |-> last]]
  /\ Goto(t, "snapput")
  /\ UNCHANGED <<bucket, machine, inBatch, flight, name, base, lupto, open, made, excuses, spent>>

SnapPut(t) ==
  /\ pc[t] = "snapput"
  /\ Overwrites(t, behind[t])
  /\ openOps' = [openOps EXCEPT ![Host[t]] = 0]
  /\ shot' = [shot EXCEPT ![t] = NoShot]
  /\ Goto(t, "gc")
  /\ UNCHANGED <<objs, stamps, local, data, pending, remoteOK, defers, dirty,
                 inBatch, flight, name, base, lupto, open, made, spent>>

SnapPutFails(t) ==
  /\ pc[t] = "snapput" /\ Fault("put")
  /\ \/ Overwrites(t, FALSE)
     \/ behind' = [behind EXCEPT ![t] = FALSE] /\ UNCHANGED <<snap, struck, entrusted>>
  /\ shot' = [shot EXCEPT ![t] = NoShot]
  /\ open' = [open EXCEPT ![t] = {}]
  /\ Return(t)
  /\ UNCHANGED <<objs, stamps, local, data, pending, openOps, remoteOK, defers,
                 dirty, inBatch, flight, name, base, lupto, made>>

\* One of the concurrent deletes; a failed one leaves the object behind.
GcDelete(t, n) ==
  /\ pc[t] = "gc" /\ n \in open[t]
  /\ open' = [open EXCEPT ![t] = @ \ {n}]
  /\ \/ /\ objs' = [objs EXCEPT ![n] = {}]
        /\ struck' = IF behind[t] THEN struck \cup (objs[n] \ snap.doc) ELSE struck
        /\ Fine
     \/ Fault("delete") /\ UNCHANGED <<objs, struck>>
  /\ UNCHANGED <<snap, stamps, machine, pc, inBatch, ask, flight, name, base,
                 lupto, shot, history, behind, entrusted>>

GcDone(t) ==
  /\ pc[t] = "gc" /\ open[t] = {}
  /\ Return(t)
  /\ behind' = [behind EXCEPT ![t] = FALSE]
  /\ UNCHANGED <<bucket, local, data, pending, openOps, remoteOK, defers, dirty,
                 inBatch, flight, name, base, lupto, open, shot, made, struck, entrusted, spent>>

-----------------------------------------------------------------------------
(* A process dies and is started again (NewState, which loads). *)
Crash(m) ==
  LET Lost(f, v) == [t \in Thread |-> IF Host[t] = m THEN v ELSE f[t]] IN
  /\ status[m] # "down" /\ Fault("crash")
  /\ status' = [status EXCEPT ![m] = "down"]
  /\ data' = [data EXCEPT ![m] = {}] /\ pending' = [pending EXCEPT ![m] = {}]
  /\ openOps' = [openOps EXCEPT ![m] = 0] /\ defers' = [defers EXCEPT ![m] = 0]
  /\ remoteOK' = [remoteOK EXCEPT ![m] = TRUE]
  /\ dirty' = [dirty EXCEPT ![m] = FALSE]
  /\ pc' = Lost(pc, "idle") /\ inBatch' = Lost(inBatch, FALSE)
  /\ ask' = Lost(ask, {}) /\ flight' = Lost(flight, {}) /\ name' = Lost(name, 0)
  /\ base' = Lost(base, {}) /\ lupto' = Lost(lupto, 0) /\ open' = Lost(open, {})
  /\ shot' = Lost(shot, NoShot)
  /\ made' = [made EXCEPT ![m] = {}] /\ known' = Lost(known, {})
  /\ behind' = Lost(behind, FALSE)
  /\ UNCHANGED <<bucket, local, acked, struck, entrusted>>

Start(t) ==
  LET m == Host[t] IN
  /\ status[m] = "down"
  /\ status' = [status EXCEPT ![m] = "starting"]
  /\ pc' = [pc EXCEPT ![t] = "base"]
  /\ UNCHANGED <<bucket, local, data, pending, openOps, remoteOK, defers, dirty,
                 inBatch, ask, flight, name, base, lupto, open, shot, history, excuses, spent>>

Steps(t) ==
  \/ \E c \in Change : Mutate(t, c)
  \/ BatchBegin(t) \/ BatchEnd(t)
  \/ SaveDeferred(t) \/ SaveNothing(t) \/ SaveTake(t)
  \/ PutLands(t) \/ PutFails(t) \/ Saved(t)
  \/ Refresh(t) \/ LoadBase(t) \/ LoadList(t) \/ LoadFetch(t) \/ Install(t)
  \/ Clone(t) \/ SnapPut(t) \/ SnapPutFails(t)
  \/ \E n \in Name : GcDelete(t, n)
  \/ GcDone(t)
  \/ Start(t)

Next == (\E t \in Thread : Steps(t)) \/ (\E m \in Machine : Crash(m))

Spec == Init /\ [][Next]_vars

-----------------------------------------------------------------------------
(* Properties. *)
\* A change whose caller was told "written" is in the bucket for good: whoever
\* reads snapshot and ops finds it there, whatever was merged, cleaned up,
\* retried or crashed in between (Save, Compact, Load).  Two ways out remain: it
\* was left to another goroutine's write, or was lost to a goroutine that merged
\* without knowing all it replaced, or to a name behind the watermark.
AckedDurable == acked \subseteq View \cup entrusted \cup struck

\* Clean-up takes an op object away only when the snapshot reflects all of its
\* changes (Compact's "merged are exactly the ops that sit in s.data"), unless it
\* goes with a merge that was behind.
DeletedIsMerged ==
  [][\A n \in Name : objs'[n] = {} => objs[n] \subseteq snap.doc \cup struck']_vars

\* A snapshot only ever grows: writing one takes back neither a change nor the
\* watermark of the snapshot it replaces (Compact puts over the same key), unless
\* its writer was overtaken or had not been able to read everything.
SnapshotGrows ==
  [][\/ snap.doc \subseteq snap'.doc /\ snap.upto <= snap'.upto
     \/ \E t \in Thread : behind[t] /\ pc[t] = "snapput" /\ snap' = shot[t]]_vars

\* As long as a machine runs, a change made on it is in the bucket, waiting to be
\* written, or being written: a failed write loses nothing, nor does a merge or a
\* load, whatever overlaps, but for what a goroutine that was behind has lost.
NothingLost ==
  \A m \in Machine :
    made[m] \subseteq
      View \cup struck
        \cup pending[m] \cup UNION {flight[t] : t \in {u \in Thread : Host[u] = m}}

\* Whatever the steps of Save, Load, Compact, a crash or a retry, and however they
\* overlap: to whoever uses them the machines are one ledger (store/state.go,
\* README "Shared state").
L == INSTANCE Ledger
       WITH written <- View, told <- acked \ entrusted, since <- known,
            screen <- data,
            blind <- [t \in Thread |-> behind[t] \/ Late(t)]
ImplementsLedger == L!Spec
=============================================================================
