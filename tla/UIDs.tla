-------------------------------- MODULE UIDs ---------------------------------
(***************************************************************************)
(* The IMAP numbering of one folder: core/uid.go, the part of MergeMissing *)
(* about numbers, and the passes of store/uids.go and Move that number     *)
(* messages and retire numbers, on several machines with one op log.       *)
(*                                                                         *)
(* Here an op is written, and bucket and local file are read, in one step  *)
(* each, and machines load one at a time: what happens between those steps *)
(* is the subject of OpLog.  The log is the sequence of ops by name; ops   *)
(* written into one object follow each other.                              *)
(***************************************************************************)
EXTENDS Integers, Sequences, FiniteSets

CONSTANTS Machine, Mid,  \* machines; messages, by base name
          MaxOps,        \* bound: ops, failed writes and crashes
          CompactAfter,  \* open ops from which they are merged
          Faults         \* a subset of {"put", "crash"}

ASSUME UIDsAssumption ==
  /\ IsFiniteSet(Mid)
  /\ MaxOps \in Nat
  /\ CompactAfter \in Nat \ {0}
  /\ Faults \subseteq {"put", "crash"}

VARIABLES
  folder,   \* the folder in the bucket: when a message arrived (0: not there)
  log,      \* the ops not merged yet
  snap,     \* the snapshot
  count,    \* bound: ops, failed writes and crashes so far
  local, doc, pending, openOps,  \* per machine: local file and State
  index,    \* per machine: the folder as last listed
  pc, base, work, upto,  \* per machine: a Load or a Mutate under way
  fresh,    \* machines that have loaded since the last write of another
  met,      \* history: "race" - somebody numbered without knowing all numbers;
            \* "put" - a write failed; "revived" - a local file brought back a
            \* number that the bucket no longer knows
  given     \* history: the numbers shown, with their message, until a race or
            \* a failed write

bucket  == <<folder, log, snap, count>>
machine == <<local, doc, pending, openOps, index>>
loop    == <<pc, base, work, upto>>
history == <<fresh, met, given>>
vars    == <<bucket, machine, loop, history>>

\* A folder's state; number 0 stands for "no number".
Numbering == [validity : Nat \ {0}, next : Nat \ {0}, uids : [Mid -> Nat]]
\* "uid" gives nums[x] to x; "leave" (uidretire, drop) takes the number away
\* from every x with nums[x] # 0.
Op  == [t : {"uid", "leave"}, nums : [Mid -> Nat]]
\* Mutant: a new folder is not normalized.
NewRaw == [validity |-> 0, next |-> 0, uids |-> [x \in Mid |-> 0]]
\* A folder on its first use, normalized: UID 0 is not a valid UID.
New == [validity |-> 1, next |-> 1, uids |-> [x \in Mid |-> 0]]

TypeOK ==
  /\ folder \in [Mid -> Nat] /\ log \in Seq(Op) /\ snap \in Numbering
  /\ count \in Nat
  /\ local \in [Machine -> Numbering] /\ doc \in [Machine -> Numbering]
  /\ pending \in [Machine -> Seq(Op)] /\ openOps \in [Machine -> Nat]
  /\ index \in [Machine -> [Mid -> Nat]]
  /\ pc \in [Machine -> {"idle", "mutate", "reload", "load"}]
  /\ base \in [Machine -> Numbering] /\ work \in [Machine -> Seq(Op)]
  /\ upto \in [Machine -> Nat]
  /\ fresh \subseteq Machine /\ met \subseteq {"race", "put", "revived"}
  /\ given \subseteq (Nat \X Mid)

Init ==
  /\ folder = [x \in Mid |-> 0] /\ log = <<>> /\ snap = New /\ count = 0
  /\ local = [m \in Machine |-> New] /\ doc = [m \in Machine |-> New]
  /\ pending = [m \in Machine |-> <<>>] /\ openOps = [m \in Machine |-> 0]
  /\ index = [m \in Machine |-> [x \in Mid |-> 0]]
  /\ pc = [m \in Machine |-> "idle"] /\ base = [m \in Machine |-> New]
  /\ work = [m \in Machine |-> <<>>] /\ upto = [m \in Machine |-> 0]
  /\ fresh = Machine /\ met = {} /\ given = {}

-----------------------------------------------------------------------------
(* core/uid.go.  The messages of one op have different numbers, so the order *)
(* in which its loop takes them does not matter.                             *)
Taken(d, n) == \E x \in Mid : d.uids[x] = n

\* What an op wants numbered and the document has no number for.
Wanted(d, op) == {x \in Mid : op.nums[x] # 0 /\ d.uids[x] = 0}

\* Mutant: a number that is taken is given all the same.
AcceptedBlind(d, op) == Wanted(d, op)
Accepted(d, op) == {x \in Wanted(d, op) : ~Taken(d, op.nums[x])}

NextAfter(d, op) ==
  CHOOSE n \in {d.next} \cup {op.nums[x] + 1 : x \in Accepted(d, op)} :
    n >= d.next /\ \A x \in Accepted(d, op) : n > op.nums[x]

\* applyUID: replays and lost conflicts leave the message as it is; every lost
\* conflict raises Validity.
ApplyUID(d, op) ==
  [validity |-> d.validity + Cardinality(Wanted(d, op) \ Accepted(d, op)),
   next     |-> NextAfter(d, op),
   uids     |-> [x \in Mid |->
                   IF x \in Accepted(d, op) THEN op.nums[x] ELSE d.uids[x]]]

\* retireUID, and dropUIDs as far as this folder goes: Next stays.
Retire(d, op) ==
  [d EXCEPT !.uids = [x \in Mid |-> IF op.nums[x] # 0 THEN 0 ELSE @[x]]]

Apply(d, op) == IF op.t = "uid" THEN ApplyUID(d, op) ELSE Retire(d, op)

\* What MergeMissing takes over (number 0 changes nothing).
Missing(d, other, x) == d.uids[x] = 0 /\ ~Taken(d, other.uids[x])
Merged(d, other) ==
  [x \in Mid |-> IF Missing(d, other, x) THEN other.uids[x] ELSE d.uids[x]]

\* Mutant: the numbers are taken over, the counter is not.
MergeNumbersOnly(d, other) == [d EXCEPT !.uids = Merged(d, other)]
\* MergeMissing, as far as it is about numbers.
MergeMissing(d, other) ==
  [validity |-> IF other.validity > d.validity THEN other.validity ELSE d.validity,
   next     |-> IF other.next > d.next THEN other.next ELSE d.next,
   uids     |-> Merged(d, other)]

\* Mutant: numbering starts after as many as there are.
FirstByCount(d) == Cardinality({x \in Mid : d.uids[x] # 0}) + 1
FirstNumber(d) == d.next

\* AssignUIDs over a listing, by arrival: an op for what has no number yet.
Blank(d, listing) == {x \in Mid : listing[x] # 0 /\ d.uids[x] = 0}
Rank(set, listing, x) == Cardinality({y \in set : listing[y] < listing[x]})
AssignUIDs(d, listing) ==
  [t    |-> "uid",
   nums |-> [x \in Mid |->
      IF x \in Blank(d, listing)
      THEN FirstNumber(d) + Rank(Blank(d, listing), listing, x) ELSE 0]]

-----------------------------------------------------------------------------
(* The folder, and the passes that write. *)
\* A message comes in, by delivery or by a move from elsewhere.
Arrive(x) ==
  /\ folder[x] = 0
  /\ \E n \in {1} \cup {folder[y] + 1 : y \in Mid} :
       /\ \A y \in Mid : folder[y] < n
       /\ folder' = [folder EXCEPT ![x] = n]
  /\ UNCHANGED <<log, snap, count, machine, loop, history>>

\* Mutate applies the op in memory and queues it; then comes Save.
Mutate(m, op) ==
  /\ pc[m] = "idle" /\ count < MaxOps
  /\ pc' = [pc EXCEPT ![m] = "mutate"]
  /\ base' = [base EXCEPT ![m] = Apply(doc[m], op)]
  /\ pending' = [pending EXCEPT ![m] = Append(@, op)]
  /\ count' = count + 1
  /\ UNCHANGED <<log, snap, local, doc, openOps, work, upto, fresh, given>>

\* assignUIDs.  An op without messages is never written.
EnsureUIDs(m) ==
  /\ Blank(doc[m], index[m]) # {}
  /\ Mutate(m, AssignUIDs(doc[m], index[m]))
  /\ met' = IF m \notin fresh \/ \E k \in Machine \ {m} : pc[k] = "mutate"
            THEN met \cup {"race"} ELSE met
  /\ UNCHANGED <<folder, index>>

\* Move out of the folder, or Delete: the number is retired.
Leave(m, x) ==
  /\ index[m][x] # 0 /\ folder[x] # 0
  /\ folder' = [folder EXCEPT ![x] = 0]
  /\ index' = [index EXCEPT ![m][x] = 0]
  /\ Mutate(m, [t |-> "leave", nums |-> [y \in Mid |-> IF y = x THEN 1 ELSE 0]])
  /\ UNCHANGED met

\* The new document is the one that is shown from now on.
Show(m) ==
  /\ doc' = [doc EXCEPT ![m] = base[m]]
  /\ given' = IF met \cap {"race", "put"} # {} THEN {}
              ELSE given \cup
                {<<base[m].uids[x], x>> : x \in {y \in Mid : base[m].uids[y] # 0}}
  /\ base' = [base EXCEPT ![m] = New]
  /\ upto' = [upto EXCEPT ![m] = 0]

\* Save: local file, op object, and from CompactAfter on a Load.
Saved(m) ==
  /\ pc[m] = "mutate"
  /\ Show(m)
  /\ local' = [local EXCEPT ![m] = base[m]]
  /\ log' = log \o pending[m]
  /\ pending' = [pending EXCEPT ![m] = <<>>]
  /\ openOps' = [openOps EXCEPT ![m] = @ + 1]
  /\ pc' = [pc EXCEPT ![m] =
              IF openOps[m] + 1 >= CompactAfter THEN "reload" ELSE "idle"]
  /\ fresh' = fresh \cap {m}
  /\ UNCHANGED <<folder, snap, count, index, work, met>>

\* The put reports an error: pending stays, though the object may be stored.
SaveFails(m) ==
  /\ "put" \in Faults /\ count < MaxOps
  /\ count' = count + 1
  /\ pc[m] = "mutate"
  /\ Show(m)
  /\ local' = [local EXCEPT ![m] = base[m]]
  /\ log' \in {log, log \o pending[m]}
  /\ pc' = [pc EXCEPT ![m] = "idle"]
  /\ fresh' = fresh \cap {m}
  /\ met' = met \cup {"put"}
  /\ UNCHANGED <<folder, snap, pending, openOps, index, work>>

-----------------------------------------------------------------------------
(* Load. *)
\* The local file knows a number that neither the snapshot nor an op knows.
Revived(m) ==
  LET ops == log \o pending[m] IN
  \E x \in Mid :
    /\ local[m].uids[x] # 0 /\ Missing(snap, local[m], x)
    /\ \A i \in 1 .. Len(ops) :
         ops[i].t = "leave" \/ ops[i].nums[x] # local[m].uids[x]

\* Snapshot and local file; the ops above the watermark, then what is pending.
LoadBase(m) ==
  /\ pc[m] \in {"idle", "reload"}
  /\ \A k \in Machine : pc[k] # "load"
  /\ pc' = [pc EXCEPT ![m] = "load"]
  /\ base' = [base EXCEPT ![m] = MergeMissing(snap, local[m])]
  /\ work' = [work EXCEPT ![m] = log \o pending[m]]
  /\ upto' = [upto EXCEPT ![m] = Len(log)]
  /\ fresh' = fresh \cup {m}
  /\ met' = IF Revived(m) THEN met \cup {"revived"} ELSE met
  /\ UNCHANGED <<bucket, machine, given>>

\* One round of Load's loops.
ApplyNext(m) ==
  /\ work[m] # <<>>
  /\ base' = [base EXCEPT ![m] = Apply(@, Head(work[m]))]
  /\ work' = [work EXCEPT ![m] = Tail(@)]
  /\ UNCHANGED <<bucket, machine, pc, upto, history>>

\* The new document is in place, and merged if there were enough open ops.
\* Refresh lists the folder anew.
Installed(m) ==
  /\ pc[m] = "load" /\ work[m] = <<>>
  /\ Show(m)
  /\ index' = [index EXCEPT ![m] = folder]
  /\ \/ /\ upto[m] >= CompactAfter
        /\ snap' = base[m]
        /\ log' = SubSeq(log, upto[m] + 1, Len(log))
        /\ openOps' = [openOps EXCEPT ![m] = 0]
     \/ /\ upto[m] < CompactAfter
        /\ openOps' = [openOps EXCEPT ![m] = upto[m]]
        /\ UNCHANGED <<snap, log>>
  /\ pc' = [pc EXCEPT ![m] = "idle"]
  /\ UNCHANGED <<folder, count, local, pending, work, fresh, met>>

\* The process dies and is started again, which loads; doc keeps what was
\* last shown.  (Dying in a Load, which has written nothing yet, is the same.)
Restart(m) ==
  /\ "crash" \in Faults /\ count < MaxOps
  /\ count' = count + 1
  /\ pc[m] \in {"idle", "mutate"}
  /\ pc' = [pc EXCEPT ![m] = "reload"]
  /\ pending' = [pending EXCEPT ![m] = <<>>]
  /\ base' = [base EXCEPT ![m] = New]
  /\ work' = [work EXCEPT ![m] = <<>>]
  /\ upto' = [upto EXCEPT ![m] = 0]
  /\ openOps' = [openOps EXCEPT ![m] = 0]
  /\ UNCHANGED <<folder, log, snap, local, doc, index, history>>

Next ==
  \/ \E x \in Mid : Arrive(x)
  \/ \E m \in Machine :
       \/ EnsureUIDs(m) \/ (\E x \in Mid : Leave(m, x))
       \/ Saved(m) \/ SaveFails(m)
       \/ LoadBase(m) \/ ApplyNext(m) \/ Installed(m) \/ Restart(m)

Spec == Init /\ [][Next]_vars

-----------------------------------------------------------------------------
(* Properties. *)
Sound(d) ==
  /\ \A x, y \in Mid : d.uids[x] # 0 /\ d.uids[x] = d.uids[y] => x = y
  /\ \A x \in Mid : d.uids[x] < d.next

\* In no document - in memory, in the local file, in the snapshot, half built -
\* do two messages share a number, or is one numbered at or above Next: what
\* the owner index of core/uid.go and AssignUIDs rely on.
OneMessagePerNumber ==
  /\ Sound(snap)
  /\ \A m \in Machine : Sound(local[m]) /\ Sound(doc[m]) /\ Sound(base[m])

\* A number handed out once is never given to a second message, on no machine,
\* not even after the first one left - as long as every machine loads before
\* it numbers, its writes succeed and no local file revives a number.
NumberNeverReused ==
  met # {} \/ \A p, q \in given : p[1] = q[1] => p = q

\* Two machines that have loaded everything and have nothing half done show
\* the same numbering, under the same conditions (core/uid.go: ops are replayed
\* in an order that is the same on every machine).
Converged ==
  met # {} \/ \A m, k \in fresh :
    pc[m] = "idle" /\ pc[k] = "idle" => doc[m] = doc[k]
=============================================================================
