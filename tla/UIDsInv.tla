------------------------------- MODULE UIDsInv -------------------------------
(***************************************************************************)
(* The inductive invariants behind the theorems of UIDsProofs.  A document *)
(* is sound because the ops that build it number no two messages alike,    *)
(* and these are so because a listing has no two messages of one age.      *)
(***************************************************************************)
EXTENDS UIDs

OneEach(nums) == \A x, y \in Mid : nums[x] # 0 /\ nums[x] = nums[y] => x = y

GoodOp  == {op \in Op : OneEach(op.nums)}
GoodDoc == {d \in Numbering : Sound(d)}

DocsGood ==
  /\ snap \in GoodDoc
  /\ \A m \in Machine : local[m] \in GoodDoc /\ doc[m] \in GoodDoc /\ base[m] \in GoodDoc

OpsGood ==
  /\ log \in Seq(GoodOp)
  /\ \A m \in Machine : pending[m] \in Seq(GoodOp) /\ work[m] \in Seq(GoodOp)

ListingsGood == OneEach(folder) /\ \A m \in Machine : OneEach(index[m])

SoundInv == TypeOK /\ DocsGood /\ OpsGood /\ ListingsGood

-----------------------------------------------------------------------------
(* As long as no machine numbers without knowing all numbers, no write fails *)
(* and no local file revives a number, the log tells one history: states[i]  *)
(* is the folder after i ops, and owner[n] the one message n is ever given.  *)

\* op numbers only messages without a number, all at or above Next.
Follows(op, d) ==
  \A x \in Mid : op.nums[x] # 0 => d.uids[x] = 0 /\ op.nums[x] >= d.next

IsHistory(states, first, ops) ==
  /\ states \in [0 .. Len(ops) -> GoodDoc]
  /\ states[0] = first
  /\ \A i \in 1 .. Len(ops) : /\ states[i] = Apply(states[i - 1], ops[i])
                              /\ ops[i].t = "uid" => Follows(ops[i], states[i - 1])
  /\ \A i \in 0 .. Len(ops) :
       /\ states[i].validity = 1
       /\ \A j \in 0 .. Len(ops) : i =< j => states[i].next =< states[j].next

Belong(nums, owner) == \A x \in Mid : nums[x] # 0 => owner[nums[x]] = x

\* A document with nothing in it that last does not account for.
Accounted(d, last, owner) ==
  d.validity = 1 /\ d.next =< last.next /\ Belong(d.uids, owner)

OneOwner(last, owner) ==
  /\ Belong(snap.uids, owner)
  /\ \A i \in 1 .. Len(log) : log[i].t = "uid" => Belong(log[i].nums, owner)
  /\ \A m \in Machine : Accounted(local[m], last, owner) /\ Accounted(doc[m], last, owner)
  /\ \A m \in Machine : base[m].validity = 1 /\ Belong(base[m].uids, owner)
  /\ \A p \in given : p[1] < last.next /\ owner[p[1]] = p[2]

\* The one op of m that is not in the log yet.
Queued(m) == pending[m][1]

\* A machine writes one op at a time, and numbers alone; what it shows next has
\* no number beyond those of the folder and of its op.
WritesOne(m, last, owner) ==
  /\ Len(pending[m]) = 1
  /\ Queued(m).t = "uid" =>
       /\ Belong(Queued(m).nums, owner) /\ Follows(Queued(m), last)
       /\ \A k \in Machine \ {m} : pc[k] = "mutate" => Queued(k).t = "leave"
  /\ m \in fresh => base[m] = Apply(last, Queued(m))
  /\ \/ base[m].next =< last.next
     \/ /\ Queued(m).t = "uid"
        /\ \E x \in Mid : Queued(m).nums[x] # 0 /\ base[m].next =< Queued(m).nums[x] + 1

WritesApart(last, owner) ==
  \A m \in Machine :
    IF pc[m] = "mutate" THEN WritesOne(m, last, owner) ELSE pending[m] = <<>>

\* d runs ahead of states[j], but by nothing that the ops up to u do not do too.
Ahead(d, states, ops, j, u) ==
  /\ states[j].next =< d.next /\ d.next =< states[u].next
  /\ \A x \in Mid :
       \/ d.uids[x] = states[j].uids[x]
       \/ /\ d.uids[x] # 0
          /\ \E i \in j + 1 .. u : ops[i].t = "uid" /\ ops[i].nums[x] = d.uids[x]

\* A Load ends with the state after the last op it read.
CatchesUp(m, states) ==
  /\ \A k \in Machine : pc[k] = "load" => k = m
  /\ upto[m] =< Len(log)
  /\ m \in fresh => upto[m] = Len(log)
  /\ \E j \in 0 .. upto[m] :
       /\ work[m] = SubSeq(log, j + 1, upto[m])
       /\ Ahead(base[m], states, log, j, upto[m])

LoadsCatchUp(states) ==
  \A m \in Machine :
    IF pc[m] = "load" THEN CatchesUp(m, states)
    ELSE work[m] = <<>> /\ (pc[m] # "mutate" => base[m] = New)

FreshKnowsAll(last) ==
  \A m \in fresh : pc[m] # "load" => doc[m] = last

Account(states, owner) ==
  /\ IsHistory(states, snap, log)
  /\ OneOwner(states[Len(log)], owner)
  /\ WritesApart(states[Len(log)], owner)
  /\ LoadsCatchUp(states)
  /\ FreshKnowsAll(states[Len(log)])

HistoryInv == met = {} => \E states, owner : Account(states, owner)
=============================================================================
