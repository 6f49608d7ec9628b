------------------------------- MODULE Document -------------------------------
(***************************************************************************)
(* The documents that several machines make of one log: the loads and      *)
(* saves of store/state.go replay the operations of core/state.go over a   *)
(* snapshot and a local file.  OpLog says which operations a machine sees, *)
(* this module what document they make; a save or a load is one step here, *)
(* and what a failing call does to it is OpLog's.                          *)
(***************************************************************************)
EXTENDS Operations

CONSTANTS Machine,
          Mid,            \* base names of messages
          Tag,            \* tag names
          Ops,            \* the operations the program issues
          CompactAfter,   \* open operations from which they are merged
          MaxOps          \* bound: operations in a behaviour

VARIABLES
  snap,      \* <<>>, or the snapshot in the bucket
  log,       \* the operations above its watermark, one object each
  data,      \* per machine: the document in memory
  local,     \* per machine: <<>>, or the document in the local file
  openOps,   \* per machine: operations it counts as open
  ideal,     \* history: the document every operation made once, in order
  seen,      \* history: whether the machine has every operation
  moved,     \* history: messages an operation dropped or copied
  recast,    \* history: tags an operation deleted or renamed
  made       \* history: number of operations made

\* Ops are operations of the code, on these messages and tags.
IsOp(op) ==
  /\ op.t \in Kind
  /\ op.t \in {"flags", "tags", "ruled", "drop"} => op.mids \subseteq Mid
  /\ op.t = "tags" => op.add \in Seq(Tag)
  /\ op.t = "rekey" => {op.old, op.new} \subseteq Mid
  /\ op.t = "tagren" => op.new \in Tag /\ op.color \subseteq 0 .. Colors - 1
DocConstants == (\A op \in Ops : IsOp(op)) /\ IsFiniteSet(Tag) /\ MaxOps \in Nat

docs == <<snap, log, data, local, openOps, ideal, seen, moved, recast, made>>

-----------------------------------------------------------------------------
DocInit ==
  /\ snap = <<>> /\ log = <<>>
  /\ data = [m \in Machine |-> NewData] /\ local = [m \in Machine |-> <<>>]
  /\ openOps = [m \in Machine |-> 0]
  /\ ideal = NewData /\ seen = [m \in Machine |-> TRUE]
  /\ moved = {} /\ recast = {} /\ made = 0

\* The messages an operation drops or copies, and the tags it deletes or renames.
Moves(op)   == CASE op.t = "drop" -> op.mids [] op.t = "rekey" -> {op.old, op.new} [] OTHER -> {}
Recasts(op) == CASE op.t = "tagdel" -> {op.name} [] op.t = "tagren" -> {op.old, op.new} [] OTHER -> {}

\* What Load finds, given the local file it reads.
Base(file) ==
  IF snap = <<>> THEN IF file = <<>> THEN NewData ELSE file[1]
                 ELSE IF file = <<>> THEN snap[1] ELSE MergeMissing(snap[1], file[1])

\* Load over the operations ops, and Compact when they are many.
Loads(m, file, ops) ==
  LET doc == Replay(Base(file), ops)
      due == Len(ops) >= CompactAfter
  IN /\ data' = [data EXCEPT ![m] = doc]
     /\ openOps' = [openOps EXCEPT ![m] = IF due THEN 0 ELSE Len(ops)]
     /\ snap' = IF due THEN <<doc>> ELSE snap
     /\ log' = IF due THEN <<>> ELSE ops

\* A restart, or a refresh.
Load(m) ==
  /\ Loads(m, local[m], log)
  /\ seen' = [seen EXCEPT ![m] = TRUE]
  /\ UNCHANGED <<local, ideal, moved, recast, made>>

\* Mutate and Save: applied, written to the local file, appended to the log;
\* with enough of them open the machine loads.
Mutate(m, op) ==
  LET doc == Apply(data[m], op)
      due == openOps[m] + 1 >= CompactAfter
  IN /\ made < MaxOps /\ made' = made + 1
     /\ local' = [local EXCEPT ![m] = <<doc>>]
     /\ IF due THEN Loads(m, <<doc>>, Append(log, op))
               ELSE /\ data' = [data EXCEPT ![m] = doc]
                    /\ openOps' = [openOps EXCEPT ![m] = @ + 1]
                    /\ log' = Append(log, op) /\ UNCHANGED snap
     /\ ideal' = Apply(ideal, op)
     /\ seen' = [n \in Machine |-> n = m /\ (seen[m] \/ due)]
     /\ moved' = moved \union Moves(op) /\ recast' = recast \union Recasts(op)

DocNext == \E m \in Machine : Load(m) \/ \E op \in Ops : Mutate(m, op)

DocSpec == DocInit /\ [][DocNext]_docs

-----------------------------------------------------------------------------
Entries == [read : BOOLEAN, star : BOOLEAN, tags : Seq(Tag), ruled : BOOLEAN]
WellFormed(d) ==
  /\ DOMAIN d.msgs \subseteq Mid /\ \A m \in DOMAIN d.msgs : d.msgs[m] \in Entries
  /\ DOMAIN d.tags \subseteq Tag /\ \A t \in DOMAIN d.tags : d.tags[t] \in 0 .. Colors - 1

\* Every document, in memory, in a file or in the bucket, is well formed, and
\* every tag a message carries in it is a tag the document lists, unless that
\* tag was deleted or renamed.
DocTypeOK ==
  /\ made \in 0 .. MaxOps /\ Len(log) <= MaxOps
  /\ \A d \in {ideal} \union Range(snap) \union
              UNION {{data[m]} \union Range(local[m]) : m \in Machine} :
       /\ WellFormed(d)
       /\ \A m \in DOMAIN d.msgs : Range(d.msgs[m].tags) \subseteq DOMAIN d.tags \union recast

\* Two documents in all but the order of the tags on a message.
Alike(d, e) ==
  LET unordered(c) == [x \in DOMAIN c.msgs |-> [c.msgs[x] EXCEPT !.tags = Range(c.msgs[x].tags)]]
  IN [d EXCEPT !.msgs = unordered(d)] = [e EXCEPT !.msgs = unordered(e)]

\* Every operation that can still be made is idempotent on the document of the
\* machine that makes it: applied twice in a row it makes the document it makes
\* once (Apply's comment), but for the order of the tags where it takes off a tag
\* and puts it on.
OpsIdempotent ==
  made < MaxOps => \A m \in Machine, op \in Ops :
    LET once  == Apply(data[m], op)
        twice == Apply(once, op)
    IN IF op.t = "tags" /\ Range(op.add) \cap op.remove # {} THEN Alike(twice, once)
                                                           ELSE twice = once

Same(e, f, gone) ==
  /\ e.read = f.read /\ e.star = f.star /\ e.ruled = f.ruled
  /\ Range(e.tags) \ gone = Range(f.tags) \ gone
Agrees(d) ==
  /\ \A x \in Mid \ moved : Same(Entry(d, x), Entry(ideal, x), recast)
  /\ DOMAIN ideal.tags \ recast \subseteq DOMAIN d.tags
  /\ ideal.rules # <<>> => d.rules = ideal.rules
  /\ d.filters = ideal.filters

\* A machine that has every operation holds the document they make, whichever
\* snapshot it started from, whatever its local file held, and however often an
\* operation was replayed over what it had already done: the marks of every
\* message that was not dropped or copied, the uses of every tag not deleted or
\* renamed, the rules unless there are none, and the filters.  (Not the colours:
\* until there is a snapshot each machine keeps the one it chose itself.)
LoadAgrees == \A m \in Machine : seen[m] => Agrees(data[m])

=============================================================================
