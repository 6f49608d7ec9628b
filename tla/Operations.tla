------------------------------ MODULE Operations ------------------------------
(***************************************************************************)
(* What the operations on the state document mean: core/state.go.  A       *)
(* document is what a machine knows of its messages (by base name), the    *)
(* tags with their colours, the rules and the saved searches.  The         *)
(* operations on the numbering are UIDs'.                                  *)
(***************************************************************************)
EXTENDS Naturals, SequencesExt, FiniteSets

CONSTANT Colors       \* how many TagColors there are

ASSUME ColorsAssumption == Colors \in Nat \ {0}

Kind == {"flags", "tags", "ruled", "drop", "rekey", "tagdel", "tagren", "rules", "filters"}

Fresh   == [read |-> FALSE, star |-> FALSE, tags |-> <<>>, ruled |-> FALSE]
NewData == [msgs |-> <<>>, tags |-> <<>>, rules |-> <<>>, filters |-> <<>>]

Entry(d, m) == IF m \in DOMAIN d.msgs THEN d.msgs[m] ELSE Fresh

\* A map with one more pair, with what another has besides, and with less.
Put(f, x, v)  == [y \in {x} \union DOMAIN f |-> IF y = x THEN v ELSE f[y]]
Over(f, g)    == [x \in DOMAIN f \union DOMAIN g |-> IF x \in DOMAIN f THEN f[x] ELSE g[x]]
Less(f, gone) == [x \in DOMAIN f \ gone |-> f[x]]

\* Every message of an operation gets an entry, and F says what becomes of it.
Each(d, mids, F(_)) ==
  [d EXCEPT !.msgs = Over([m \in mids |-> F(Entry(d, m))], @)]
\* The same for the messages that have one.
Known(d, F(_)) == [d EXCEPT !.msgs = [m \in DOMAIN @ |-> F(@[m])]]

NextColor(tags) == Cardinality(DOMAIN tags) % Colors
ColorOr(tags, tag, color) ==
  IF color # {} THEN CHOOSE c \in color : TRUE
                ELSE IF tag \in DOMAIN tags THEN tags[tag] ELSE NextColor(tags)

\* read and star: the empty set where the code has a nil pointer.
Set(flag, to) == IF to = {} THEN flag ELSE TRUE \in to

Flags(d, op) ==
  Each(d, op.mids, LAMBDA e : [e EXCEPT !.read = Set(@, op.read), !.star = Set(@, op.star)])

\* The tags that are not gone, in their order; and a list with one more tag.
Strip(tags, gone) == FoldLeft(LAMBDA kept, t : IF t \in gone THEN kept ELSE Append(kept, t), <<>>, tags)
Enlist(tags, t)   == IF Contains(tags, t) THEN tags ELSE Append(tags, t)
\* The tags of the document with one more, and its color.
Named(tags, t)    == IF t \in DOMAIN tags THEN tags ELSE Put(tags, t, NextColor(tags))

\* Mutant: tags are given out without being listed.
TagsUnlisted(d, op) ==
  Each(d, op.mids, LAMBDA e : [e EXCEPT !.tags = Strip(@, op.remove) \o op.add])
Tags(d, op) ==
  Each([d EXCEPT !.tags = FoldLeft(Named, @, op.add)], op.mids,
       LAMBDA e : [e EXCEPT !.tags = FoldLeft(Enlist, Strip(@, op.remove), op.add)])

Rekey(d, op) ==
  IF op.old \in DOMAIN d.msgs
    THEN [d EXCEPT !.msgs = Put(@, op.new, d.msgs[op.old])] ELSE d

Tagdel(d, op) ==
  Known([d EXCEPT !.tags = Less(@, {op.name})],
        LAMBDA e : [e EXCEPT !.tags = Strip(@, {op.name})])

\* Mutant: the new name is coloured afresh every time.
Recolor(d, op) ==
  Known([d EXCEPT !.tags = Put(Less(@, {op.old}), op.new, NextColor(@))],
        LAMBDA e : [e EXCEPT !.tags = [i \in DOMAIN @ |-> IF @[i] = op.old THEN op.new ELSE @[i]]])
Tagren(d, op) ==
  LET rest  == Less(d.tags, {op.old})
      color == IF op.old \in DOMAIN d.tags /\ op.color = {}
                 THEN d.tags[op.old] ELSE ColorOr(d.tags, op.new, op.color)
  IN IF op.old = op.new
       THEN [d EXCEPT !.tags = Put(@, op.new, ColorOr(@, op.new, op.color))]
       ELSE Known([d EXCEPT !.tags = Put(rest, op.new, color)],
              LAMBDA e : [e EXCEPT !.tags =
                [i \in DOMAIN @ |-> IF @[i] = op.old THEN op.new ELSE @[i]]])

Apply(d, op) ==
  CASE op.t = "flags"   -> Flags(d, op)
    [] op.t = "tags"    -> Tags(d, op)
    [] op.t = "ruled"   -> Each(d, op.mids, LAMBDA e : [e EXCEPT !.ruled = TRUE])
    [] op.t = "drop"    -> [d EXCEPT !.msgs = Less(@, op.mids)]
    [] op.t = "rekey"   -> Rekey(d, op)
    [] op.t = "tagdel"  -> Tagdel(d, op)
    [] op.t = "tagren"  -> Tagren(d, op)
    [] op.t = "rules"   -> [d EXCEPT !.rules = op.rules]
    [] op.t = "filters" -> [d EXCEPT !.filters = op.filters]

\* The filters of other are not looked at.
MergeMissing(base, other) ==
  [base EXCEPT !.msgs = Over(@, other.msgs), !.tags = Over(@, other.tags),
               !.rules = IF @ = <<>> THEN other.rules ELSE @]

Replay(d, ops) == FoldLeft(Apply, d, ops)

=============================================================================
