------------------------------ MODULE DeskInv -------------------------------
(***************************************************************************)
(* The inductive invariants of Desk and Document, and what their proofs    *)
(* say of folds, operations, documents and pages.                          *)
(***************************************************************************)

EXTENDS Desk, Document

\* The smaller-than relation on numbers, as a set of pairs.
LessThan == {p \in Nat \X Nat : p[1] < p[2]}

-----------------------------------------------------------------------------
(* Folds, step by step.                                                      *)

\* What the folds of Operations do with one element more, and a fold as
\* FoldLeft goes about it: from the greatest place of a set of them to the rest.
Fold(how, x, y) ==
  CASE how[1] = "strip"  -> IF y \in how[2] THEN x ELSE Append(x, y)
    [] how[1] = "enlist" -> Enlist(x, y)
    [] how[1] = "named"  -> Named(x, y)
    [] how[1] = "apply"  -> Apply(x, y)
    [] how[1] = "admit"  -> Admit(x, y)
    [] how[1] = "accept" -> Accept(x, y)
    [] how[1] = "treat"  -> Treat(x, y, how[2][y])
    [] how[1] = "note"   -> NoteMessage(x, how[2][y], how[3])
    [] how[1] = "sum"    -> x + y.count
Onto(how, base, list, g, s) ==
  IF s = {} THEN base ELSE Fold(how, g[s \ {Max(s)}], list[Max(s)])
IsFold(how, base, list, g) == g = [s \in SUBSET DOMAIN list |-> Onto(how, base, list, g, s)]
Folding(how, base, list, g) ==
  g[0] = base /\ \A k \in 1 .. Len(list) : g[k] = Fold(how, g[k - 1], list[k])
Stripping(g, list, gone) ==
  /\ g[0] = <<>>
  /\ \A k \in 1 .. Len(list) :
       g[k] = IF list[k] \in gone THEN g[k - 1] ELSE Append(g[k - 1], list[k])
  /\ Strip(list, gone) = g[Len(list)]
Enlisting(g, base, list) ==
  /\ g[0] = base /\ \A k \in 1 .. Len(list) : g[k] = Enlist(g[k - 1], list[k])
  /\ FoldLeft(Enlist, base, list) = g[Len(list)]
Naming(g, base, list) ==
  /\ g[0] = base /\ \A k \in 1 .. Len(list) : g[k] = Named(g[k - 1], list[k])
  /\ FoldLeft(Named, base, list) = g[Len(list)]
Replaying(g, base, list) ==
  /\ g[0] = base /\ \A k \in 1 .. Len(list) : g[k] = Apply(g[k - 1], list[k])
  /\ Replay(base, list) = g[Len(list)]

-----------------------------------------------------------------------------
(* Lists of tags.                                                            *)

\* The tags of a document, with their colors.
Hue == 0 .. Colors - 1
IsTags(tags, W) == tags \in [DOMAIN tags -> Hue] /\ DOMAIN tags \subseteq W

-----------------------------------------------------------------------------
(* What an operation makes of a document.                                    *)

Marks(W) == [read : BOOLEAN, star : BOOLEAN, tags : Seq(W), ruled : BOOLEAN]
IsData(d, M, W) ==
  /\ d = [msgs |-> d.msgs, tags |-> d.tags, rules |-> d.rules, filters |-> d.filters]
  /\ d.msgs \in [DOMAIN d.msgs -> Marks(W)] /\ DOMAIN d.msgs \subseteq M
  /\ IsTags(d.tags, W)
IsStep(op, M, W) ==
  /\ op.t \in Kind
  /\ op.t \in {"flags", "tags", "ruled", "drop"} => op.mids \subseteq M
  /\ op.t = "tags" => op.add \in Seq(W)
  /\ op.t = "rekey" => {op.old, op.new} \subseteq M
  /\ op.t = "tagren" => op.new \in W /\ op.color \subseteq Hue

\* The entries of some messages are new, all others as they were.
Overlaid(a, d, M, W, ms, new) ==
  /\ IsData(a, M, W) /\ DOMAIN a.msgs = DOMAIN d.msgs \cup ms
  /\ a.tags = d.tags /\ a.rules = d.rules /\ a.filters = d.filters
  /\ \A x : Entry(a, x) = IF x \in ms THEN new[x] ELSE Entry(d, x)
Flagged(e, op) == [e EXCEPT !.read = Set(@, op.read), !.star = Set(@, op.star)]
Tagged(e, op)  == [e EXCEPT !.tags = FoldLeft(Enlist, Strip(@, op.remove), op.add)]
Seen(e)        == [e EXCEPT !.ruled = TRUE]
AfterFlags(a, d, M, W, op) ==
  /\ IsData(a, M, W) /\ DOMAIN a.msgs = DOMAIN d.msgs \cup op.mids
  /\ a.tags = d.tags /\ a.rules = d.rules /\ a.filters = d.filters
  /\ \A x : Entry(a, x) = IF x \in op.mids THEN Flagged(Entry(d, x), op) ELSE Entry(d, x)
AfterRuled(a, d, M, W, op) ==
  /\ IsData(a, M, W) /\ DOMAIN a.msgs = DOMAIN d.msgs \cup op.mids
  /\ a.tags = d.tags /\ a.rules = d.rules /\ a.filters = d.filters
  /\ \A x : Entry(a, x) = IF x \in op.mids THEN Seen(Entry(d, x)) ELSE Entry(d, x)
AfterTags(a, d, M, W, op) ==
  /\ IsData(a, M, W) /\ DOMAIN a.msgs = DOMAIN d.msgs \cup op.mids
  /\ a.tags = FoldLeft(Named, d.tags, op.add)
  /\ DOMAIN a.tags = DOMAIN d.tags \cup Range(op.add)
  /\ a.rules = d.rules /\ a.filters = d.filters
  /\ \A x : Entry(a, x) = IF x \in op.mids THEN Tagged(Entry(d, x), op) ELSE Entry(d, x)
AfterDrop(a, d, M, W, op) ==
  /\ IsData(a, M, W) /\ DOMAIN a.msgs = DOMAIN d.msgs \ op.mids
  /\ a.tags = d.tags /\ a.rules = d.rules /\ a.filters = d.filters
  /\ \A x : Entry(a, x) = IF x \in op.mids THEN Fresh ELSE Entry(d, x)
AfterRekey(a, d, M, W, op) ==
  /\ IsData(a, M, W)
  /\ DOMAIN a.msgs = DOMAIN d.msgs \cup (IF op.old \in DOMAIN d.msgs THEN {op.new} ELSE {})
  /\ a.tags = d.tags /\ a.rules = d.rules /\ a.filters = d.filters
  /\ \A x : Entry(a, x) = IF x = op.new /\ op.old \in DOMAIN d.msgs THEN d.msgs[op.old]
                                                                   ELSE Entry(d, x)

\* The entries there are change, and the tags of the document.
KnownAs(a, d, M, W, tags, new) ==
  /\ IsData(a, M, W) /\ DOMAIN a.msgs = DOMAIN d.msgs
  /\ a.tags = tags /\ a.rules = d.rules /\ a.filters = d.filters
  /\ \A x : Entry(a, x) = IF x \in DOMAIN d.msgs THEN new[x] ELSE Fresh
Untagged(e, tag) == [e EXCEPT !.tags = Strip(@, {tag})]
AfterTagdel(a, d, M, W, op) ==
  /\ IsData(a, M, W) /\ DOMAIN a.msgs = DOMAIN d.msgs
  /\ a.tags = Less(d.tags, {op.name})
  /\ a.rules = d.rules /\ a.filters = d.filters
  /\ \A x : Entry(a, x) = IF x \in DOMAIN d.msgs THEN Untagged(d.msgs[x], op.name) ELSE Fresh
RenamedList(s, op) == [i \in DOMAIN s |-> IF s[i] = op.old THEN op.new ELSE s[i]]
Renamed(e, op) == [e EXCEPT !.tags = RenamedList(@, op)]
RenColor(d, op) ==
  IF op.old # op.new /\ op.old \in DOMAIN d.tags /\ op.color = {} THEN d.tags[op.old]
  ELSE ColorOr(d.tags, op.new, op.color)
AfterTagren(a, d, M, W, op) ==
  /\ IsData(a, M, W) /\ DOMAIN a.msgs = DOMAIN d.msgs
  /\ a.tags = Put(IF op.old = op.new THEN d.tags ELSE Less(d.tags, {op.old}), op.new, RenColor(d, op))
  /\ a.rules = d.rules /\ a.filters = d.filters
  /\ \A x : Entry(a, x) = IF x \in DOMAIN d.msgs THEN Renamed(d.msgs[x], op) ELSE Fresh
AfterRules(a, d, M, W, op) ==
  /\ IsData(a, M, W) /\ a.msgs = d.msgs /\ a.tags = d.tags
  /\ a.rules = (IF op.t = "rules" THEN op.rules ELSE d.rules)
  /\ a.filters = (IF op.t = "filters" THEN op.filters ELSE d.filters)

\* The messages an operation gives an entry.
Mentions(op) == IF op.t \in {"flags", "tags", "ruled"} THEN op.mids ELSE {}

\* A mark of a message; which operations write it, and what they make of it.
On(e, k, t) ==
  \/ k = "read" /\ e.read = TRUE
  \/ k = "star" /\ e.star = TRUE
  \/ k = "ruled" /\ e.ruled = TRUE
  \/ k = "tag" /\ t \in Range(e.tags)
Writes(op, x, k, t) ==
  \/ k = "read" /\ op.t = "flags" /\ x \in op.mids /\ op.read # {}
  \/ k = "star" /\ op.t = "flags" /\ x \in op.mids /\ op.star # {}
  \/ k = "ruled" /\ op.t = "ruled" /\ x \in op.mids
  \/ k = "tag" /\ op.t = "tags" /\ x \in op.mids /\ t \in Range(op.add) \cup op.remove
Gives(op, k, t) ==
  \/ k = "read" /\ TRUE \in op.read
  \/ k = "star" /\ TRUE \in op.star
  \/ k = "ruled"
  \/ k = "tag" /\ t \in Range(op.add)

\* The tags of the document, the rules and the filters.
AfterAny(a, d, op) ==
  /\ \A t : t \notin Recasts(op) =>
       (t \in DOMAIN a.tags <=> t \in DOMAIN d.tags \/ (op.t = "tags" /\ t \in Range(op.add)))
  /\ a.rules = (IF op.t = "rules" THEN op.rules ELSE d.rules)
  /\ a.filters = (IF op.t = "filters" THEN op.filters ELSE d.filters)

\* Every tag a message carries is one the document lists, but for some.
Listed(d, rc) == \A x : Range(Entry(d, x).tags) \subseteq DOMAIN d.tags \cup rc

-----------------------------------------------------------------------------
(* What a list of operations makes of a document.                            *)

Orderly(l, M, W, mv, rc) ==
  \A j \in 1 .. Len(l) : /\ IsStep(l[j], M, W)
                         /\ Moves(l[j]) \subseteq mv /\ Recasts(l[j]) \subseteq rc
Wrote(l, n, x, k, t) == \E j \in 1 .. n : Writes(l[j], x, k, t)
Touched(l, n, x)     == \E j \in 1 .. n : x \in Mentions(l[j])
Lists(l, n, t)       == \E j \in 1 .. n : l[j].t = "tags" /\ t \in Range(l[j].add)
Sets(l, n, kind)     == \E j \in 1 .. n : l[j].t = kind

\* g is what the first n of them make of d, h what they make of e.
Makes(g, h, d, e, l, n, M, W, mv, rc) ==
  /\ IsData(g, M, W) /\ IsData(h, M, W)
  /\ \A x : x \notin mv => (x \in DOMAIN g.msgs <=> x \in DOMAIN d.msgs \/ Touched(l, n, x))
  /\ \A x, k, t : x \notin mv /\ (k = "tag" => t \notin rc) =>
       IF Wrote(l, n, x, k, t) THEN On(Entry(g, x), k, t) <=> On(Entry(h, x), k, t)
                               ELSE On(Entry(g, x), k, t) <=> On(Entry(d, x), k, t)
  /\ \A t : t \notin rc => (t \in DOMAIN g.tags <=> t \in DOMAIN d.tags \/ Lists(l, n, t))
  /\ g.rules = IF Sets(l, n, "rules") THEN h.rules ELSE d.rules
  /\ g.filters = IF Sets(l, n, "filters") THEN h.filters ELSE d.filters
  /\ Listed(d, rc) => Listed(g, rc)
Folds(g, h, base, l, n) ==
  /\ g[0] = base /\ h[0] = base
  /\ \A k \in 1 .. n : g[k] = Apply(g[k - 1], l[k]) /\ h[k] = Apply(h[k - 1], l[k])

-----------------------------------------------------------------------------
(* What a load starts from.                                                  *)

BaseOf(s, f) ==
  IF s = <<>> THEN IF f = <<>> THEN NewData ELSE f[1]
              ELSE IF f = <<>> THEN s[1] ELSE MergeMissing(s[1], f[1])
IsFile(f, M, W, rc) ==
  f = <<>> \/ (f = <<f[1]>> /\ IsData(f[1], M, W) /\ Listed(f[1], rc))

\* What b is, a merge of c with e.
Merged(b, c, e, M, W, rc) ==
  /\ IsData(b, M, W) /\ Listed(b, rc)
  /\ DOMAIN b.msgs = DOMAIN c.msgs \cup DOMAIN e.msgs
  /\ \A x : Entry(b, x) = IF x \in DOMAIN c.msgs THEN Entry(c, x) ELSE Entry(e, x)
  /\ DOMAIN b.tags = DOMAIN c.tags \cup DOMAIN e.tags
  /\ b.rules = (IF c.rules = <<>> THEN e.rules ELSE c.rules)
  /\ b.filters = c.filters

\* The snapshot first, the file for what it does not have.
Based(b, s, f, M, W, rc) ==
  /\ IsData(b, M, W) /\ Listed(b, rc)
  /\ f = <<>> => b = BaseOf(s, <<>>)
  /\ f # <<>> =>
       /\ DOMAIN b.msgs = DOMAIN BaseOf(s, <<>>).msgs \cup DOMAIN f[1].msgs
       /\ \A x : Entry(b, x) = IF x \in DOMAIN BaseOf(s, <<>>).msgs THEN Entry(BaseOf(s, <<>>), x)
                                                                   ELSE Entry(f[1], x)
       /\ DOMAIN b.tags = DOMAIN BaseOf(s, <<>>).tags \cup DOMAIN f[1].tags
       /\ b.rules = (IF s = <<>> \/ s[1].rules = <<>> THEN f[1].rules ELSE s[1].rules)
       /\ b.filters = (IF s = <<>> THEN f[1].filters ELSE s[1].filters)

-----------------------------------------------------------------------------
(* Agreement with the document every operation made once.                    *)

Agree(d, i, mv, rc) ==
  /\ \A x, k, t : x \notin mv /\ (k = "tag" => t \notin rc) =>
       (On(Entry(d, x), k, t) <=> On(Entry(i, x), k, t))
  /\ DOMAIN i.tags \ rc \subseteq DOMAIN d.tags
  /\ i.rules # <<>> => d.rules = i.rules
  /\ d.filters = i.filters

\* Whatever file a load starts from, the log makes of it what the operations make;
\* and a file knows no message that neither the snapshot nor the log knows.
Sound(s, l, F, i, mv, rc) ==
  /\ l \in Seq(Ops) /\ Orderly(l, Mid, Tag, mv, rc)
  /\ IsFile(s, Mid, Tag, rc) /\ IsData(i, Mid, Tag) /\ Listed(i, rc)
  /\ <<>> \in F /\ \A f \in F : IsFile(f, Mid, Tag, rc)
  /\ \A f \in F : \A x \in DOMAIN BaseOf(s, f).msgs :
       x \in mv \/ x \in DOMAIN BaseOf(s, <<>>).msgs \/ Touched(l, Len(l), x)
  /\ \A f \in F : Agree(Replay(BaseOf(s, f), l), i, mv, rc)

\* A file that may be read next: where the snapshot and the log say nothing, it
\* says what the operations made.
Follows(d, s, l, i, mv, rc) ==
  /\ IsData(d, Mid, Tag) /\ Listed(d, rc)
  /\ \A x \in DOMAIN d.msgs : x \in mv \/ x \in DOMAIN BaseOf(s, <<>>).msgs \/ Touched(l, Len(l), x)
  /\ \A x, k, t : /\ x \notin mv /\ (k = "tag" => t \notin rc) /\ x \notin DOMAIN BaseOf(s, <<>>).msgs
                  /\ ~Wrote(l, Len(l), x, k, t)
       => (On(Entry(d, x), k, t) <=> On(Entry(i, x), k, t))
  /\ \A t \in DOMAIN i.tags \ rc :
       t \in DOMAIN BaseOf(s, <<>>).tags \/ t \in DOMAIN d.tags \/ Lists(l, Len(l), t)
  /\ i.rules # <<>> /\ ~Sets(l, Len(l), "rules") /\ (s = <<>> \/ s[1].rules = <<>>) => d.rules = i.rules
  /\ s = <<>> /\ ~Sets(l, Len(l), "filters") => d.filters = i.filters

-----------------------------------------------------------------------------
(* The documents, step by step.                                              *)

FilesOf(dt, lc) == {<<>>} \cup {<<dt[m]>> : m \in Machine} \cup {lc[m] : m \in Machine}
DocsInv ==
  /\ Sound(snap, log, FilesOf(data, local), ideal, moved, recast)
  /\ data = [m \in Machine |-> data[m]] /\ local = [m \in Machine |-> local[m]]
  /\ seen = [m \in Machine |-> seen[m]]
  /\ made \in 0 .. MaxOps /\ Len(log) <= made
  /\ \A m \in Machine : seen[m] => Agree(data[m], ideal, moved, recast)

\* A load, over any operations the files are sound for.
LoadsTo(s, l, F, f, i, mv, rc, got) ==
  /\ got = Replay(BaseOf(s, f), l)
  /\ Agree(got, i, mv, rc)
  /\ Sound(s, l, F \cup {<<got>>}, i, mv, rc)
  /\ Sound(<<got>>, <<>>, F \cup {<<got>>}, i, mv, rc)

-----------------------------------------------------------------------------
(* The folds of the desk.                                                    *)

Merging(g, base, list) ==
  /\ g[0] = base /\ \A k \in 1 .. Len(list) : g[k] = Admit(g[k - 1], list[k])
  /\ FoldLeft(Admit, base, list) = g[Len(list)]
Filtering(g, list) ==
  /\ g[0] = <<>> /\ \A k \in 1 .. Len(list) : g[k] = Accept(g[k - 1], list[k])
  /\ CleanFilters(list) = g[Len(list)]
Treating(g, base, list, plan) ==
  /\ g[0] = base /\ \A k \in 1 .. Len(list) : g[k] = Treat(g[k - 1], list[k], plan[list[k]])
  /\ FoldLeft(LAMBDA e, x : Treat(e, x, plan[x]), base, list) = g[Len(list)]
Noting(g, base, list, idx, a) ==
  /\ g[0] = base /\ \A k \in 1 .. Len(list) : g[k] = NoteMessage(g[k - 1], idx[list[k]], a)
  /\ FoldLeft(LAMBDA c, x : NoteMessage(c, idx[x], a), base, list) = g[Len(list)]
Summing(g, list) ==
  /\ g[0] = 0 /\ \A k \in 1 .. Len(list) : g[k] = g[k - 1] + list[k].count
  /\ FoldLeft(LAMBDA n, e : n + e.count, 0, list) = g[Len(list)]

-----------------------------------------------------------------------------
(* Sorted lists.                                                             *)

\* R orders S: the place of an element is the number of those it does not come
\* before, and s lists all elements by their places.
Orders(R, S) ==
  /\ \A x, y \in S : <<x, y>> \in R => <<y, x>> \notin R
  /\ \A x, y \in S : x # y => <<x, y>> \in R \/ <<y, x>> \in R
  /\ \A x, y, z \in S : <<x, y>> \in R /\ <<y, z>> \in R => <<x, z>> \in R
PlaceIn(R, S, x) == Cardinality({y \in S : <<x, y>> \notin R})
IsOrder(s, S, R) ==
  /\ s \in Seq(S) /\ Len(s) = Cardinality(S) /\ Range(s) = S
  /\ \A i \in 1 .. Len(s) : PlaceIn(R, S, s[i]) = i

-----------------------------------------------------------------------------
(* What the rules do to a document.                                          *)

\* One message has more marks, perhaps, and the rest is as it was.
Gains(a, d, M, W, x) ==
  /\ IsData(a, M, W) /\ DOMAIN a.msgs = DOMAIN d.msgs \cup {x}
  /\ a.rules = d.rules /\ a.filters = d.filters
  /\ DOMAIN d.tags \subseteq DOMAIN a.tags
  /\ Listed(d, {}) => Listed(a, {})
  /\ \A y : y # x => Entry(a, y) = Entry(d, y)
IsMark(op, M, W, x, t) == IsStep(op, M, W) /\ op.t = t /\ op.mids = {x} /\ Recasts(op) = {}

\* Some tags more, or flags set, and nothing where there is nothing to do.
GainsTags(a, d, M, W, x, add) ==
  /\ Gains(a, d, M, W, x)
  /\ Range(Entry(a, x).tags) = Range(Entry(d, x).tags) \cup Range(add)
  /\ Entry(a, x).read = Entry(d, x).read /\ Entry(a, x).star = Entry(d, x).star
  /\ Entry(a, x).ruled = Entry(d, x).ruled
  /\ x \in DOMAIN d.msgs /\ Range(add) \subseteq Range(Entry(d, x).tags) \cap DOMAIN d.tags => a = d

\* A flag that is set, or left alone.
Raise(b, to) == IF to = {} THEN b ELSE TRUE
GainsFlags(a, d, M, W, x, read, star) ==
  /\ Gains(a, d, M, W, x)
  /\ Entry(a, x).tags = Entry(d, x).tags /\ Entry(a, x).ruled = Entry(d, x).ruled
  /\ Entry(a, x).read = Raise(Entry(d, x).read, read)
  /\ Entry(a, x).star = Raise(Entry(d, x).star, star)
  /\ /\ x \in DOMAIN d.msgs
     /\ read = {} \/ Entry(d, x).read = TRUE
     /\ star = {} \/ Entry(d, x).star = TRUE
     => a = d

\* A message the rules have had: what the rule that hits gives, it has.
Settled(e, hit) ==
  /\ e.ruled = TRUE
  /\ hit # <<>> => /\ Range(hit[1].tags) \subseteq Range(e.tags)
                   /\ hit[1].read => e.read = TRUE
                   /\ hit[1].star => e.star = TRUE
IsHit(hit, W) == hit # <<>> => hit[1].tags \in Seq(W) /\ {hit[1].read, hit[1].star} \subseteq BOOLEAN

\* What treating some messages makes of a document.
Treated(a, d, M, W, plan, ms) ==
  /\ IsData(a, M, W) /\ Listed(a, {}) /\ a.rules = d.rules /\ a.filters = d.filters
  /\ DOMAIN a.msgs = DOMAIN d.msgs \cup ms
  /\ \A x \in ms : Settled(Entry(a, x), plan[x])
  /\ \A x : x \notin ms => Entry(a, x) = Entry(d, x)
  /\ (\A x \in ms : Settled(Entry(d, x), plan[x])) => a = d
IsPlan(plan, M, W) ==
  /\ DOMAIN plan \subseteq M /\ DOMAIN plan \subseteq Nat /\ IsFiniteSet(DOMAIN plan)
  /\ \A x \in DOMAIN plan : IsHit(plan[x], W)

-----------------------------------------------------------------------------
(* Rules.                                                                    *)

\* What the rules of a document may be.
Needles == {r.contains : r \in Offered} \cup Addr
Fields  == {r.field : r \in Offered} \cup {"any", "from"}
Rules   == [field : Fields, contains : Needles, folder : SUBSET Folder, tags : Seq(Labels),
            star : BOOLEAN, read : BOOLEAN, enabled : BOOLEAN]

-----------------------------------------------------------------------------
(* The sidebar's folders.                                                    *)

SideNames(idx, d) == SystemFolders \o OwnFolders(idx, d)
Side(f, idx, d) ==
  [name |-> f, count |-> Cardinality({x \in DOMAIN idx : idx[x].folder = f}),
   unread |-> Cardinality({x \in {x \in DOMAIN idx : idx[x].folder = f} : ~Entry(d, x).read})]

-----------------------------------------------------------------------------
(* Saved searches.                                                           *)

Pages == ToSave \cup {[f EXCEPT !.name = Cut[@]] : f \in ToSave}

\* Searches as they are stored.
Distinct(fs) == \A i, j \in 1 .. Len(fs) : Lower[fs[i].name] = Lower[fs[j].name] => i = j
CleanOnes(fs) ==
  /\ fs \in Seq(Pages) /\ Len(fs) <= MaxFilters /\ Distinct(fs)
  /\ \A i \in 1 .. Len(fs) : fs[i].name # Blank /\ fs[i].query # Blank /\ Cut[fs[i].name] = fs[i].name

-----------------------------------------------------------------------------
(* The index and the plan.                                                   *)

IsMail(m, t) ==
  /\ m = [from |-> m.from, name |-> m.name, to |-> m.to, words |-> m.words, date |-> m.date, folder |-> m.folder]
  /\ m.folder \in Folder /\ m.date \in 1 .. t - 1
IsIndex(idx, t) ==
  /\ DOMAIN idx \subseteq Key /\ idx = [x \in DOMAIN idx |-> idx[x]]
  /\ \A x \in DOMAIN idx : IsMail(idx[x], t)
  /\ \A x, y \in DOMAIN idx : idx[x].date = idx[y].date => x = y

\* But for folders, one index is the other.
Refiled(new, idx) ==
  /\ DOMAIN new = DOMAIN idx /\ new = [x \in DOMAIN idx |-> new[x]]
  /\ \A x \in DOMAIN idx : \E f \in Folder : new[x] = [idx[x] EXCEPT !.folder = f]

-----------------------------------------------------------------------------
(* The steps of the desk.                                                    *)

\* The document of the messages xs: every tag on one is listed, the rules file
\* into folders that can exist, and the searches are as they are stored.
IsDoc(d, xs) ==
  /\ IsData(d, xs, Labels) /\ Listed(d, {})
  /\ d.rules \in Seq(Rules) /\ CleanOnes(d.filters)
DeskInv ==
  /\ steps \in 0 .. MaxSteps /\ now \in 1 .. steps + 1
  /\ IsIndex(index, now) /\ IsDoc(doc, DOMAIN index)

-----------------------------------------------------------------------------
(* Imports.                                                                  *)

HasKey(rules, r) == \E q \in Range(rules) : RuleKey(q) = RuleKey(r)
Starts(a, b) == Len(a) <= Len(b) /\ \A i \in 1 .. Len(a) : b[i] = a[i]

\* The rules there were stay first, every imported one has its like, and where
\* all had, nothing changes.
Joined(m, base, list, n) ==
  /\ m \in Seq(Rules) /\ Starts(base, m)
  /\ \A i \in 1 .. n : HasKey(m, list[i])
  /\ (\A i \in 1 .. n : HasKey(base, list[i])) => m = base

-----------------------------------------------------------------------------
(* The pages of one index.                                                   *)

\* What a search finds, before it is sorted.
Finds(idx, d, terms, filters, o) ==
  {x \in DOMAIN idx :
    LET m == idx[x]
        e == Entry(d, x) IN
    /\ o.folder = {} \/ m.folder \in o.folder
    /\ o.unread => ~e.read
    /\ o.star => e.star
    /\ o.tag \subseteq Range(e.tags)
    /\ \A t \in terms : Found(t, {m.from, m.name} \union m.to \union m.words \union Range(e.tags))
    /\ \A f \in filters : Matches(idx, d, x, f[1], f[2])}
Options == [folder |-> {}, tag |-> {}, unread |-> FALSE, star |-> FALSE]
InFolder(idx, f) == {x \in DOMAIN idx : idx[x].folder = f}
FreshIn(idx, d, f) == {x \in InFolder(idx, f) : ~Entry(d, x).read}

-----------------------------------------------------------------------------
(* The sidebar counts what the list shows.                                   *)

\* The messages that are in one of the first k folders.
InFirst(idx, names, k) == {x \in DOMAIN idx : \E i \in 1 .. k : idx[x].folder = names[i]}
Counted(v, idx, names, k) == v = Cardinality(InFirst(idx, names, k))

-----------------------------------------------------------------------------
(* Waiting mail and contacts.                                                *)

\* Mail of an address that can be an answer, and all mail with it.
FromThem(idx, a, y) == y \in DOMAIN idx /\ idx[y].from = a /\ idx[y].folder \notin {Sent, Drafts}
WithThem(idx, a, y) == y \in DOMAIN idx /\ idx[y].folder # Drafts /\ a \in idx[y].to \cup {idx[y].from}

\* What is known of an address from the messages of mail.
IsContact(c) ==
  /\ c = [addr |-> c.addr, name |-> c.name, count |-> c.count, last |-> c.last]
  /\ c.count \in Nat /\ c.last \in Nat
MailBy(idx, mail, a) == {x \in mail : idx[x].from = a}
MailTo(idx, mail, a) == {x \in mail : a \in idx[x].to}
KnownFrom(c, mail, idx, a) ==
  /\ IsContact(c) /\ c.addr = a
  /\ c.count = Cardinality(MailBy(idx, mail, a)) + Cardinality(MailTo(idx, mail, a))
  /\ IF c.count = 0 THEN c.last = 0
       ELSE \E x \in MailBy(idx, mail, a) \cup MailTo(idx, mail, a) : idx[x].date = c.last
  /\ \A x \in MailBy(idx, mail, a) \cup MailTo(idx, mail, a) : idx[x].date <= c.last
  /\ c.name = NoName => \A x \in mail : idx[x].from = a => idx[x].name = NoName
  /\ c.name # NoName => \E x \in mail : idx[x].from = a /\ idx[x].name = c.name

\* The contacts of an index, and the order they are offered in.
AreContacts(known) ==
  /\ IsFiniteSet(known)
  /\ \A c \in known : IsContact(c) /\ c.addr \in Addr
  /\ \A b, c \in known : b.addr = c.addr => b = c
Fitting(known, q) == {c \in known : Found(q, {c.addr, c.name})}
AheadIn(S) == {p \in S \X S : Ahead(p[1], p[2])}

=============================================================================
