--------------------------------- MODULE Desk ---------------------------------
(***************************************************************************)
(* What is computed from the index and the document, and what the page     *)
(* changes with it: rules, suggestions, import and export, saved searches, *)
(* waiting mail, contacts, the sidebar and the search (core/*.go, the      *)
(* routes of web/server.go).  One machine, and an op or a move takes one   *)
(* step: Mailbox and OpLog have what comes in between.                     *)
(*                                                                         *)
(* A text is what it can be found by: an atom (an address, a word, a name) *)
(* contains the needles in Within[atom], itself among them.  The index is  *)
(* in the order of the keys, as Mailbox.Index sorts it, so a key says      *)
(* nothing about a date.                                                   *)
(***************************************************************************)
EXTENDS Operations

CONSTANTS
  Key,            \* base names of messages: 1 .. n, in key order
  Names,          \* folder names, sorted
  Book, Within,   \* addresses, sorted, and the needles of every atom
  Letters,        \* what may arrive: [from, name, to, words]
  RuleLists,      \* what the page may save
  Files,          \* what may be imported: [rules, tags]
  MinEvidence,    \* messages a suggestion needs (4)
  Nearly,         \* of <<n, d>>: n of d messages are nearly all (4 of 5)
  MaxTags,        \* tags a rule may have (5)
  ToSave,         \* searches to save: [name, query]
  Lower, Cut,     \* a name in small letters, and cut to its length (40)
  MaxFilters,     \* searches that may be saved (30)
  Offers,         \* contacts offered where no number is asked for (10) ...
  MaxOffers,      \* ... and at most (25)
  Patience,       \* age from which sent mail is waiting
  MaxSteps        \* bound: steps of a behaviour

Inbox == ""
Trash == "trash"
Spam == "spam"
Sent == "sent"
Drafts == "drafts"
SystemFolders == <<Inbox, Drafts, Sent, "archiv", Spam, Trash>>
InboxWords == {"posteingang", "inbox", "entrada", "bandeja"}
Folder == Range(Names)
Addr   == Range(Book)
Blank  == " "      \* a text of white space
NoName == "-"      \* a From without a display name
Me     == "me"

\* The rules that may be saved or imported, and all tags there may be.
Offered == UNION {Range(rules) : rules \in RuleLists \union {in.rules : in \in Files}}
Labels  == UNION ({Range(r.tags) : r \in Offered} \union {in.tags : in \in Files})

\* An imported folder is one that can exist: Move refuses any other.
ASSUME DeskAssumption ==
  /\ Key \subseteq Nat /\ IsFiniteSet(Key)
  /\ Names \in Seq(Folder) /\ Range(SystemFolders) \subseteq Folder
  /\ MinEvidence \in Nat \ {0} /\ MaxTags \in Nat /\ Patience \in Nat /\ MaxSteps \in Nat
  /\ Nearly \in Nat \X (Nat \ {0}) /\ MaxFilters \in Nat
  /\ Book \in Seq(Addr) /\ Offers \in Nat \ {0} /\ MaxOffers \in Nat
  /\ Addr \subseteq DOMAIN Within \ {Blank} /\ \A a \in DOMAIN Within : a \in Within[a]
  /\ RuleLists \subseteq Seq(Offered) /\ IsFiniteSet(Labels)
  /\ \A r \in Offered :
       /\ r = [field |-> r.field, contains |-> r.contains, folder |-> r.folder, tags |-> r.tags,
               star |-> r.star, read |-> r.read, enabled |-> r.enabled]
       /\ r.tags \in Seq(Labels) /\ {r.star, r.read, r.enabled} \subseteq BOOLEAN
  /\ \A in \in Files : in.rules \in Seq({r \in Offered : r.folder \subseteq Folder})
  /\ \A f \in ToSave : /\ f = [name |-> f.name, query |-> f.query]
                       /\ Cut[Cut[f.name]] = Cut[f.name] /\ (f.name # Blank => Cut[f.name] # Blank)

VARIABLES
  index,     \* the messages, by key
  doc,       \* the state document
  now,       \* the date
  steps      \* history: steps taken

vars == <<index, doc, now, steps>>

Found(needle, atoms) == needle = Blank \/ \E a \in atoms : needle \in Within[a]
Keys(idx, P(_)) == {x \in DOMAIN idx : P(idx[x])}
Rank(f) == CHOOSE i \in DOMAIN Names : Names[i] = f
Spelled(a) == CHOOSE i \in DOMAIN Book : Book[i] = a
\* The elements of a finite set, each before those it comes before: the i-th
\* comes before all but i of them.
InOrder(S, Before(_, _)) ==
  [i \in 1 .. Cardinality(S) |-> CHOOSE x \in S : Cardinality({y \in S : ~Before(x, y)}) = i]
ByKey(S)       == InOrder(S, LAMBDA x, y : x < y)
Newest(idx, S) == InOrder(S, LAMBDA x, y : idx[x].date > idx[y].date)

-----------------------------------------------------------------------------
(* Rules. *)
\* CleanRules, where it does not refuse the list.
CleanRule(r) ==
  [r EXCEPT !.field = IF @ \in {"from", "to", "subject"} THEN @ ELSE "any",
            !.tags = IF Len(@) > MaxTags THEN SubSeq(@, 1, MaxTags) ELSE @]
CleanRules(rules) ==
  LET kept == Strip(rules, {r \in Range(rules) : r.contains = Blank})
  IN [i \in DOMAIN kept |-> CleanRule(kept[i])]
Refused(rules) == \E r \in Range(rules) : r.contains # Blank /\ ~ r.folder \subseteq Folder

Hits(r, m) ==
  Found(r.contains, CASE r.field = "from"    -> {m.from, m.name}
                      [] r.field = "to"      -> m.to
                      [] r.field = "subject" -> m.words
                      [] OTHER               -> {m.from, m.name} \union m.to \union m.words)

\* The first enabled rule that hits, or none.
Deciding(rules, m) ==
  LET hits == {i \in DOMAIN rules : rules[i].enabled /\ Hits(rules[i], m)}
  IN IF hits = {} THEN <<>> ELSE <<rules[Min(hits)]>>

SkipsRules == {Trash, Spam, Sent, Drafts}

\* Mutant: what the automation leaves alone is not marked as seen by it.
PlanUnmarked(idx, d, force) ==
  [x \in {x \in DOMAIN idx : /\ \E r \in Range(d.rules) : r.enabled
                             /\ force \/ (~Entry(d, x).ruled /\ idx[x].folder \notin SkipsRules)}
     |-> Deciding(d.rules, idx[x])]
\* What is to be done: the rule for every message of the plan, or none.
PlanRules(idx, d, force) ==
  [x \in {x \in DOMAIN idx : /\ \E r \in Range(d.rules) : r.enabled
                             /\ force \/ ~Entry(d, x).ruled}
     |-> IF idx[x].folder \in SkipsRules /\ ~force THEN <<>> ELSE Deciding(d.rules, idx[x])]

\* ApplyRules: the operations on one message, those of the plan, and where its
\* messages end up.
Treat(d, x, hit) ==
  LET flag(on) == IF on THEN {TRUE} ELSE {}
      ruled == Apply(d, [t |-> "ruled", mids |-> {x}])
      tagged(r) == IF r.tags = <<>> THEN ruled
                     ELSE Apply(ruled, [t |-> "tags", mids |-> {x}, add |-> r.tags, remove |-> {}])
      flagged(r) == Apply(tagged(r), [t |-> "flags", mids |-> {x},
                                      read |-> flag(r.read), star |-> flag(r.star)])
  IN IF hit = <<>> THEN ruled ELSE flagged(hit[1])
RuledDoc(d, plan) == FoldLeft(LAMBDA e, x : Treat(e, x, plan[x]), d, ByKey(DOMAIN plan))
RuledIndex(idx, plan) ==
  [x \in DOMAIN idx |->
     IF x \in DOMAIN plan /\ plan[x] # <<>> /\ plan[x][1].folder # {}
       THEN [idx[x] EXCEPT !.folder = CHOOSE f \in plan[x][1].folder : TRUE] ELSE idx[x]]

(* Suggestions.  The index is not decorated: its messages carry no tags. *)
Evidence(idx, a) == Keys(idx, LAMBDA m : m.from = a /\ m.folder \notin {Sent, Drafts})

Covered(rules, a) ==
  \E r \in Range(rules) : r.field \in {"from", "any"} /\ r.contains # Blank /\ r.contains \in Within[a]

Strongest(idx, S) ==
  LET n(f) == Cardinality({x \in S : idx[x].folder = f}) IN
  CHOOSE f \in Folder : \A g \in Folder : n(f) > n(g) \/ (n(f) = n(g) /\ Rank(f) <= Rank(g))

Suggest(idx, rules) ==
  LET sug(a) == LET S == Evidence(idx, a)
                    f == Strongest(idx, S)
                IN [contains |-> a, folder |-> f, count |-> Cardinality(S),
                    agree |-> Cardinality({x \in S : idx[x].folder = f})]
  IN {s \in {sug(a) : a \in Addr} :
        /\ s.count >= MinEvidence /\ ~Covered(rules, s.contains)
        /\ s.folder \notin {Inbox, Trash}
        /\ s.agree * Nearly[2] >= s.count * Nearly[1]}

(* Files. *)
\* A rule that does not move and one that moves to the inbox have the same key.
RuleKey(r) == <<r.field, r.contains, r.folder \ {Inbox}, Range(r.tags), r.star, r.read>>

Admit(rules, r) ==
  IF \E q \in Range(rules) : RuleKey(q) = RuleKey(r) THEN rules ELSE Append(rules, r)
Merge(d, in) == FoldLeft(Admit, d.rules, in.rules)
Export(d) == [rules |-> d.rules, tags |-> DOMAIN d.tags]

(* Saved searches. *)
\* The first of two with one name stays, and so do as many as there may be.
Accept(filters, f) ==
  IF \/ f.name = Blank \/ f.query = Blank \/ Len(filters) = MaxFilters
     \/ \E g \in Range(filters) : Lower[g.name] = Lower[Cut[f.name]]
    THEN filters ELSE Append(filters, [f EXCEPT !.name = Cut[@]])
CleanFilters(filters) == FoldLeft(Accept, <<>>, filters)

(* Waiting mail. *)
LastIn(idx, a) ==
  Max({0} \union {idx[x].date : x \in Keys(idx, LAMBDA m : m.from = a /\ m.folder \notin {Sent, Drafts})})

Unanswered(idx) ==
  {x \in Keys(idx, LAMBDA m : m.folder = Sent /\ m.to # {} /\ now - m.date >= Patience) :
     \A a \in idx[x].to : LastIn(idx, a) <= idx[x].date}

Conversation(idx, a) ==
  Newest(idx, Keys(idx, LAMBDA m : m.folder # Drafts /\ a \in m.to \union {m.from}))

(* Contacts. *)
Note(c, name, date) ==
  [c EXCEPT !.name = IF @ = NoName \/ (date > c.last /\ name # NoName) THEN name ELSE @,
            !.count = @ + 1, !.last = IF date > @ THEN date ELSE @]
NoteMessage(c, m, a) ==
  LET sender == IF m.from = a THEN Note(c, m.name, m.date) ELSE c
  IN IF a \in m.to THEN Note(sender, NoName, m.date) ELSE sender

\* How often the index names an address, and under which name; in key order.
Contact(idx, a) ==
  FoldLeft(LAMBDA c, x : NoteMessage(c, idx[x], a),
           [addr |-> a, name |-> NoName, count |-> 0, last |-> 0], ByKey(DOMAIN idx))
Contacts(idx) == {c \in {Contact(idx, a) : a \in Addr} : c.count > 0}

\* The more frequent contact comes first, then the later one, then by spelling.
Ahead(b, c) ==
  \/ b.count > c.count
  \/ b.count = c.count /\ b.last > c.last
  \/ b.count = c.count /\ b.last = c.last /\ Spelled(b.addr) < Spelled(c.addr)

\* The first of the contacts a needle finds, and how many the route asks for.
Addresses(contacts, q, limit) ==
  LET ranked == InOrder({c \in contacts : Found(q, {c.addr, c.name})}, Ahead)
  IN IF Len(ranked) > limit THEN SubSeq(ranked, 1, limit) ELSE ranked
Limit(n) == IF n \in 1 .. MaxOffers THEN n ELSE Offers

(* The sidebar and the search. *)
\* Mutant: a folder of one's own is listed once something in it is unread.
CountsUnread(idx, d) ==
  InOrder({idx[x].folder : x \in {x \in DOMAIN idx : ~Entry(d, x).read}} \ Range(SystemFolders),
          LAMBDA f, g : Rank(f) < Rank(g))
OwnFolders(idx, d) ==
  InOrder({idx[x].folder : x \in DOMAIN idx} \ Range(SystemFolders),
          LAMBDA f, g : Rank(f) < Rank(g))
Folders(idx, d) ==
  LET names == SystemFolders \o OwnFolders(idx, d)
      here(f) == Keys(idx, LAMBDA m : m.folder = f)
  IN [i \in DOMAIN names |->
        [name |-> names[i], count |-> Cardinality(here(names[i])),
         unread |-> Cardinality({x \in here(names[i]) : ~Entry(d, x).read})]]

\* What in: finds a folder by; two folders may go by one word.
Called(f) == IF f = Inbox THEN InboxWords ELSE {Lower[f]}

\* One filter of a query, on the message x.
Matches(idx, d, x, field, value) ==
  LET m == idx[x]
      e == Entry(d, x) IN
  CASE field = "from"    -> Found(value, {m.from, m.name})
    [] field = "to"      -> Found(value, m.to)
    [] field = "subject" -> Found(value, m.words)
    [] field = "after"   -> m.date >= value
    [] field = "before"  -> m.date <= value
    [] field = "tag"     -> value \in Range(e.tags)
    [] field = "in"      -> value \in Called(m.folder)
    [] field = "is" /\ value = "unread" -> ~e.read
    [] field = "is" /\ value = "read"   -> e.read
    [] field = "is" /\ value = "star"   -> e.star
    [] OTHER             -> TRUE

\* o: the options beside the query, sets of at most one folder and one tag.
Search(idx, d, terms, filters, o) ==
  Newest(idx, {x \in DOMAIN idx :
    LET m == idx[x]
        e == Entry(d, x) IN
    /\ o.folder = {} \/ m.folder \in o.folder
    /\ o.unread => ~e.read
    /\ o.star => e.star
    /\ o.tag \subseteq Range(e.tags)
    /\ \A t \in terms : Found(t, {m.from, m.name} \union m.to \union m.words \union Range(e.tags))
    /\ \A f \in filters : Matches(idx, d, x, f[1], f[2])})

-----------------------------------------------------------------------------
Init == index = <<>> /\ doc = NewData /\ now = 1 /\ steps = 0

Step == steps < MaxSteps /\ steps' = steps + 1

\* A message arrives, or our own is filed under Sent.
Arrive(x, l) ==
  /\ Step /\ x \notin DOMAIN index /\ now' = now + 1
  /\ index' = Put(index, x, [from |-> l.from, name |-> l.name, to |-> l.to, words |-> l.words,
                             date |-> now, folder |-> IF l.from = Me THEN Sent ELSE Inbox])
  /\ UNCHANGED doc

Move(x, f) ==
  /\ Step /\ index[x].folder # f
  /\ index' = [index EXCEPT ![x].folder = f]
  /\ UNCHANGED <<doc, now>>

Read(x) ==
  /\ Step /\ ~Entry(doc, x).read
  /\ doc' = Apply(doc, [t |-> "flags", mids |-> {x}, read |-> {TRUE}, star |-> {}])
  /\ UNCHANGED <<index, now>>

\* What the dialog makes of a rule: a folder it does not list, a star, a read
\* mark and a switched off rule are not in its form.
Row(r) ==
  [r EXCEPT !.folder = {f \in @ : \E e \in Range(Folders(index, doc)) : e.name = f},
            !.star = FALSE, !.read = FALSE, !.enabled = TRUE]
Rows(rules) == [i \in DOMAIN rules |-> Row(rules[i])]
Suggested(s) == [field |-> "from", contains |-> s.contains, folder |-> {s.folder},
                 tags |-> <<>>, star |-> FALSE, read |-> FALSE, enabled |-> TRUE]

SaveRules(rules) ==
  /\ Step /\ ~Refused(rules)
  /\ doc' = Apply(doc, [t |-> "rules", rules |-> CleanRules(rules)])
  /\ UNCHANGED <<index, now>>

\* The dialog's list is saved with a row accepted, typed in or taken out.
Dialog ==
  \/ \E s \in Suggest(index, doc.rules) : SaveRules(Append(Rows(doc.rules), Suggested(s)))
  \/ \E more \in RuleLists : SaveRules(Rows(doc.rules \o more))
  \/ \E i \in DOMAIN doc.rules : SaveRules(Rows(RemoveAt(doc.rules, i)))

\* The list goes back as a whole, a search more or less: one is replaced under
\* any spelling of its name, and taken out under its own.
SetFilters(filters) ==
  /\ Step /\ doc' = Apply(doc, [t |-> "filters", filters |-> CleanFilters(filters)])
  /\ UNCHANGED <<index, now>>
Besides(f) == Strip(doc.filters, {g \in Range(doc.filters) : Lower[g.name] = Lower[f.name]})
SaveFilter(f) == SetFilters(Append(Besides(f), f))
DropFilter(f) == SetFilters(Strip(doc.filters, {g \in Range(doc.filters) : g.name = f.name}))

ApplyRules(force) ==
  LET plan == PlanRules(index, doc, force) IN
  /\ Step /\ plan # <<>>
  /\ index' = RuledIndex(index, plan) /\ doc' = RuledDoc(doc, plan)
  /\ UNCHANGED now

\* Imported rules are not cleaned; imported tags get colours of their own.
Import(in) ==
  LET tags == SetToSeq(in.tags \ DOMAIN doc.tags)
      ruled == Apply(doc, [t |-> "rules", rules |-> Merge(doc, in)])
  IN /\ Step
     /\ doc' = IF tags = <<>> THEN ruled
                 ELSE Apply(ruled, [t |-> "tags", mids |-> {}, add |-> tags, remove |-> {}])
     /\ UNCHANGED <<index, now>>

Next ==
  \/ \E x \in Key, l \in Letters : Arrive(x, l)
  \/ \E x \in DOMAIN index : Read(x) \/ \E f \in Folder : Move(x, f)
  \/ Dialog
  \/ \E force \in BOOLEAN : ApplyRules(force)
  \/ \E in \in Files : Import(in)
  \/ \E f \in ToSave : SaveFilter(f)
  \/ \E f \in Range(doc.filters) : DropFilter(f)

Spec == Init /\ [][Next]_vars

-----------------------------------------------------------------------------
\* The index and the document are well formed: every message is in a folder that
\* can exist and has a date that has been, every mark is a message's, and every
\* tag on a message is listed with a colour.
TypeOK ==
  /\ DOMAIN index \subseteq Key /\ now \in 1 .. MaxSteps + 1 /\ steps \in 0 .. MaxSteps
  /\ \A x \in DOMAIN index : index[x].folder \in Folder /\ index[x].date < now
  /\ DOMAIN doc.msgs \subseteq DOMAIN index
  /\ \A x \in DOMAIN doc.msgs : Range(doc.msgs[x].tags) \subseteq DOMAIN doc.tags

\* Once the rules have run, moving a message by hand, out of the trash or out of
\* the folder they filed it in, gives them nothing to do: it stays where it was
\* put.  And to apply them to everything twice is to do it once
\* (core/rules.go:99-102).
RulesSettle ==
  LET plan == PlanRules(index, doc, FALSE)
      idx  == RuledIndex(index, plan)
      d    == RuledDoc(doc, plan)
      all  == PlanRules(index, doc, TRUE)
  IN /\ \A x \in DOMAIN idx, f \in Folder :
          PlanRules([idx EXCEPT ![x].folder = f], d, FALSE) = <<>>
     /\ LET again == PlanRules(RuledIndex(index, all), RuledDoc(doc, all), TRUE) IN
        /\ RuledIndex(RuledIndex(index, all), again) = RuledIndex(index, all)
        /\ RuledDoc(RuledDoc(doc, all), again) = RuledDoc(doc, all)

\* A suggestion that is accepted is not made again, whatever else the dialog
\* saves, and no message it was made from would leave the folder it names: the
\* evidence agrees with the rule, unless an earlier rule decides.
SuggestionSettles ==
  \A s \in Suggest(index, doc.rules) :
    LET rules == CleanRules(Append(Rows(doc.rules), Suggested(s))) IN
    /\ ~Refused(Append(Rows(doc.rules), Suggested(s)))
    /\ \A t \in Suggest(index, rules) : t.contains # s.contains
    /\ \A x \in Evidence(index, s.contains) :
         LET r == Deciding(rules, index[x]) IN
         r # <<>> /\ (r[1].folder = {s.folder} \/ \E q \in Range(SubSeq(rules, 1, Len(rules) - 1)) : q = r[1])

\* An import changes no decision the rules in force have made: a message that
\* one of them hits is treated as before.  Importing a file twice is importing
\* it once, and importing one's own export changes nothing.
ImportKeepsDecisions ==
  /\ \A in \in Files :
       LET d == [doc EXCEPT !.rules = Merge(doc, in)] IN
       /\ \A x \in DOMAIN index :
            LET r == Deciding(doc.rules, index[x]) IN r # <<>> => Deciding(d.rules, index[x]) = r
       /\ Merge(d, in) = d.rules
  /\ Merge([doc EXCEPT !.rules = Merge(doc, Export(doc))], Export(doc)) = Merge(doc, Export(doc))
  /\ Merge(doc, Export(doc)) = doc.rules

\* Saving a search takes no other one out or out of its place, even where there
\* is no room for it or its name is cut to one there is, and what the page sends
\* back is stored as it is: no two searches have one name.
FiltersStay ==
  /\ CleanFilters(doc.filters) = doc.filters
  /\ \A f \in ToSave : IsPrefix(Besides(f), CleanFilters(Append(Besides(f), f)))

\* The sidebar and the list agree: every folder that holds a message is listed
\* once, with as many messages, and as many unread, as opening it shows and as
\* searching for it by name finds, unless another folder goes by that name.
SidebarCountsList ==
  LET side == Folders(index, doc)
      any  == [folder |-> {}, tag |-> {}, unread |-> FALSE, star |-> FALSE]
      own(f)   == {w \in Called(f) : \A g \in Folder : w \in Called(g) => g = f}
  IN /\ FoldLeft(LAMBDA n, e : n + e.count, 0, side) = Cardinality(DOMAIN index)
     /\ \A i \in DOMAIN side :
          LET e == side[i]
              list == Search(index, doc, {}, {}, [any EXCEPT !.folder = {e.name}]) IN
          /\ Len(list) = e.count
          /\ Len(Search(index, doc, {}, {}, [any EXCEPT !.folder = {e.name}, !.unread = TRUE])) = e.unread
          /\ \A w \in own(e.name) :
               /\ Search(index, doc, {}, {<<"in", w>>}, any) = list
               /\ Len(Search(index, doc, {}, {<<"in", w>>, <<"is", "unread">>}, any)) = e.unread

\* What is called waiting is waiting: in the conversation with each of its
\* recipients nothing of theirs is newer, unless it is among what we wrote.
WaitingIsWaiting ==
  \A x \in Keys(index, LAMBDA m : m.folder = Sent /\ m.to # {} /\ now - m.date >= Patience) :
    x \in Unanswered(index) <=>
      \A a \in index[x].to, y \in UNION {Range(Conversation(index, b)) : b \in index[x].to} :
        index[y].from = a /\ index[y].date > index[x].date => index[y].folder = Sent

\* Whatever is typed, and however many contacts are asked for: as many are
\* offered as the mail has of them and the limit allows, none of them twice; one
\* the limit leaves out is not in more messages than any that is offered, and if
\* in as many, then not in a later one; and typing on takes nobody away who was
\* offered and fits.  A name somebody once signed with is not lost to messages
\* without one.
ContactsAreTheFirst ==
  LET by(a)    == Keys(index, LAMBDA m : m.from = a)
      to(a)    == Keys(index, LAMBDA m : a \in m.to)
      often(a) == Cardinality(by(a)) + Cardinality(to(a))
      signed(a) == {index[x].name : x \in by(a)} \ {NoName}
      known    == Contacts(index)
  IN /\ {c.addr : c \in known} = {a \in Addr : by(a) \union to(a) # {}}
     /\ \A c \in known : IF signed(c.addr) = {} THEN c.name = NoName ELSE c.name \in signed(c.addr)
     /\ \A limit \in {Limit(n) : n \in 0 .. MaxOffers + 1}, q \in {Blank} \union Addr :
          LET list == Addresses(known, q, limit)
              fits == {c \in known : Found(q, {c.addr, c.name})}
          IN /\ Range(list) \subseteq fits
             /\ Cardinality(Range(list)) = Len(list)
             /\ Len(list) = Min({limit, Cardinality(fits)})
             /\ \A b \in Range(list), c \in fits \ Range(list) :
                  \/ often(b.addr) > often(c.addr)
                  \/ /\ often(b.addr) = often(c.addr)
                     /\ \A y \in by(c.addr) \union to(c.addr) :
                          \E x \in by(b.addr) \union to(b.addr) : index[x].date >= index[y].date
             /\ fits \intersect Range(Addresses(known, Blank, limit)) \subseteq Range(list)

\* What the pages show of one index agrees (core/folder.go, search.go, followup.go,
\* contacts.go).
PagesAgree == SidebarCountsList /\ WaitingIsWaiting /\ ContactsAreTheFirst
=============================================================================
