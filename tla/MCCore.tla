------------------------------- MODULE MCCore -------------------------------
(* A small instance of Core for TLC.                                         *)
EXTENDS Core, TLC

(* Document: two messages, two tags, and the operations the routes issue. *)
Issued ==
  LET flag(m, r, s) == [t |-> "flags", mids |-> {m}, read |-> r, star |-> s]
      tag(ms, a, r) == [t |-> "tags", mids |-> ms, add |-> a, remove |-> r]
  IN {flag("a", {TRUE}, {}), flag("a", {FALSE}, {TRUE}),
      tag({"a"}, <<"x", "y">>, {"x"}), tag({"b"}, <<"x", "y">>, {}), tag({"a", "b"}, <<"y">>, {"x"}),
      [t |-> "drop", mids |-> {"a"}],
      [t |-> "rekey", old |-> "a", new |-> "b"],
      [t |-> "tagdel", name |-> "x"],
      [t |-> "tagren", old |-> "x", new |-> "y", color |-> {}],
      [t |-> "tagren", old |-> "y", new |-> "y", color |-> {2}],
      [t |-> "rules", rules |-> <<"r">>],
      [t |-> "filters", filters |-> <<"f">>]}

(* Bodies: the window and the assistant, and a plain message and an encrypted one,
   which alone fills the cache. *)
CONSTANTS w1, w2, s1, k1, k2
Workers == {w1, w2, s1}
Owner == (w1 :> "window" @@ w2 :> "window" @@ s1 :> "server")
AtHome == [m \in {"a", "b"} |-> "inbox"]
Sizes == ("a" :> 1 @@ "b" :> 2)
Keyring == {k1, k2}

(* Assistant: two messages and a draft; "trash" spelled in two ways. *)
Cleaned == "" :> "" @@ "trash" :> "trash" @@ " trash/" :> "trash" @@ "a/b" :> "bad"
           @@ "archiv" :> "archiv"
Spellings == DOMAIN Cleaned

\* Machines, goroutines, keys and incoming messages are interchangeable, and no
\* liveness is checked.
Symmetry == Permutations(Machine) \cup Permutations({w1, w2}) \cup Permutations({k1, k2})
            \cup Permutations(Incoming)

(* Desk: a shop with two addresses, one of which ends in the other, and us. *)
FolderNames == <<"", "Shop", "archiv", "drafts", "sent", "spam", "trash">>
Contained ==
  "ab" :> {"ab", "b"} @@ [a \in {"b", "me", "Anna", "-", "offer", "x"} |-> {a}]
Senders == <<"ab", "b", "me">>
TwoThirds == <<2, 3>>

From(a, n, w) == [from |-> a, name |-> n, to |-> {"me"}, words |-> w]
Post == {From("ab", "Anna", {"offer"}), From("b", "-", {}),
         [from |-> "me", name |-> "-", to |-> {"b", "ab"}, words |-> {}]}

Rule(field, contains, folder, on) ==
  [field |-> field, contains |-> contains, folder |-> folder, tags |-> <<"x">>,
   star |-> FALSE, read |-> on, enabled |-> on]
Lists == {<<Rule("subject", "offer", {"Shop"}, TRUE)>>,
          <<Rule("body", "Anna", {}, TRUE), Rule("from", " ", {}, TRUE)>>}
Imports == {[rules |-> <<Rule("from", "b", {"trash"}, TRUE), Rule("subject", "offer", {"archiv"}, FALSE)>>,
             tags |-> {"x"}]}

\* A name, and a longer one that is cut to it in another spelling: one too many.
Saved(n) == [name |-> n, query |-> "offer"]
Searches == {Saved(n) : n \in {"Mo", "monday"}}
Itself == [n \in {"mo", "Mo", "monday"} \union {FolderNames[i] : i \in 1 .. 7} |-> n]
Small == "Mo" :> "mo" @@ "Shop" :> "shop" @@ Itself
Short == "monday" :> "mo" @@ Itself

=============================================================================
