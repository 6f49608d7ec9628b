------------------------------ MODULE ProgramInv ------------------------------
(* The inductive invariant behind the theorems of ProgramProofs: what every  *)
(* step of starts and wizard pages keeps of the two files and of the         *)
(* mailboxes that are served.                                                *)
EXTENDS Program

-----------------------------------------------------------------------------
(* Types.                                                                    *)
PcType == {"off", "listen", "probe", "bound", "serve", "closing",
           "window", "refused", "ended"}
\* A page that waits for its person, or for its answer, and one whose list is on
\* its way to the file.
Waiting == [step : {"form", "swap"}, by : Start, file : File, editing : Id \union {None}]
Writing == [step : {"read", "torn", "written"}, by : Start, file : File,
            editing : Id \union {None}, entry : Entry, list : Seq(Entry)]

OwnerOK ==
  /\ owner \in Start \union {None} /\ addr \in Start \union {None}
  /\ pc \in [Start -> PcType]
  /\ \A s \in Start : pc[s] \in {"bound", "serve"} <=> owner = s

ServerOK ==
  /\ accounts \in [Start -> Seq(Entry)] /\ DOMAIN byID = Start
  /\ \A s \in Start : DOMAIN byID[s] \subseteq Id
  /\ down \in [Start -> SUBSET Id] /\ stale \subseteq Start

FilesOK ==
  /\ disk \in [File -> Seq(Entry)] /\ DOMAIN book = File
  /\ \A f \in File : DOMAIN book[f] \subseteq Id

\* A page lives as long as the start that showed it, which may be closing.
FormsOK ==
  /\ form \in [Tab -> {Closed} \union Waiting \union Writing]
  /\ \A t \in Tab : form[t] # Closed =>
       /\ pc[form[t].by] \in {"serve", "closing"}
       /\ form[t].step \in {"written", "swap"} => form[t].file = "config"

CountsOK ==
  /\ excused \subseteq {"overlap", "twice", "removed"}
  /\ saves \in 0 .. MaxSaves /\ spent \in 0 .. MaxFault

Shape == OwnerOK /\ ServerOK /\ FilesOK /\ FormsOK /\ CountsOK

-----------------------------------------------------------------------------
(* Saves, one at a time.                                                     *)
\* Only one save is under way, and while it writes the file is empty.
Alone == "overlap" \notin excused =>
  /\ \A t, u \in Tab : Saving(t) /\ Saving(u) => t = u
  /\ \A t \in Tab : form[t].step = "torn" => disk[form[t].file] = <<>>

\* A list with the entries of a book: each once, from the save it should be.
Holds(list, bk) ==
  /\ \A i, j \in DOMAIN list : list[i].id = list[j].id => i = j
  /\ DOMAIN bk = {e.id : e \in Range(list)}
  /\ \A e \in Range(list) : bk[e.id] = e.save

Updated(bk, e, editing) ==
  [i \in {e.id} \union (DOMAIN bk \ {editing}) |-> IF i = e.id THEN e.save ELSE bk[i]]

\* What is in a file is booked, and what is to be written will be.
Booked == excused \intersect {"overlap", "twice"} = {} =>
  /\ \A f \in File : Quiet(f) => Holds(disk[f], book[f])
  /\ \A t \in Tab : form[t].step \in {"read", "torn"} =>
       Holds(form[t].list, Updated(book[form[t].file], form[t].entry, form[t].editing))

-----------------------------------------------------------------------------
(* What is served.                                                           *)
Alive(s) == pc[s] \in {"listen", "probe", "bound", "serve", "closing"}

\* The index leads to a mailbox of that name for every mailbox there is.
Indexed(s) ==
  /\ DOMAIN byID[s] = {e.id : e \in Range(accounts[s])}
  /\ \A i \in DOMAIN byID[s] : byID[s][i] \in Range(accounts[s]) /\ byID[s][i].id = i

Armable(s) == {e \in Range(disk["config"]) : e.id \notin down[s]}
AtStep(s, steps) == \E t \in Tab : form[t].step \in steps /\ form[t].by = s

\* A start that is not behind a save has armed what is in the file, but for the
\* time its own save takes from the file to the mailboxes and their index.
Current == "overlap" \notin excused =>
  /\ \A t \in Tab : form[t].step = "written" => form[t].list = disk["config"]
  /\ \A s \in Start : Alive(s) /\ s \notin stale /\ Quiet("config") =>
       /\ Range(accounts[s]) = Armable(s) \/ AtStep(s, {"written"})
       /\ Indexed(s) \/ AtStep(s, {"written", "swap"})

Inv == Shape /\ Alone /\ Booked /\ Current /\ FileNamesServer
=============================================================================
