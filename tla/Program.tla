------------------------------- MODULE Program --------------------------------
(***************************************************************************)
(* Starting, setting up and quitting: cmd/s3mail/main.go and running.go,   *)
(* web/token.go, wizard/wizard.go, config/config.go and the part of        *)
(* web/server.go that finds the mailbox of a request.                      *)
(*                                                                         *)
(* Several starts of the program share the port, the address file and two  *)
(* files that the wizard rewrites: config.json with the mailboxes and the  *)
(* AWS credentials with the profiles.  A file is a list of entries; an     *)
(* entry has an id (bucket and prefix, or the profile's name) and the save *)
(* it comes from, which stands for whatever else the form holds.           *)
(***************************************************************************)
EXTENDS Naturals, SequencesExt, FiniteSets

CONSTANTS Start,      \* starts of the program
          Tab,        \* wizard pages open at a time
          Id,         \* mailboxes, or profiles
          MaxSaves,   \* bound: forms sent
          MaxFault,   \* bound: things that go wrong
          Faults      \* which may, a subset of {"crash", "access", "address"}

File == {"config", "credentials"}
None == "none"

ASSUME ProgramAssumption ==
  /\ IsFiniteSet(Id) /\ MaxSaves \in Nat /\ MaxFault \in Nat
  /\ Faults \subseteq {"crash", "access", "address"} /\ None \notin Start \union Id

VARIABLES
  owner,      \* the start that holds the port
  addr,       \* the start the address file names
  pc,         \* per start: where main is
  accounts, byID,  \* per start: the server's mailboxes, and its index of them
  disk,       \* per file: its entries, or none when it is empty or broken
  form,       \* per wizard page: what it is about and how far its save is
  book,       \* history: per file, the save each entry should come from
  stale, down,  \* history: per start, whether it began before a save, and what
              \* it could not reach
  excused,    \* history: "overlap" - two saves at once; "twice" - an entry was
              \* edited into another; "removed" - the address file of a later
              \* start was removed
  saves, spent

server == <<accounts, byID, down>>
files  == <<disk, book>>
counts == <<saves, spent>>
vars   == <<owner, addr, pc, server, files, form, stale, excused, counts>>

Entry == [id : Id, save : Nat]
Closed == [step |-> "closed"]

TypeOK ==
  /\ owner \in Start \union {None} /\ addr \in Start \union {None}
  /\ pc \in [Start -> {"off", "listen", "probe", "bound", "serve", "closing",
                       "window", "refused", "ended"}]
  /\ \A s \in Start : Range(accounts[s]) \subseteq Entry /\ DOMAIN byID[s] \subseteq Id
  /\ \A f \in File : Range(disk[f]) \subseteq Entry /\ DOMAIN book[f] \subseteq Id
  /\ \A t \in Tab : form[t] # Closed =>
       /\ pc[form[t].by] \in {"serve", "closing"} /\ form[t].file \in File
       /\ form[t].step \in {"form", "read", "torn", "written", "swap"}
  /\ stale \subseteq Start /\ down \in [Start -> SUBSET Id]
  /\ excused \subseteq {"overlap", "twice", "removed"}
  /\ saves \in 0 .. MaxSaves /\ spent \in 0 .. MaxFault
  /\ owner # None <=> \E s \in Start : pc[s] \in {"bound", "serve"}

\* The old shape of config.json, with one mailbox at the top level, reads as a
\* list of one.
Init ==
  /\ owner = None /\ addr = None /\ pc = [s \in Start |-> "off"]
  /\ accounts = [s \in Start |-> <<>>] /\ byID = [s \in Start |-> <<>>]
  /\ down = [s \in Start |-> {}] /\ stale = {}
  /\ \E first \in SUBSET Id :
       /\ book = [f \in File |-> [i \in first |-> 0]]
       /\ \E list \in SetToSeqs({[id |-> i, save |-> 0] : i \in first}) :
            disk = [f \in File |-> list]
  /\ form = [t \in Tab |-> Closed]
  /\ excused = {} /\ saves = 0 /\ spent = 0

-----------------------------------------------------------------------------
Goto(s, step) == pc' = [pc EXCEPT ![s] = step]
Spend(kind) == kind \in Faults /\ spent < MaxFault /\ spent' = spent + 1
Fine == UNCHANGED spent

\* Mailboxes that cannot be armed: none, or some.
Bad(bad) == IF bad = {} THEN Fine ELSE Spend("access")
Armed(list, bad) ==
  FoldLeft(LAMBDA kept, e : IF e.id \in bad THEN kept ELSE Append(kept, e), <<>>, list)

\* The last of a list with an ID.
LastOf(list, i) == list[Max({n \in DOMAIN list : list[n].id = i})]

\* Mutant: the map is filled further, and what is gone stays in it.
IndexOnto(old, list) == [i \in {e.id : e \in Range(list)} |-> LastOf(list, i)] @@ old
\* SetAccounts' map, which was emptied before: of two with one ID the last.
IndexOf(old, list) == [i \in {e.id : e \in Range(list)} |-> LastOf(list, i)]

\* account: the mailbox chosen, or else the first.
Resolve(s, chosen) ==
  IF chosen \in DOMAIN byID[s] THEN byID[s][chosen] ELSE Head(accounts[s])

-----------------------------------------------------------------------------
(* main. *)
\* The configuration is read and the mailboxes are armed before the port is.
Begin(s) ==
  /\ pc[s] = "off" /\ Goto(s, "listen")
  /\ \E bad \in SUBSET {e.id : e \in Range(disk["config"])} :
       /\ Bad(bad) /\ down' = [down EXCEPT ![s] = bad]
       /\ LET list == Armed(disk["config"], bad) IN
          /\ accounts' = [accounts EXCEPT ![s] = list]
          /\ byID' = [byID EXCEPT ![s] = IndexOf(@, list)]
  /\ UNCHANGED <<owner, addr, files, form, stale, excused, saves>>

Listen(s) ==
  /\ pc[s] = "listen"
  /\ IF owner = None THEN owner' = s /\ Goto(s, "bound")
                     ELSE Goto(s, "probe") /\ UNCHANGED owner
  /\ UNCHANGED <<addr, server, files, form, stale, excused, counts>>

\* runningInstance: the address file names a server, and it answers.
Probe(s) ==
  /\ pc[s] = "probe"
  /\ IF addr # None /\ addr = owner /\ pc[owner] = "serve" THEN Goto(s, "window") ELSE Goto(s, "refused")
  /\ UNCHANGED <<owner, addr, server, files, form, stale, excused, counts>>

\* WriteTokenFile: a start that cannot write it says nothing and serves.
Serve(s) ==
  /\ pc[s] = "bound" /\ Goto(s, "serve")
  /\ \/ addr' = s /\ Fine /\ UNCHANGED excused
     \/ Spend("address") /\ addr' = None /\ excused' = excused \union {"removed"}
  /\ UNCHANGED <<owner, server, files, form, stale, saves>>

\* /api/quit or a signal.  Shutdown closes the port, Serve returns at once and
\* main with it: nobody waits for the requests under way.
Quit(s) ==
  /\ pc[s] = "serve" /\ Goto(s, "closing") /\ owner' = None
  /\ UNCHANGED <<addr, server, files, form, stale, excused, counts>>

Begun(s) == {r \in Start \ {s} : pc[r] \notin {"off", "window", "refused", "ended"}}
\* The process is gone, and what it was writing is torn: the file is empty.
Torn(s, f) == \E t \in Tab :
  form[t] # Closed /\ form[t].by = s /\ form[t].file = f /\ form[t].step = "torn"
Gone(s) ==
  /\ Goto(s, "ended")
  /\ form' = [t \in Tab |-> IF form[t] # Closed /\ form[t].by = s THEN Closed ELSE form[t]]
  /\ book' = [f \in File |-> IF Torn(s, f) THEN <<>> ELSE book[f]]
  /\ stale' = IF Torn(s, "config") THEN stale \union Begun(s) ELSE stale \ {s}
  /\ accounts' = [accounts EXCEPT ![s] = <<>>] /\ byID' = [byID EXCEPT ![s] = <<>>]
  /\ down' = [down EXCEPT ![s] = {}] /\ UNCHANGED disk

\* RemoveTokenFile removes the file, whoever it names.
RemoveFile(s) ==
  /\ addr' = None
  /\ excused' = IF addr # None /\ addr # s THEN excused \union {"removed"} ELSE excused
End(s) ==
  /\ pc[s] = "closing" /\ Gone(s) /\ RemoveFile(s)
  /\ UNCHANGED <<owner, counts>>

\* Mutant: the port of a program that crashed stays taken.
StillHeld(s) == owner
\* The system closes the port of a process that is gone.
Freed(s) == IF owner = s THEN None ELSE owner
Crash(s) ==
  /\ pc[s] \in {"listen", "probe", "bound", "serve", "closing"} /\ Spend("crash")
  /\ Gone(s) /\ owner' = Freed(s)
  /\ UNCHANGED <<addr, excused, saves>>

-----------------------------------------------------------------------------
(* The wizard. *)
\* Mutant: the wizard always edits the first mailbox.
PlaceFirst(list, e, editing) == IF list = <<>> THEN <<e>> ELSE <<e>> \o Tail(list)
\* place: where the edited one stood, or where one with its ID stands, or last.
\* iniSet does the same with sections, where editing is the id.
Place(list, e, editing) ==
  LET at(i) == SelectInSeq(list, LAMBDA x : x.id = i) IN
  CASE at(editing) # 0 -> [list EXCEPT ![at(editing)] = e]
    [] at(editing) = 0 /\ at(e.id) # 0 -> [list EXCEPT ![at(e.id)] = e]
    [] OTHER -> Append(list, e)

Page(step, s, f, editing) == [step |-> step, by |-> s, file |-> f, editing |-> editing]
\* A page whose form was sent: the entry, and the list that is to be written.
Sent(page, e, list) == [step |-> "read", by |-> page.by, file |-> page.file,
                        editing |-> page.editing, entry |-> e, list |-> list]
\* Info: a page comes up for a mailbox or for a new one (None), the dialog for
\* credentials for a profile.
Open(t) ==
  /\ form[t] = Closed /\ owner # None /\ pc[owner] = "serve" /\ saves < MaxSaves
  /\ \E f \in File, editing \in Id \union {None} :
       /\ editing = None \/ f = "credentials" \/ \E e \in Range(disk[f]) : e.id = editing
       /\ f = "credentials" => editing # None
       /\ form' = [form EXCEPT ![t] = Page("form", owner, f, editing)]
  /\ UNCHANGED <<owner, addr, pc, server, files, stale, excused, counts>>

Saving(t) == form[t].step \in {"read", "torn", "written", "swap"}

\* Save and WriteCredentials read the file ...
Submit(t) ==
  /\ form[t].step = "form" /\ pc[form[t].by] = "serve"
  /\ saves < MaxSaves /\ saves' = saves + 1
  /\ \E id \in Id :
       LET f == form[t].file
           e == [id |-> id, save |-> saves'] IN
       /\ f = "credentials" => id = form[t].editing
       /\ form' = [form EXCEPT ![t] = Sent(@, e, Place(disk[f], e, @.editing))]
       /\ excused' = excused
            \union (IF \E u \in Tab \ {t} : form[u] # Closed /\ Saving(u) THEN {"overlap"} ELSE {})
            \union (IF id \in DOMAIN book[f] /\ form[t].editing \in DOMAIN book[f] \ {id}
                      THEN {"twice"} ELSE {})
  /\ UNCHANGED <<owner, addr, pc, server, files, stale, spent>>

Step(t, step) == form' = [form EXCEPT ![t].step = step]

\* ... empty it ...
Truncate(t) ==
  /\ form[t].step = "read" /\ Step(t, "torn")
  /\ disk' = [disk EXCEPT ![form[t].file] = <<>>]
  /\ UNCHANGED <<owner, addr, pc, server, book, stale, excused, counts>>

\* ... and write it.  Credentials are then done.
Write(t) ==
  LET f == form[t].file
      e == form[t].entry IN
  /\ form[t].step = "torn"
  /\ disk' = [disk EXCEPT ![f] = form[t].list]
  /\ book' = [book EXCEPT ![f] =
       [i \in {e.id} \union (DOMAIN @ \ {form[t].editing}) |-> IF i = e.id THEN e.save ELSE @[i]]]
  /\ IF f = "credentials" THEN form' = [form EXCEPT ![t] = Closed] /\ UNCHANGED stale
     ELSE Step(t, "written") /\ stale' = stale \union Begun(form[t].by)
  /\ UNCHANGED <<owner, addr, pc, server, excused, counts>>

\* Activate arms the mailboxes it wrote, then SetAccounts sets the list, and an
\* empty map ...
Activate(t) ==
  LET s == form[t].by IN
  /\ form[t].step = "written" /\ form' = [form EXCEPT ![t] = Page("swap", s, @.file, @.editing)]
  /\ \E bad \in SUBSET {e.id : e \in Range(form[t].list)} :
       /\ Bad(bad) /\ down' = [down EXCEPT ![s] = bad]
       /\ accounts' = [accounts EXCEPT ![s] = Armed(form[t].list, bad)]
  /\ UNCHANGED <<owner, addr, pc, byID, files, stale, excused, saves>>

\* ... which it fills.  The page goes to the mailbox, or shows the error and
\* keeps what it was editing: the error of any mailbox.
Answer(t) ==
  LET s == form[t].by IN
  /\ form[t].step = "swap"
  /\ byID' = [byID EXCEPT ![s] = IndexOf(@, accounts[s])]
  /\ form' = [form EXCEPT ![t] =
       IF down[s] = {} /\ accounts[s] # <<>> THEN Closed
       ELSE Page("form", s, @.file, @.editing)]
  /\ UNCHANGED <<owner, addr, pc, accounts, down, files, stale, excused, counts>>

Close(t) ==
  /\ form[t].step = "form" /\ form' = [form EXCEPT ![t] = Closed]
  /\ UNCHANGED <<owner, addr, pc, server, files, stale, excused, counts>>

Wizard(t) == Submit(t) \/ Truncate(t) \/ Write(t) \/ Activate(t) \/ Answer(t) \/ Close(t)

Next ==
  \/ \E s \in Start : Begin(s) \/ Listen(s) \/ Probe(s) \/ Serve(s) \/ Quit(s) \/ End(s) \/ Crash(s)
  \/ \E t \in Tab : Open(t) \/ Wizard(t)

Spec == Init /\ [][Next]_vars

-----------------------------------------------------------------------------
Quiet(f) == \A t \in Tab : form[t] # Closed /\ form[t].file = f => form[t].step # "torn"

\* A save changes the entry it edits and no other: between two saves each file
\* holds, once, every entry that was ever saved in it and not edited since, as
\* the last save left it.  A mailbox that the edited one was turned into, two
\* saves at the same time, and a program that ended while it wrote are what the
\* code does not guard against.
OthersKept ==
  \A f \in File :
    Quiet(f) /\ excused \intersect {"overlap", "twice"} = {} =>
      /\ Len(disk[f]) = Cardinality(DOMAIN book[f])
      /\ \A e \in Range(disk[f]) : e.id \in DOMAIN book[f] /\ book[f][e.id] = e.save

\* Once a save is answered the server serves the mailboxes of the file, but for
\* those it could not reach, and a request gets the mailbox it names or, where
\* there is none of that name any more, one that is still in the file.
ServedIsSaved ==
  \A s \in Start :
    /\ pc[s] = "serve" /\ s \notin stale
    /\ \A t \in Tab : form[t] # Closed => form[t].file = "credentials" \/ ~Saving(t)
    /\ "overlap" \notin excused
    => /\ Range(accounts[s]) = {e \in Range(disk["config"]) : e.id \notin down[s]}
       /\ accounts[s] # <<>> => \A chosen \in Id :
            /\ Resolve(s, chosen) \in Range(disk["config"])
            /\ (\E e \in Range(accounts[s]) : e.id = chosen) => Resolve(s, chosen).id = chosen

\* While one instance serves, the address file names it, so a second start finds
\* its window, and after it has quit no file sends anybody to a dead port, unless
\* it crashed or the file was removed by, or could not be written for, another.
FileNamesServer ==
  /\ owner # None /\ pc[owner] = "serve" /\ "removed" \notin excused => addr = owner
  /\ spent = 0 /\ addr # None => pc[addr] \in {"serve", "closing"}

\* Who starts the program once more, or asks the one that runs, finds what was
\* set up last (main.go, running.go, server.go SetAccounts).
SetUpIsServed == ServedIsSaved /\ FileNamesServer
=============================================================================
