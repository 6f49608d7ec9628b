------------------------------- MODULE Assistant -------------------------------
(***************************************************************************)
(* The assistant's server (mcp/server.go, mcp/tools.go, cmd/s3mail/mcp.go) *)
(* beside the window of the same person, over a bucket whose lifecycle     *)
(* rule may empty the trash (awsx/bucket.go).  It takes one request after  *)
(* the other and works on the index it read when it started.               *)
(*                                                                         *)
(* A request that is refused changes nothing and is no step; nor is one    *)
(* that only looks (search, read, folders), and there is none that sends.  *)
(* How a message is read is in Bodies, how one is moved in Mailbox.  A     *)
(* base name stays with its message here: no two are the same.             *)
(***************************************************************************)
EXTENDS Integers, FiniteSets

CONSTANTS
  Letter, ToWrite, \* messages in the inbox, and the drafts the assistant may write
  Spelling, Clean, \* names a request may give a folder, and what ValidFolder makes of them
  Foreign,         \* lifecycle rules of others
  MaxAsked         \* bound: requests that change something, moves, failures

Inbox == ""
Trash == "trash"
Spam == "spam"
Drafts == "drafts"
Folder == {Inbox, Trash, Spam, Drafts, "archiv"}
Bad  == "bad"      \* not a folder
Gone == "gone"     \* no message
Ours == "s3mail-trash"  \* the rule that empties the trash

Any == Letter \cup ToWrite

\* ValidFolder gives a folder or nothing; a name of ours is not a rule of others.
Constants ==
  Clean \in [Spelling -> Folder \cup {Bad}] /\ Ours \notin Foreign /\ MaxAsked \in Nat

VARIABLES
  box,       \* the bucket: message -> its folder, or Gone
  knows,     \* the server's index: message -> the folder it knows it in, or Gone
  marks,     \* message -> [read, star, tagged], known to everybody
  readOnly,  \* started with --mcp-readonly
  rules,     \* the lifecycle rules of the bucket
  binned,    \* history: messages a person threw away
  written,   \* history: drafts the assistant wrote
  asked      \* counter behind the bound

assistant == <<box, knows, marks, readOnly, rules, binned, written, asked>>

Init ==
  /\ box = [m \in Any |-> IF m \in Letter THEN Inbox ELSE Gone] /\ knows = box
  /\ marks = [m \in Any |-> [read |-> FALSE, star |-> FALSE, tagged |-> FALSE]]
  /\ readOnly \in BOOLEAN /\ rules = Foreign /\ binned = {} /\ written = {} /\ asked = 0

Ask == asked < MaxAsked /\ asked' = asked + 1
Tool == Ask /\ ~readOnly

-----------------------------------------------------------------------------
(* The tools. *)
\* Mutant: the folder is compared as it is spelled.
AsSpelled(f) == Clean[f] # Bad /\ f \notin {Trash, Spam}
\* What ValidFolder makes of the name is a folder, and neither trash nor spam.
MoveTargetOK(f) == Clean[f] \notin {Bad, Trash, Spam}

\* Each message for itself: one that is not where the server knows it cannot be
\* copied and stays, as does one whose copy fails or whose original remains.
MoveTool(ms, f) ==
  LET to   == Clean[f]
      here == {m \in ms : knows[m] \notin {Gone, to} /\ box[m] = knows[m]}
  IN /\ Tool /\ ms # {} /\ MoveTargetOK(f)
     /\ \E moved \in SUBSET here :
          /\ box' = [m \in Any |-> IF m \in moved THEN to ELSE box[m]]
          /\ knows' = [m \in Any |-> IF m \in moved THEN to ELSE knows[m]]
          /\ binned' = binned \ moved
     /\ UNCHANGED <<marks, readOnly, rules, written>>

\* Marks hang on the base name, wherever the message lies.
Mark(ms, f, v) ==
  /\ marks' = [m \in Any |-> IF m \in ms THEN [marks[m] EXCEPT ![f] = v] ELSE marks[m]]
  /\ UNCHANGED <<box, knows, readOnly, rules, binned, written>>
TagTool(ms, add) == Tool /\ ms # {} /\ Mark(ms, "tagged", add)
FlagTool(ms, f, v) == Tool /\ ms # {} /\ f \in {"read", "star"} /\ Mark(ms, f, v)

\* A draft is a message of its own, and read.
DraftTool(m) ==
  /\ Tool /\ m \in ToWrite \ written /\ written' = written \cup {m}
  /\ box' = [box EXCEPT ![m] = Drafts] /\ knows' = [knows EXCEPT ![m] = Drafts]
  /\ marks' = [marks EXCEPT ![m].read = TRUE]
  /\ UNCHANGED <<readOnly, rules, binned>>

\* It is started again, and knows the listing, or what an index file tells if
\* that fails: the one it wrote itself.
Start(only, fails) ==
  /\ Ask /\ readOnly' = only /\ knows' = IF fails THEN knows ELSE box
  /\ UNCHANGED <<box, marks, rules, binned, written>>

-----------------------------------------------------------------------------
(* The person and the bucket. *)
Thrown(m, f) == binned' = IF f \in {Trash, Spam, Gone} THEN binned \cup {m} ELSE binned \ {m}
MoveByHand(m, f) ==
  /\ Ask /\ box[m] \notin {Gone, f} /\ box' = [box EXCEPT ![m] = f]
  /\ Thrown(m, f) /\ UNCHANGED <<knows, marks, readOnly, rules, written>>
\* Deleted for good from the trash, and a draft when it is sent or rewritten.
DeleteByHand(m) ==
  /\ Ask /\ box[m] \in {Trash, Drafts} /\ box' = [box EXCEPT ![m] = Gone]
  /\ Thrown(m, Gone) /\ UNCHANGED <<knows, marks, readOnly, rules, written>>

\* SetLifecycle: the rules there are, but for ours, and ours if there is a number
\* of days.  Whatever goes wrong when they are read, there are none then.
SetLifecycle(on, readable) ==
  /\ ~readable => Ask
  /\ readable => UNCHANGED asked
  /\ rules' = (IF readable THEN rules \ {Ours} ELSE {}) \cup (IF on THEN {Ours} ELSE {})
  /\ rules' # rules
  /\ UNCHANGED <<box, knows, marks, readOnly, binned, written>>

Expire(m) ==
  /\ Ours \in rules /\ box[m] = Trash /\ box' = [box EXCEPT ![m] = Gone]
  /\ UNCHANGED <<knows, marks, readOnly, rules, binned, written, asked>>

Next ==
  \/ \E ms \in SUBSET Any :
       \/ \E f \in Spelling : MoveTool(ms, f)
       \/ \E v \in BOOLEAN : TagTool(ms, v) \/ \E f \in {"read", "star"} : FlagTool(ms, f, v)
  \/ \E m \in Any :
       \/ DraftTool(m) \/ DeleteByHand(m) \/ Expire(m)
       \/ \E f \in Folder : MoveByHand(m, f)
  \/ \E a, b \in BOOLEAN : Start(a, b) \/ SetLifecycle(a, b)
Spec == Init /\ [][Next]_assistant

-----------------------------------------------------------------------------
TypeOK ==
  /\ box \in [Any -> Folder \cup {Gone}] /\ knows \in [Any -> Folder \cup {Gone}]
  /\ marks \in [Any -> [read : BOOLEAN, star : BOOLEAN, tagged : BOOLEAN]]
  /\ readOnly \in BOOLEAN /\ rules \subseteq Foreign \cup {Ours}
  /\ binned \subseteq Any /\ written \subseteq ToWrite /\ asked \in 0 .. MaxAsked

\* Whatever the assistant is asked to do, by whomever, nothing is lost by it: a
\* message that is gone, or where a rule may empty the folder, was put there by
\* a person, and the assistant's drafts are where a person finds them
\* (mcp/tools.go:16-32).
NothingLostToAssistant ==
  \A m \in Any :
    box[m] \in {Gone, Trash, Spam} => m \in binned \/ m \in ToWrite \ written
=============================================================================
