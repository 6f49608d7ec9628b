-------------------------------- MODULE Core --------------------------------
(***************************************************************************)
(* The parts of a program that share nothing but the mailbox, side by      *)
(* side: the desk of one machine (Desk), the documents of several          *)
(* (Document), the bodies on the disk (Bodies), the dialog somebody writes *)
(* in (Compose), and the assistant (Assistant).  A behaviour is of one     *)
(* of them.                                                                *)
(***************************************************************************)
EXTENDS Desk, Document

CONSTANT MaxFault  \* bound: calls that fail, and restarts

CONSTANTS Program, Worker, ProgramOf, Mail, Enveloped, Place, Home, Size, CacheMax,
          CacheKeys, NoKey, MaxFetch
VARIABLES where, files, key, known, encrypted, lock, pc, mem, loose, fetched, broken
B == INSTANCE Bodies WITH index <- known, spent <- broken
disk == <<where, files, key, known, encrypted, lock, pc, mem, loose, fetched, broken>>

CONSTANTS Incoming, File, NoMessage, First, Kept, Patient, MaxTyped, MaxCalls
VARIABLES drafts, sent, current, view, dlg, calls, owed, excused, astray, typed, called, failed
C == INSTANCE Compose WITH None <- NoMessage, made <- called, spent <- failed
writing == <<drafts, sent, current, view, dlg, calls, owed, excused, astray, typed, called, failed>>

CONSTANTS Letter, ToWrite, Spelling, Clean, Foreign, MaxAsked
VARIABLES box, knows, marks, readOnly, lifecycle, binned, written, asked
A == INSTANCE Assistant WITH rules <- lifecycle
assistant == <<box, knows, marks, readOnly, lifecycle, binned, written, asked>>

ASSUME CoreAssumption == A!Constants /\ B!Constants /\ C!Constants /\ DocConstants

VARIABLE part
CoreInit ==
  /\ Init /\ DocInit /\ B!Init /\ C!Init /\ A!Init
  /\ part \in {"desk", "docs", "disk", "writing", "assistant"}
  /\ part # "disk" => \A p, q \in Program : known[p] = <<>> /\ key[p] = key[q]
  /\ part # "assistant" => ~readOnly
CoreNext ==
  /\ UNCHANGED part
  /\ \/ part = "desk" /\ Next /\ UNCHANGED <<docs, disk, writing, assistant>>
     \/ part = "docs" /\ DocNext /\ UNCHANGED <<vars, disk, writing, assistant>>
     \/ part = "disk" /\ B!Next /\ UNCHANGED <<vars, docs, writing, assistant>>
     \/ part = "writing" /\ C!Next /\ UNCHANGED <<vars, docs, disk, assistant>>
     \/ part = "assistant" /\ A!Next /\ UNCHANGED <<vars, docs, disk, writing>>
CoreSpec == CoreInit /\ [][CoreNext]_<<vars, docs, disk, writing, assistant, part>>

\* Everything is well formed: the documents, the index, the suggestions, the
\* cache directory, the dialog and its drafts, the bucket (core/state.go Data).
CoreTypeOK ==
  CASE part = "desk" -> TypeOK [] part = "docs" -> DocTypeOK [] part = "disk" -> B!TypeOK
    [] part = "writing" -> C!TypeOK [] part = "assistant" -> A!TypeOK
\* Every operation made twice is the operation made once, and machines with every
\* operation agree on the document (core/state.go Apply, store/state.go Load).
OpsConverge == part = "docs" => OpsIdempotent /\ LoadAgrees
\* What somebody has decided stands: the rules, the suggestions one accepts and
\* the files one imports do their work once, and saving one search costs no other
\* (core/rules.go, suggest.go, portable.go, filters.go).
DecisionsStand == part = "desk" =>
  RulesSettle /\ SuggestionSettles /\ ImportKeepsDecisions /\ FiltersStay
\* What the pages show of one index agrees (core/folder.go, search.go, followup.go,
\* contacts.go).
PagesOfDesk == part = "desk" => PagesAgree
\* Who opens a message sees it, whatever lies in the cache (store/mail.go Fetch).
OpenShowsTheMessage == part = "disk" => B!OpenShowsTheMessage
\* The cache keeps its limit (store/bodycache.go).
CacheBounded == part = "disk" => B!CacheBounded
\* No draft is lost (web/assets/inbox.html, web/send.go).
WrittenIsKept == part = "writing" => C!WrittenIsKept
\* What goes out hides the blind copies and hangs on the message it was written on,
\* unless that one was left (mailer/send.go; web/assets/inbox.html open, draftBody).
SentAsWritten == part = "writing" => C!SentAsWritten
\* No request makes the assistant lose a message (mcp/tools.go).
NothingLostToAssistant == part = "assistant" => A!NothingLostToAssistant
=============================================================================
