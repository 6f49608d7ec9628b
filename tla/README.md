# s3mail in TLA+

s3mail is a mail client whose mailbox is an S3 bucket. There is no server of
its own: every machine runs the whole program, and all of them read and write
one bucket. This directory models what has to be right for that to work, checks
it with TLC on small instances and proves the core with TLAPS.

## 1. The system

| component | source | state it keeps | operations |
|---|---|---|---|
| shared state | `store/state.go` | snapshot object, one op object per write, per machine a document, a local file, the changes not yet written | NewState, Mutate, Save, Batch, Load, Compact |
| state document | `core/state.go` | flags, tags, rules, filters, numbers | Apply (twelve ops), MergeMissing |
| IMAP numbering | `core/uid.go`, `store/uids.go` | per folder Validity, Next, numbers | AssignUIDs, applyUID, retireUID, EnsureUIDs |
| mailbox | `store/mail.go` | index of the bucket, index file | Refresh, Fetch, Move, Delete, Put, DropDraft, ApplyRules |
| bodies | `store/bodycache.go`, `cachecrypt.go`, `crypto.go` | sealed files under a size limit, shared by the programs of a machine | get, put, cleanup, Decrypt |
| sending | `web/send.go`, `store/sending.go`, `web/sending.go` | a marker object per send, the questions on the page | send handler, RecoverSends, ResolveSending |
| composing | `web/assets/inbox.html`, `web/send.go`, `mailer`, `mimeparse` | the dialog of the page, the drafts folder | open, reply, forward, continue, save, close, send |
| the desk | `core/rules.go`, `suggest.go`, `followup.go`, `search.go`, `filters.go`, `folder.go`, `contacts.go`, `portable.go` | none of their own: index and document | PlanRules, Suggest, Merge, Unanswered, Folders, Search, Addresses |
| pairing | `awsx/devices.go`, `wizard/device.go`, `core/pairing.go` | IAM user and at most two keys per device | Create, DeviceAbandon, Remove |
| watcher and events | `cmd/s3mail/watch.go`, `awsx/queue.go`, `web/events.go`, the page | SQS messages, bounded channels of the open pages | Wait, refresh, Notify, stream, timer, stop |
| program | `cmd/s3mail/main.go`, `running.go`, `web/server.go`, `web/token.go`, `wizard/wizard.go`, `config` | port, address file, config.json, credentials, the armed mailboxes | start, activate, serve, save, quit |
| assistant | `mcp`, `cmd/s3mail/mcp.go`, `awsx/bucket.go` | an index read at its start, the bucket's lifecycle rules | move, tag, flag, draft, search, read, folders |
| formats and access | `qr`, `i18n`, `keyring`, `core/push.go`, most of `awsx` | none worth modelling | encoding, single AWS calls |

How they interact: HTTP handlers and the queue watcher are goroutines that call
the mailbox; the mailbox changes objects in the bucket and its index, and
records what people did through `State.Mutate`; `State` writes ops to the
bucket and merges them; other machines learn of it at their next `Load`.
Sending adds a marker object in `drafts/` that only the send path, the recovery
at a start and the answer to a question touch. The page asks the server and
hears from it through a stream of events; it keeps a dialog and a list of its
own. The assistant is a second program over the same bucket and cache directory.

What is hard, and what makes each part correct:

* **shared state** - several machines and goroutines without a lock, writes
  whose outcome is unknown, crashes at any point, clean-up of what was merged.
  Correct: to whoever uses them the machines are one ledger that nothing is
  struck from; a failed write loses nothing.
* **state document** - ops replayed over snapshots and local files that have them
  already. Correct: every machine that has all ops has the same document.
* **sending** - six steps against three services, each of which may fail or be
  the last before a crash, a recovery in parallel, a person in the loop.
  Correct: no mail goes out twice, none is filed that did not go out, no text is
  lost, and nothing stays undecided for ever.
* **numbering** - the same number handed out twice at once, replays, merges with
  old local files. Correct: one message per number in every document, a number
  is never reused, machines agree.
* **mailbox** - copy-then-delete over objects that other machines move too, an
  index rebuilt while moves go on. Correct: no message lost or doubled, a rule
  files a message once.
* **bodies** - goroutines that meet the first encrypted message together, two
  programs in one directory, a disk that is full. Correct: who opens a message
  sees that message, and the cache keeps its limit.
* **composing** - a page whose answers come late and in any order, versions that
  replace each other. Correct: what was written is somewhere, and what goes out
  is what was written.
* **the desk** - decisions that feed back: a suggestion becomes a rule, a rule
  moves mail, mail is evidence. Correct: what was decided stands, and the pages
  tell one story.
* **pairing** - two keys, asking and then deleting. Correct: a phone in use
  never loses its key, an abandoned code opens nothing.
* **watcher and events** - a notification deleted before it is acted on, full
  channels, streams that break. Correct: new mail is shown in the end.
* **program** - several starts, files rewritten as a whole, mailboxes swapped
  under running requests. Correct: a save costs no other entry, and what was set
  up is served.
* **assistant** - tools called in any order with any name, on a stale index.
  Correct: nothing is lost by it.

`PROJECT.json` lists the components with their status and the hazards, each at
the line where it bites, with the properties that cover it or the reason why
none does.

## 2. Modules

| module | what it is |
|---|---|
| `OpLog`, `Ledger` | the shared state: `store/state.go`, step by step, and what it promises |
| `OpLogInv`, `OpLogProofs` | the inductive invariant of `OpLog`, the theorems about it |
| `Operations`, `Document` | what the ops do to a document; the documents machines make of them |
| `UIDs`, `UIDsInv`, `UIDsProofs` | the numbering of one folder; its invariant and theorems |
| `Sending`, `SendingInv` | a send with its marker, the recovery and the question; invariants |
| `Mailbox`, `MailboxInv`, `MailboxProofs` | index, bucket and state under Refresh, rules, Move, Delete, drafts; invariants and theorems |
| `Bodies` | opening a message, and the cache of bodies two programs share |
| `Compose` | the dialog somebody writes in, its requests and the drafts |
| `Desk` | rules, suggestions, import, saved searches, waiting mail, contacts, sidebar, search |
| `Watch` | queue, watcher, events, page |
| `PostProofs` | the theorems about `Sending` and `Watch`, the mail that goes out and the news of mail that comes in |
| `Program`, `ProgramInv`, `ProgramProofs` | starts, port, address file, wizard, configuration, mailbox of a request; invariant and theorems |
| `Assistant` | the tools of the MCP server |
| `Pairing`, `PairingProofs` | the keys of one device, its dialogs and its phones; the theorems |
| `DeskInv`, `DeskProofs` | invariants and theorems of `Desk` and `Document` |
| `Core`, `CoreInv`, `CoreProofs` | `Desk`, `Document`, `Bodies`, `Compose` and `Assistant` side by side; their invariants and theorems |
| `MC...` | instances for TLC |

`Operations` is the common ground of `Document` and `Desk`: both extend it.
`OpLog` says which ops a machine sees and when, `Document` what they make;
`Mailbox` and `Desk` take the shared document as one and leave its way from
machine to machine to those two. `Sending` has the steps of a send, `Compose`
the message that is sent and the dialog it comes from.

### OpLog

*State.* `snap` and `objs` are the bucket: the snapshot with its watermark
(`upto`, 0 before there is one), and the op objects by name; an op object's key
is a number in key order, `objs[n] = {}` means there is none. Per machine
`local` is the local file and `data`, `pending`, `openOps`, `remoteOK`,
`defers`, `dirty` are the fields of `State`. Per goroutine `pc` says how far a
call has come and the others are its local variables: `flight` the ops Save
took, `base`, `lupto`, `open` those of Load, `shot` Compact's copy. `made`,
`acked`, `known` are history, and so are the three that tell what overlapping calls
cost: `behind` (a goroutine's Load or Compact does not know all that it is going to
replace: something it had to read could not be read, or somebody else's snapshot,
document or op came in between), `struck` (the changes that a step of such a goroutine
took away, or that landed behind the watermark) and `entrusted` (acknowledged changes
that went into, or were left to, another goroutine's write). A document is the set of changes it reflects, and
`MsgOf` says which message entry a change touches, because `MergeMissing` takes
over an entry or leaves it as a whole.

*Actions.* `Mutate` is the first lock section of `State.Mutate`; Save is
`SaveDeferred | SaveNothing | SaveTake`, then `PutLands | PutFails`, then
`Saved`, which goes on to Load when `openOps` reaches `CompactAfter`. `BatchBegin`
and `BatchEnd` are the two ends of `Batch`, whose body is the `Mutate`s in
between. Load is `LoadBase` (local file and snapshot), `LoadList`, `LoadFetch`,
`Install`; Compact is `Clone`, `SnapPut | SnapPutFails`, `GcDelete` per object,
`GcDone`. `Crash` and `Start` end and begin a process.

*Faults.* `Faults` says which may happen, `MaxFault` how many in one behaviour: a put
that reports an error (stored or not), a get or a list that fails (skipped or empty, as
the code does), a delete that fails, a clock that is ahead of the others and leaves a
gap in the names which somebody fills later, a crash. Machines and goroutines interleave
at every step.

*Left out.* The local file and the snapshot are read in one step; the put of a
snapshot and the lock section after it are one step; the `upto` field, which is
only displayed, is left out; a put that lands after its process died is left
out; so is the order of the changes within a document (`Document`).

### Ledger

The promise of the shared state without any of its means: `written`, what whoever
reads the bucket finds, loses a change only to `struck`, and `struck` takes one only
while some goroutine is `blind`; `told`, what was reported as written, is in one of the
two; `screen`, what a machine shows, may be thrown away by a stop and holds, after a load that was
not blind, at least what had been reported when that load began. `OpLog` instantiates it
with `written <- View` (snapshot and the ops above its watermark), `told <- acked \
entrusted`, `since <- known`, `screen <- data`, `blind <- behind` or a write in flight
whose name is behind the watermark; `ImplementsLedger` is checked as a
refinement in `oplog_machines`. No step of Save, Load, Compact or a crash is visible
in it but as one of `Edit`, `Write`, `Ask`, `Answer`, `Show` and `Stop`.

### Operations and Document

*Operations.* A document is `msgs` (per base name read, star, tags, ruled),
`tags` with their colours, `rules` and `filters`. One operator per op of
`core/state.go`, `Apply` the switch, `MergeMissing` the merge that takes over
entries as a whole and only where there is none.

*Document.* Per machine the document in memory, the local file and the count of
open ops; the snapshot and the ops above it in the bucket. `Mutate` is applying,
saving and, when enough ops are open, loading and merging; `Load` a refresh or a
restart. `ideal` is what every op made once, in the order of their names, makes.
`OpsConverge` says that each op is idempotent on the machine that makes it, and
that a machine which has every op holds that document. One case is idempotent only up to the
order of the tags: an op that takes off and puts on the same tag, which the assistant may
ask for (`mcp/tools.go:279-287`), moves it to the end once more.

*Left out.* Notes and the received date; failing calls and the steps in between
(`OpLog`); the ops on numbers (`UIDs`); `LoadAgrees` leaves out what was dropped,
copied, deleted or renamed, and colours: see section 6.

### Sending

*State.* One mail lies in `drafts/`. Every press on "send" is an attempt with a
Message-ID, a marker and a copy of its own: `marker[a]` is none, open (no SES
id) or out; `sent` the copies in `sent/`; `draft` whether the draft is there;
`out` what SES has accepted. `pc`, `at`, `noted` are the handler (its server,
and whether it knows of a marker); `asked` is `openSends`; `rec`, `keys`, `todo`,
`ask` are `RecoverSends`; `fin`, `which` are `finishSent`, for a start or for an
answer. `met` records which kinds of fault happened.

*Actions.* `Click`, `BeginSend`, `Send`, `Refused`, `MarkLook`, `MarkSent`,
`Copy`, `Drop`, `Clear`, `Answered` are the handler in its order;
`RecoverList`, `RecoverRead`, `RecoverFinish`, `RecoverDone` the recovery;
`FinishCopy`, `FinishDrop`, `FinishClear` finishSent; `Answer` is
`/api/sending/resolve`. Every call to the bucket may report an error whose
effect took place or did not (`Call`). `Start`, `Activate` (the wizard re-arms
the running server), `Quit` and `Crash` are the process.

*The person.* Presses again only while the draft is there, nothing says "sent"
and no question is open in the window in front of them, and answers truthfully.
What a person does beyond that is a fault with a name: `hasty` ("it did not go
out" while the handler still works) and `elsewhere` (pressing on a machine that
has not looked since a send died on another one).

*Left out.* The content of the mail; several mailboxes (each has its own
markers); a send without a draft, which is this one with the `Drop` step empty.

### UIDs

*State.* `folder` is the folder in the bucket, by arrival; `log` and `snap` the
bucket's state; per machine the local file, the document, the pending ops, the
index, and a Mutate or Load under way. A numbering is Validity, Next and a
number per message, 0 for none. An op is what it does to every message:
`nums[x]` is the number it gives, or nonzero for what it retires.

*Actions.* `EnsureUIDs` and `Leave` (Move or Delete) build and apply an op,
`Saved` or `SaveFails` write it; `LoadBase`, `ApplyNext` per op and `Installed`
are Load with the merge; `Restart` is a crash and a start. Writing an op, and
reading bucket and local file, are one step each and Loads are one at a time:
the interleavings between those steps are the subject of `OpLog`, and what goes
wrong there is shown there.

*Left out.* The uint32 width of `Next`; several folders (each is numbered on
its own; `drop` concerns all of them at once, which changes nothing for one).

### Mailbox

*State.* `bucket` maps keys to what lies there; a key is a folder and a base
name, a base name is the message it was given to and the numbers `freeKey` put
behind it. `doc` is the shared document, per base name whether anything is known
of it (`marks`: read, starred, tags, notes) and whether the rules had it
(`ruled`). Per machine `index` and its cache file `disk`, the document `view` as
loaded and changed, and `pend`, the ops a batch has not written. A handler is a
worker on a machine; which worker is where is chosen at the start, so that one
run has both, two goroutines of a machine and two machines.

*Actions.* `Refresh` (with State.Load), `List`, `Compare`, `Fetch` per object,
`Install`; then for the page `Plan`, `Rule`, `RulesDone` - the queue watcher
stops after `Install`. `Move` is `Pick`, `Copy`, `Delete`, `Reindex` per message
and `MoveDone`; `Purge` (Delete and EmptyTrash) is `PurgeOne`, `Forget` per
message and `PurgeDone`. `Save` is the end of a batch: the last one open on the
machine writes. `SaveDraft` is `Put`, `Flag`, `Note`; `DropDraft` is
`DropObject`, `Dropped`, `Strike`. `Deliver` is mail that arrives, `Crash` a
machine that starts again from its cache file.

*Left out.* Other folders than the four (spam and sent are to the rules what
trash is); several rules, tags and flags set by a rule (one rule files); the
retiring of numbers (`UIDs`); writes of the state that fail (`OpLog`);
encryption and storage class of a copy; the body cache.

### Bodies

*State.* `where` is the bucket: a message and its folder. `files` is the cache
directory by name, a whole file or a temporary one, with the key it is sealed
with. Per program its `key`, its `index` (the ETag the cache is asked for) and
whether it has met an encrypted message; `lock` is the mutex of its `bodyCache`.
Per goroutine `pc` and `mem`, what it holds.

*Actions.* `Open` is Fetch up to the cache, `Get`, `Again` and `Decrypt` the rest;
`Create`, `Write`, `Rename`, `Cleanup` are `put`. `Summarize` is a header read for
the index, `Prune` a refresh, `Move` a move, `Restart` a program that ends at any
point and starts with another key or index. Two programs share the directory and
no lock: a temporary file may be replaced, renamed or evicted under whoever writes
to it.

*Left out.* Two messages with one ETag (their content is the same); files whose
times differ by more than the second that LRU sees - any file may be the oldest;
renaming on Windows, which fails while a file is open; what the other program does while
a cleanup lists and removes: that is one step, though one that may fail for any of its files.

### Compose

*State.* `drafts` and `sent`; of the page the clicked message (`current`), the
shown one (`view`), the dialog (`dlg`) and the unanswered requests (`calls`).
Recipients, subject and text are one version number, the blind copy and the
attachments apart. `owed` are the versions somebody wrote and did not write over;
`astray` are the messages that were left while they were coming, shown or being answered,
each with what was current instead.

*Actions.* `Click`, `Leave` (another folder, a conversation, a message moved or deleted:
nothing is current any more, and the view may stand), `Compose` (new, reply, forward),
`Edit` (editDraft), `Write`, `Attach`, `Save`, `Close`, `Send` are the writer; `StoreDraft`
and `Deliver` the routes, with `Build` for what they put into the message; `Shown`,
`Fetched` (one attachment), `Saved`, `Out` the answers, in any order. `Patient` says
whether the writer waits for an answer before going on; `core` checks the dialog for one
who does, and finding 2 is about one who does not.

*Left out.* The MIME text; the list of the page; which account sends. An attachment is
taken out only together with a change of the text, since the page tells attachments apart
by their number alone (`inbox.html:1059`, `:1134`).

### Desk

*State.* `index`, by key, with sender, name, recipients, words, date and folder of
each message; `doc`; `now`. Texts are atoms, and `Within` says which atom contains
which other as a part of it, because rules and searches look for parts.

*Definitions.* `CleanRules`, `Deciding`, `PlanRules`, `Treat`, `RuledDoc`, `RuledIndex`
(ApplyRules); `Suggest` with `Evidence`, `Covered`, `Strongest`; `Merge` (`Admit`, rule
by rule), `Export`, `RuleKey`; `CleanFilters` (`Accept`, search by search); `Unanswered`,
`Conversation`; `Contacts` (`NoteMessage`), their order `Ahead`, `Addresses` with the limit
and `Limit`, which the route puts on what it is asked for; `Folders`, `Search`, `Matches`,
`Called`. `InOrder` is a sort: the list of a set in which each element stands before those
it comes before. *Actions.* `Arrive`, `Move`, `Read`, `Dialog` (what
the rules dialog makes of the list it is given: `Row`), `ApplyRules`, `Import`,
`SaveFilter`, `DropFilter`.

*Left out.* How a query is split into terms and filters; dates as text, and two messages
of one date; the order of suggestions. `Files` holds imports whose folders can
exist: with any other, applying the rules ends with an error (section 6).

### Watch

*State.* A mailbox is the number of messages that have arrived. `queue` and `taken`
are SQS: a notification visible, or received and not deleted. Per arming of the
mailbox a watcher (`doing`, `wait`, `lst`) and an `index`; the `channel` of the page and
whether it is `open`; of the page its tab, its refresh, the lists on their way to it
and the list it shows. `timer` is whether `refresh_seconds` is set.

*Actions.* `Receive`, `Delete`, `Sleep`, `List`, `Write`, `Tell` are watchQueue with
Wait and Refresh; `Hear`, `Breaks`, `Reconnects` the stream; `Begin`, `PageWrites`,
`Press`, `Render`, `Turn`, `Return` the page; `Arrive`, `Reappear`, `Elsewhere`,
`TellOther` the world; `Rearm` the wizard, which leaves the old watcher running;
`Stop` the end. `forgiven` is the newest message the code may leave unannounced: a
notification taken elsewhere, a refresh that failed after the deletion, an event that
no open channel took or that came while the button's refresh ran, a list that was
overtaken.

*Left out.* What a refresh reads (`Mailbox`); the watchers of other mailboxes, which
only tell the same pages; the clock: back-off and timer are counts and chances.

### Program

*State.* `owner` holds the port, `addr` is whom the address file names; per start
where `main` is and the mailboxes it serves (`accounts`, `byID`); `disk`, the entries of
config.json and of the credentials; per wizard page how far its save is.

*Actions.* `Begin` (configuration and activation), `Listen`, `Probe`
(runningInstance), `Serve`, `Quit`, `End`, `Crash`; `Open`, `Submit`, `Truncate`, `Write`,
`Activate`, `Answer`, `Close` of a page. `Place` is where the edited mailbox goes. A file is
empty between `Truncate` and `Write`, and `accounts` is ahead of `byID` between `Activate` and
`Answer`.

*Left out.* What a form holds beside the mailbox; discovery and the connection test;
the browser window.

### Assistant

*State.* `box`, the bucket; `knows`, the index the server read at its start; `marks`;
`rules`, the bucket's lifecycle; `readOnly`. *Actions.* `MoveTool`, `TagTool`, `FlagTool`,
`DraftTool`, `Start`; `MoveByHand`, `DeleteByHand` the person in the window beside it;
`SetLifecycle` and `Expire`. `MoveTargetOK` is the line the server draws: what `ValidFolder`
makes of the name is neither trash nor spam.

*Left out.* The protocol around a call; tools that only look.

### Core

`Desk`, `Document`, `Bodies`, `Compose` and `Assistant` share no state that one of them
changes behind another's back, so one module takes them side by side, with the constants
of all: `part` says which one a behaviour is of, and one run checks them. Nothing is
claimed of their combination. `CoreAssumption` has what the theorems assume of the
constants; `MCCore` gives the small instance.

### Pairing

*State.* `user`, `policy`, `keys`, `used`: what IAM has; a key is its number in
order of creation. `hold`: the key each phone took from a code. Per dialog `pc`,
the `key` it handed out, its lists (`mem`) and what its page was told (`answer`).

*Actions.* `Open` begins `/api/setup/device`; `CreateUser`, `PutUserPolicy`,
`MakeRoom`, `LookAtKey` per key, `Evict`, `CreateAccessKey`, `Shown` are
`Devices.Create`. `Scan` and `Use` are the phone. `Done` begins DeviceAbandon;
`AskUsed`, `AskOthers` its questions, `DecidePairing` the decision, and then
`ListRetiring`, `Retire` or `DropNew` or `ListRemoving`, `RemoveKeys`,
`RemovePolicy`, `RemoveUser`. `Lost` and `Left` are a program or page that goes
away, in a call or with the code on the screen. Every changing call may report
an error with or without its effect.

*External.* IAM: two keys per user at most, no deletion of a user that has a key
or policy, a use on record at once. Errors before the first and after the last
AWS call (session, discovery, sealing) leave what "lost" leaves.

## 3. Runs

| run | instance | checks | result |
|---|---|---|---|
| `oplog_machines` | 2 machines with a goroutine each, 2 changes to one message, 3 op names, merge after every op, any 1 of 6 kinds of fault | `TypeOK` `AckedDurable` `ImplementsLedger` `SnapshotGrows` | holds, 573 thousand states |
| `oplog_goroutines` | 1 machine, 2 goroutines, 2 changes, 3 op names, merge after 2 ops, any 2 failing puts, gets, lists and deletes | `NothingLost` `DeletedIsMerged` | holds, 2.25 million states |
| `sending` | 2 servers, 2 presses, any 2 of 12 kinds of fault | `TypeOK` `NoDoubleSend` `OnlyAfterSending` `MarkerOutlivesWork` | holds, 775 thousand states |
| `sending_live` | 1 server, 2 presses, any 3 faults, fairness | `SentIsFiled` `Settles` | holds, 47 thousand states |
| `uids` | 2 machines, 2 messages, 4 ops, failed puts or crashes, merge after 2 | `TypeOK` `OneMessagePerNumber` `NumberNeverReused` `Converged` | holds, 3.56 million states |
| `mailbox` | 2 handlers on 1 or 2 machines, 2 messages and a draft in 2 versions, 4 folders, any 3 operations or deliveries, any 2 of 6 kinds of fault | `TypeOK` `MessageKept` `MarksKept` `FiledOnce` `IndexTrue` | holds, 2.57 million states |
| `pairing` | 3 dialogs, 2 at a time, 2 phones, any 2 of 6 kinds of fault | `TypeOK` `DeviceStaysIn` `AbandonedOpensNothing` `OneKeyAtRest` | holds, 6.04 million states |
| `watch` | 2 messages, 2 armings, a channel of 2 events, any 2 of 9 kinds of fault, with and without the timer, fairness | `NewsTypeOK` `NothingUntold` `NewsIsShown` | holds, 320 thousand states |
| `core` | `Desk`: 3 messages, 3 addresses, 2 searches, 5 steps; `Document`: 2 machines, 2 messages, 2 tags, 12 ops, 3 in a row; `Bodies`: 2 programs, 3 goroutines, 2 messages, 3 fetches or moves, a fault; `Compose`: 2 messages, a draft with an attachment, 2 changes, 5 requests, a fault; `Assistant`: 2 messages, a draft, 3 requests or moves | `CoreTypeOK` `DecisionsStand` `PagesOfDesk` `OpsConverge` `OpenShowsTheMessage` `CacheBounded` `WrittenIsKept` `SentAsWritten` `NothingLostToAssistant` | holds, 682 thousand states |
| `program` | 2 starts, 2 wizard pages, 2 mailboxes and profiles, 2 saves, 1 of 3 kinds of fault | `TypeOK` `OthersKept` `SetUpIsServed` | holds, 2.97 million states |
| `pairing_unrouted` | 1 dialog, 1 phone, no fault, through the routes of the server | `ClosedIsSettled` | violated, finding 1 |
| `compose_hasty` | the dialog of `core` with a writer who does not wait | `WrittenIsKept` | violated, finding 2 |

*Bounds.* `MaxName = 3` with a merge after every op lets a snapshot be written
over another one with ops above the watermark, with several ops at once after a
failed snapshot, and a retried op beside its first copy; `CompactAfter` is 50 in
the code and only its being reached or not matters. Two machines are the least
that can disagree, two changes to one message the least at which `MergeMissing`
drops something. `MaxAttempt = 2` is the second press a double send needs, and
two faults are a crash together with anything else; three are used where one
server keeps the space small. `MaxOps = 4` in `UIDs` is enough to number, retire,
merge and number again on two machines. In `Mailbox` three operations are a move
there, a move back and a refresh with rules, or two crossing moves after a first
one that made an index stale; `GiveUpAfter` is 10 in the code and 2 here, so that
giving up and going on both happen. The message that is
there at the start is new to the rules, or they have filed it and the reader has moved
it back, so that the second filing takes one operation. In `Pairing` three dialogs are what it takes
to meet IAM's limit with keys that earlier dialogs left behind.

In `Watch` two events fill the channel where eight do in the code, and two messages are
one that is announced and one that comes while that happens; a second arming is the
watcher that runs beside the first. In `Document` three ops with a merge from the second
on put ops on both sides of a snapshot and a local file on either, one of which concerns
both messages. In `Desk` two messages of a sender are the evidence where the code asks
for four, two thirds is nearly all where it says four of five, one search fills the list
where thirty do: the thresholds are constants, and messages on both sides of each occur.
What arrives is a shop's offer, from an address that ends in another, and what one has
sent to both addresses. One contact is offered where the code offers ten, and two at most
where the route allows twenty-five, of three there can be: so the limit cuts lists that
are equal in number, or in number and date. In `Bodies` the cache holds one plain message and the encrypted
one alone exceeds it; two goroutines of one program and one of another are the least for
both kinds of interleaving. In `Compose` five requests are opening, continuing, saving,
opening again and sending, or a click, a folder and a reply to what is still shown. In `Program` two pages cross each other's saves, and a second
start crosses the end of the first.

*Excuses in `OpLog`.* The program does lose writes where calls overlap or fail: two
goroutines that load at once (section 6), two machines that merge at the same time (the
slower one puts an older snapshot over a newer one whose ops are gone, at
`store/state.go:335`), a read that fails before a merge (section 6), an op named before
a watermark is written and stored after it (`store/state.go:292`), and a Mutate that
falls into another goroutine's batch, or finds its ops taken by another's Save, and
reports success before anything is written (`store/state.go:278`, `:287`). All of these happen
in the runs. The properties say that nothing else loses a change, and excuse exactly the
change that was lost: it is in `struck` only if a goroutine that was behind took it or a
late write left it there, and in `entrusted` only until the other write has landed. A
goroutine becomes behind by an event of its own or of another's, named in `LoadBase`,
`LoadList`, `LoadFetch`, `Arrives`, `Overwrites` and `Install`; a load that begins
is not. Without `struck`, `AckedDurable` fails in `oplog_machines`; without
`entrusted`, with two goroutines of one machine.

*Excuses in `NoDoubleSend`.* `NoNet` names what the protocol cannot make good:
the marker was never written, SES took the mail and reported an error, the
draft's removal or the copy in a recovery failed, the markers could not be
listed at the start, and the two kinds of haste above. Each was checked to be
needed: with a crash and that fault alone a mail goes out twice. The other five
faults (a crash, a failing MarkSent, a failing copy in the handler, a failing
removal of the marker, a re-arm) do not break it.

*Excuses in `Mailbox` and `Pairing`.* `MessageKept` excuses a move that copies to
the key another is about to delete (section 6). `MarksKept` excuses a base
name that a deletion for good has struck (a page older than the index strikes the
state of a message that is back in its folder: `Move` keeps the base name), and a
copy that a move which failed halfway left under a new name: `rekey` comes after
the delete (`store/mail.go:350-376`); and a name that was given from one its machine
alone knew of yet (`Untold`, section 6). `FiledOnce` needs operations one after the
other: two machines that refresh at once both file a message; and moves that are not
cut off, which leave two copies to file (section 6). `IndexTrue` allows
the placeholder of a message that could not be read, which has the listed ETag
and therefore stays (`store/mail.go:251`). In `Pairing` `crossed` is a dialog or a
first use that begins while another dialog's call is under way: between the
question and the call that acts on it a used key can still be dropped. `doubted`
is the question Create could not ask (section 6). `AbandonedOpensNothing` has no
excuse.

*`Direct` in `Pairing`.* `pairing` calls DeviceAbandon as its tests do; through the
routes of the server the call does not arrive, which is finding 1. So what `pairing`
shows and `PairingProofs` proves about DeviceAbandon is about the handler.

*Excuses in `Watch`, `Bodies`, `Compose` and `Program`.* `NothingUntold` is about an
open stream and leaves out what is `forgiven` (section 2); `NewsIsShown` needs no such
excuse where there is a timer. `CacheBounded` allows a message per program that is
writing one, and one for every write broken off and every cleaning that failed since the
last cleaning: those files lie there until somebody cleans up. `WrittenIsKept` excuses a version for which a call
failed: the page says so and the dialog stays, but a draft's attachment that does not
arrive is passed over in silence. `SentAsWritten` excuses a reply or a forward whose message
is in `astray`: left for the one that is named in its place, or for none, or, of a forward,
not to be had a second time. It is needed with a writer who waits, too: without it `core`
finds, with no call failing, the reply to a message that stayed on the screen of a folder
already left. `OthersKept` excuses two saves at once, an entry that
is edited into another, and a file that was being written when the program died;
`SetUpIsServed` excuses two saves at once and an address file that another start removed
or that could not be written.

*Symmetry* is used where no liveness is checked: machines, handlers, phones, pages,
starts, keys, messages and changes to one message are interchangeable where a run
says so.

*Deadlock* is checked in `OpLog`, `Sending` and `UIDs`, where the system never stops.
The other modules bound the operations, dialogs and messages that begin, and may stop
when all are through; `Watch` ends with the program.

*Mutants.* Above most definitions that a property depends on stands a changed
form, marked "Mutant", which a plausible mistake in that code would amount to;
`PROJECT.json` says which property each one breaks.

## 4. Fairness

`LiveSpec` of `Sending`: weak fairness of a handler that runs, of a
recovery and of finishSent: they are straight-line code whose calls return, with
an error if need be. Weak fairness of `Start`: whoever closes s3mail opens it
again. Strong fairness of `Quit` and of an answer: a person closes the program
some day even if it is busy in between, and answers a question that is on the
screen again and again.

`NewsLiveSpec` of `Watch`: weak fairness of every watcher, which is a goroutine in a
loop whose waits have an end; of `Reappear` (SQS shows a notification again when its
visibility timeout is over); of the stream (`Hear`, and `Reconnects`, which EventSource
does by itself), of answers and of the page's timer (`Begin`, `PageWrites`, `Render`),
which browser and server run without anybody's doing; and of `Return`: somebody looks
at the window again. Nothing is assumed of mail, of the button, of a re-arm or of the
end of the program.

Faults have no fairness and are bounded by `MaxFault`, in `Watch` by `MaxTrouble`:
forever failing calls would excuse everything.

## 5. Proofs

Every theorem is about all values of the constants that satisfy the module's
`ASSUME`: positive or natural bounds, finitely many workers, messages, phones or IDs
where something is counted, names that do not collide. TLC evaluates each of these in
every run of that module. Some theorems about `Core` assume more; it is said there. The
`...Inv` modules hold the inductive invariants, which TLC checked on the instances of
the runs before they were proved.

### OpLog

For any machines, goroutines, changes, names and faults, in every interleaving, without
an assumption beyond that of the module:

* `TypeCorrect`: `Spec => []TypeOK`.
* `CleanupDeletesMerged` and `SnapshotsGrow`: the action properties `DeletedIsMerged` and
  `SnapshotGrows`.
* `RunningLosesNothing`: `NothingLost`.
* `AckedStaysDurable`: `AckedDurable`.
* `MachinesAreOneLedger`: the refinement `ImplementsLedger`.

None of them is inductive. `MergeInv` has three parts. `Rested`: a machine that is down
has no goroutine in the middle of anything. `Named`: whatever lies in the bucket or is
listed bears a name that was handed out, and the name a goroutine is about to write under is nobody
else's, free, and in no list. `Knowing` is the heart: a goroutine that is not behind has
all that it is about to replace or delete. In "list" its base holds the snapshot; from
"fetch" on its names are all there are above the watermark up to the last of them
(`Closed`); from "install" on the base, then the document, then the copy holds snapshot
and those ops (`Holds`); in "gc" the snapshot does, and the names are below its
watermark. Why that stands while others step is `KnowsOthers`: only a write that lands,
a snapshot that lands, a delete and a document that is installed can disturb it
(`BucketChanges`), and each either leaves it true or makes the goroutine behind.

From it follow `Lands`, `Snaps` and `Deletes`, and together `SafeGrows`: what is in the
view or struck remains so, and only a goroutine that is behind or late strikes anything.
`Kept` adds where a running machine has a change, and gives `NothingLost`. `Asked` adds where a
change is that somebody waits for - pending, in flight, or acknowledged - and gives `AckedDurable`.
The refinement maps every action to one of the ledger's; it needs that a change has one
caller only (`Owned`), and that what a load has read or will read holds what had been
reported when it began (`Told`).

### Pairing

* `TypeCorrect`: `Spec => []TypeOK`.
* `AbandonedIsWorthless`: `AbandonedOpensNothing`, with no excuse: dialogs may
  cross and any call may fail.
* `PairedLeavesOneKey`: the action property `OneKeyAtRest`.
* `PhoneStaysIn`: `DeviceStaysIn`.

`Inv` strengthens `AbandonedOpensNothing` by what a dialog has dropped on its way
to its answer (`Settled`: past "keys" its own key is gone, at "keys" it is gone
or still listed), and by `Minted` and `Counted`: the numbers above `minted` are
free, so a key that was dropped never comes back, and a dialog mints one key at
most. Only `CreateAccessKey` mints; every other step of a dialog is `Quiet`.
`OneKeyAtRest` needs `Rest` besides: as long as nobody crosses a call, a dialog at
work is alone, and from the second listing on every key but its own is listed or
gone. `DeviceStaysIn` needs `Sure`: as long as nobody crossed a call and no question
failed, a used key is there if one ever was (`StillIn`), and what a dialog has listed
and found unused is still so when it acts on it (`KnowsKeys`).

### Sending

In `PostProofs`, for any servers, presses and faults: `TypeCorrect`; `NothingFiledUnsent`
(`OnlyAfterSending`); `MarkersOutliveWork` (the action property `MarkerOutlivesWork`);
`NobodyGetsItTwice` (`NoDoubleSend`, with the excuses the property has).

The first three rest on `FilingInv`: whoever works as if SES had the mail is right
(`Accepted`), and whoever is about to remove a marker has filed its mail or never will
(`Finished`). `NoDoubleSend` needs the net itself, `Netted`: while the draft is there,
a mail that is or may be out has its marker, and every server that would let somebody
press "send" knows of it, because it asks, is going to ask, or is finishing it
(`Knows`). From that follows that one press works at a time, and none while a mail is
out (`OneAtATime`). The fault kinds of `NoNet` are exactly where `Netted` breaks.

### UIDs

`TypeCorrect` and `NumbersAreUnique` (`OneMessagePerNumber`), for any machines, messages
and ops. `SoundInv` carries soundness through everything a document can be made of:
snapshot, local files, documents, the base of a load, and every op in the log, pending
or being replayed. An op never numbers two messages alike because the listing it was
made from has no two messages of one age (`ListingsGood`); applying and merging keep a
document sound because a number that is taken is left alone.

`NumbersAreForGood` (`NumberNeverReused`) and `MachinesConverge` (`Converged`) rest on
`HistoryInv`: until somebody numbers without knowing all numbers, a write fails or a local
file revives a number - what both properties excuse -, the log tells one history.

* `IsHistory`: after each op the folder has one state, and an op numbers only messages
  without a number, at or above the Next of the state before it, so that it never loses a
  conflict (`ApplyFollows`) and Next never falls.
* `OneOwner`: one map from numbers to messages is right for every document, local file and
  op, and for all that was shown, which lies below the Next of the last state. A new op
  extends it above that (`OwnerExtends`).
* `WritesApart`: a machine has one op on the way, and one that numbers is alone with ops
  that only take numbers away, so it still fits the last state when it is written.
* `LoadsCatchUp`: a load is ahead of the state it has reached, for the local file added
  something, but by no more than what the ops to come do as well (`Ahead`). The base it
  starts from is ahead in that way (`MergeAhead`), each op keeps it so (`AheadStep`), and
  when no op is left it is the last state read (`AheadEnds`). A merge writes that state and
  drops the ops before it, which leaves the rest of the history (`HistoryShrinks`).
* `FreshKnowsAll`: a machine that has loaded since the last write of another shows the last
  state.

The excuses are needed: with any one of them dropped TLC finds two machines that have
loaded everything and differ; how a local file revives a number is in section 6.

### Mailbox

For any machines, handlers, messages, versions of a draft and faults: `TypeCorrect`;
`NothingIsLost` (`MessageKept`); `IndexIsTrue` (the action property `IndexTrue`);
`FiledAtMostOnce` (`FiledOnce`); `MarksAreKept` (`MarksKept`).

* `Shape` types the bucket, indices, documents and what every worker holds. It says more
  than `TypeOK`: a base name tells what it was given to (`ContentOf`), so a move copies a
  message to a name of that message, and the entries of a finite map are finite, so
  `freeKey` finds a free number (`FreeKeyIsFree`: more numbers than keys). A document is a
  fold of ops over another; `FoldIsOver`, `FoldSteps` and `FoldAppend` give the fold of the
  community modules as one op after the other.
* `Kept` is the strengthening of `MessageKept`: every message lies somewhere where no move
  is about to delete it. A copy is such a place before the delete begins, and another
  move's delete there is what `crossed` records.
* `Telling` is that of `IndexTrue`: an entry tells what its name tells, in an index, in a
  cache file and in a worker's hands; and how far an undisturbed Refresh has come
  (`OnTheWay`): what it listed is the bucket, and every key of the bucket is known, has
  been fetched or is still to be.
* `InTurn` is that of `FiledOnce`, for as long as all is `Orderly`: one worker is busy. A
  message is there once, but between the copy and the delete of its move (`OneCopy`). One
  that was filed is marked under the name it has, or had before the move it is in
  (`FiledIsRuled`) - in the state as it will be written, `Current`, the document with the
  ops that wait, which is what a Refresh loads (`UpToDate`). What the rules are about to
  file are messages not filed before, each once, and marked before the move begins
  (`FilesOnce`). `BatchOpen` says that ops wait only where a batch is open, so that any
  machine that begins sees all; `DraftsOnly` that dropping a draft strikes no message.
* `Marking` is that of `MarksKept`, and asks for no order: every copy of a marked message
  has marks under its name, or a move that has named it holds on to it (`Awaited`), or an op
  that waits on some machine is going to hand them on (`Told`), or it is known why not
  (`Excused`). What waits is sound by itself (`OpsKeep`): an op takes marks from a name that
  has them by then, in the document or by an op before it, whichever machine writes next
  (`KeepOn`); so a fold of such ops keeps the marks there are and brings those promised
  (`FoldMarks`), and brings no others (`FoldFrom`). `freeKey` names on at the end
  (`NamedOn`), which is why the excuse for a name covers those made from it.

### Watch

In `PostProofs`: `NewsTypeCorrect` and `NewsIsOnItsWay` (`NothingUntold`), for any
amount of mail, armings, length of the channel and faults. `OnItsWay` is stronger than
the property: it holds whether or not a stream is open, since one that opens again must
not have missed anything.

### Program

`TypeCorrect`, `OthersAreKept` (`OthersKept`) and `WhatIsSetUpIsServed`
(`SetUpIsServed`), for any starts, wizard pages, saves and faults, with finitely many IDs
and at least as many places as a list may need.

`Alone` says that without overlap one save is under way and the file is empty while it
writes. `Booked` ties what is in a file to what should be (`book`), also for the list a
save is about to write, which holds the updated book (`Holds`). `Current` says that a
start that is not behind a save has armed what is in the file, but for the time its own
save takes from the file to the mailboxes and to their index; a start that read a file
half written is behind. That an armed mailbox is found under its name is by the `Place`
lemmas about folds over finite sets.

### Core

`CoreAssumption` asks little of the constants: folders that can be named, finitely many
programs, messages and files, keys of drafts that are not keys of messages, and a program
that seals what it puts into the cache (`NoKey \notin CacheKeys`; section 6 has the case
of one that does not).

*The assistant.* `AssistantLosesNothing` (`NothingLostToAssistant`), with the types of
`Assistant`: its invariant is inductive as it stands, given that a folder is neither trash
nor spam once `MoveTargetOK` let it pass.

*Bodies.* `OpenedIsShown` (`OpenShowsTheMessage`): a file is of the message its name says,
however often it was replaced under whoever wrote it (`FilesTrue`), and a goroutine holds
the message it was asked for, in the form its step needs (`InHand`, by `Fits`).
`CacheStaysSmall` (`CacheBounded`): between its rename and its cleanup a write has taken
its room, before it has not, so `BoundedByPast` counts the programs that are past the
rename, and a write that is broken off there is one of `loose`; a cleanup brings the whole
directory back under the limit, and one that fails counts among those broken off. What the
files take is a sum over a finite set: `SumExists`
and `SumWithout` are about the recursive function that the community module's sum is.

*Compose.* `WhatIsWrittenIsSent` (`SentAsWritten`), like `DialogsAreWellFormed`, is about
any writer. `Straight` follows a message on its way from the click to what is sent: what is
coming, shown, answered in the dialog or named in a request is the message that is current,
or was named there when it was asked, or was left. Only `Choose`, `Leave` and a forward
that could not be fetched take the two apart, and each says so in `astray`, from which
nothing is taken (`AstrayGrows`).

`NothingWrittenIsLost` (`WrittenIsKept`) is about a `Patient` writer: one who does not wait
can lose a version (finding 2). `WrittenIsKept` is not inductive,
because a draft that is stored takes the place of the one before. `Accounted` says where each version
is safe although the draft the dialog goes on with will be replaced: elsewhere (`SafeBut`
that draft), or in the dialog, or in the request that replaces it; and safe altogether
while the attachments of a draft are fetched and once an answer is on its way, which is when the
dialog may come to hold less, or to have another draft. What may be closed without saving is safe
altogether, too; that nothing else looks like it is because a text is never given twice and an
attachment of an unchanged text is only added. It rests on `InTurn` (one request at a time, with
what the dialog holds), `KeysFresh` (no two drafts get one key) and `TextsKnown`.

What is proved of the next two parts is proved of their own specifications, in
`DeskProofs`, without the other parts: `DocumentsConverge` of `DocSpec`; `TypeCorrect`,
`DecisionsHold` and `PagesAgreeAlways` of the `Spec` of `Desk`. A behaviour of `Core` is one
of each of its parts (`DocsPart`, `DeskPart`), so `CoreProofs` only names them.

*Document.* `MachinesConverge` (`OpsConverge`), for any finite set of tags and any set of
ops of the code (`DocConstants`), in two parts.

* An op is idempotent on any document, not only on one of its own making (`OpsTwice`): a
  flag, a mark, a rule list are set and not changed; a tag is listed once and enlisted once, and
  keeps the color it has; what is dropped or deleted is gone. The folds over tags are taken
  apart step by step (`StripSteps`, `EnlistSteps`, `NamedSteps`, `ReplaySteps`).
* `DocsInv` says that whatever file a machine could start a load from, none, the one on
  its disk or the document it shows, the log makes of it and the snapshot what the ops made
  once make, in `Agree`'s sense. To carry that over a step it says how a document replayed
  from another differs from it (`Makes`): an op does the same to both wherever neither
  has lost, copied or renamed what it touches; a file knows no message that neither the snapshot nor
  the log knows, which is why `MergeMissing` can bring nothing back that was not there; and
  every tag on a message is listed. A merge makes the loaded document the snapshot and leaves an
  empty log, which is what `MergeMissing` over it starts from.

*Desk.* `WhatIsDecidedStands` (`DecisionsStand`) and `PagesShowOneIndex` (`PagesOfDesk`),
for any finite set of keys, any folders, addresses, texts and thresholds, and whatever lists
of rules, files and searches may be saved. `DeskAssumption` asks that these have the fields
they have in the code, that imported folders can exist, and that a name which is cut stays
as it is when cut again. `DeskInv` types index and document: no two messages have one date, every
tag on a message is listed, rules file into folders that can exist, and the searches are as
`CleanFilters` leaves them. It is inductive through every step of the page; the properties
are then about the definitions.

* What a fold makes of a list is again told step by step (`MergeSteps`, `FilterSteps`, `TreatSteps`,
  `NoteSteps`, `SumSteps`), and a sorted list has every element once (`OrderExists`,
  `OrderIs`), because the place of an element is the number of those before it.
* *Rules.* Treating a message gives it what its rule gives, and gives nothing to one that has
  it (`TreatIs`, `Settled`); so what has been treated is in no plan but a forced one, and
  that one finds all done (`RulesRest`).
* *Suggestions.* The rule of a suggestion covers its own address and comes last; hence it
  decides for whatever no earlier rule hits, and for the evidence it names the folder most
  of it is in (`SuggestionRests`, with `StrongestIs`).
* *Imports.* Merging keeps the rules there were in front (`Joined`), so the first that hits
  is still the first, and a rule whose key is there is not added again (`ImportsKeep`).
* *Searches.* Cleaning what is clean changes nothing, and a search more leaves those before
  it where they are (`SearchesStay`).
* *Sidebar.* Every message is in the folder of one row and of no other, so the counts add up
  (`CountsAddUp`); what a search for a folder or for a word of its own finds is the folder
  (`FindsFolder`, `OwnWord`), and a sorted list is as long as its set.
* *Waiting mail and contacts.* `LastInIs` and `ConversationIs` say what the two pages look
  at: neither finds an answer that the other does not. `KnownFrom` is what has been noted of an
  address after some messages (`KnownMore`, one more). Contacts are ordered, since no address
  is spelled like another (`AheadOrders`); so a list cut at the limit holds the first, and the
  same list after more has been typed holds what still fits of them.

*Together.* `EverythingIsWellFormed` (`CoreTypeOK`): each part's types, whichever part a
behaviour is of.

### Only model-checked

Every invariant and every action property of the runs is proved, and the refinement of
`Ledger`. What is left to TLC are the liveness properties `SentIsFiled` and `Settles` of
`Sending` and `NewsIsShown` of `Watch`: fairness and ENABLED are out of the prover's reach.
The two runs that end in a violation show their findings and nothing else.

## 6. Findings

1. `pairing_unrouted`: the server registers `POST /api/setup/{aktion}`, and the page
   asks for `/api/setup/device/abandon`, which has one segment more: DeviceAbandon is
   never reached, an unused code is never made worthless and an older key never
   retired (`web/send.go:151`, `wizard/wizard.go:318`, `web/assets/setup.html:380`,
   against `wizard/device.go:164-166`). `pages_test.go:270` checks that the page names
   the address, not that it answers.
2. `compose_hasty`: a draft saved before its attachments have come back is stored
   without them and its predecessor dropped; what is typed or attached while a save is
   under way counts as saved and goes with the dialog (`web/assets/inbox.html:1139`,
   `:1162-1183`, against `:1173` and `:1154-1156`).

*Seen with earlier runs of these modules.*

* Compact copies the document after Load has let go of it; a second Load of the same
  process can put an older one in its place, and an op that is in no snapshot is
  deleted (`store/state.go:330`, against `:321`). In `oplog_goroutines` this happens
  without a fault; `DeletedIsMerged` excuses it by `struck`, and fails without that.
* An op object that cannot be read during a Load that merges is passed over by the
  watermark and deleted (`store/state.go:181`, against `:321`): one failing get in
  `oplog_machines`; `AckedDurable` excuses it by `struck`.
* A machine's local file brings back a number whose retirement was merged away, and
  the number goes to a second message although the machines act in turn
  (`core/state.go:253`, against `core/uid.go:30-32`). `NumberNeverReused` excuses it.
* One machine moves a message back while another, whose index still shows it in the
  old place, moves it out; each deletes the copy the other made, and the message is
  gone although deleting is switched off (`store/mail.go:342-350`, against `:32`).
* When it cannot be told whether the newer of two keys was used, both count as used
  and the older one goes - the one the phone works with (`awsx/devices.go:168-187`,
  against the comment at `:166-167`).
* The snapshot is a shared key, and two merges at once let an older one win
  (`store/state.go:335`; README.md:252 says "There is no shared key both point at").
* The marker of a send is cleared although the copy or the draft's removal failed
  (`web/send.go:102-112`; README.md:162-163 says "only once the copy and the draft are
  done"), which `MarkerOutlivesWork` excuses by name.
* An op that is applied again over what it had already done is not always harmless:
  a tag renamed and then given out anew comes back twice on its message
  (`core/state.go:117`, against the comment at `:115-116`), and after a rekey the marks
  go to the wrong name. `OpsConverge` leaves out what was dropped, copied, deleted or
  renamed.

*Seen while proving*, beyond the bounds of the runs; the properties say so now.

* A move whose delete fails leaves two copies with one base name. Moved back one after the
  other before the rules run, the second gets a name of its own, and the rules file both
  (`store/mail.go:350`, `:391-404`): one machine, one worker, five operations and one failed
  delete. `FiledOnce` is about moves that come to their end.
* Three folders hold the same message under one name; two handlers of one machine move two
  of the copies to names of their own within one batch, and another machine, which sees the
  copies and not yet their state, moves one on and writes its `rekey` first: the marks are
  not there to be copied, and the newest name stays without them (`store/mail.go:372-376`,
  `core/state.go:164`). `MarksKept` excuses a name given before its machine had been
  told of the one it comes from.

*Seen while modelling.*

* State: a conflict leaves the losing number in the loser's local file until the next
  snapshot; a replayed op that conflicts raises Validity once more. Until there is a
  snapshot a tag has the colour its machine gave it. A deleted tag and emptied rules come
  back from another machine's local file.
* Watch: the event that comes while the refresh button's load runs is ignored
  (`inbox.html:1383`); a notification that cannot be deleted means a refresh thirty
  seconds late, not one too many (`awsx/queue.go:67-74`); a re-arm leaves the old watcher
  running over the old index, which no page reads; the back-off reaches 64 seconds; of two
  refreshes at once the one that listed first can take newer mail out of the index
  (`store/mail.go:199-205`); a stream that reconnects loads nothing. The page looks for
  `#compose` (`inbox.html:1382`), which no element is called, so an open dialog does not
  hold a refresh back (against `:1364-1366`).
* Compose: a reply names the message that is current and quotes the one that is shown
  (`inbox.html:874`, `:1119`). Whoever opens a message while another is coming, or opens a
  folder, where the message stays on the screen and nothing is current (`:571`), and then
  presses reply sends a mail that quotes one message and answers another, or none
  (against README.md:155-156, "Replies hang on the original thread"); a forward then goes out
  without the original. `SentAsWritten` excuses what was left. Besides: a reply saved as a
  draft forgets
  what it answers, a forward what it carries (against `mailer/send.go:7-10`); an empty
  subject comes back as "(no subject)"; a forward whose original cannot be fetched a second
  time goes out without it (`web/send.go:53-57`); the state that tells whether there is
  anything to save counts attachments only.
* Desk: the rules dialog forgets the star, the read mark, the name and the switch of a rule
  and the folder of one whose folder is empty (`inbox.html:1248-1343`); imported rules are
  not cleaned, and a rule that moves to the inbox and one that does not move are one rule to
  the import; a suggestion never has a tag, since the index is not decorated
  (`core/suggest.go:72`); contacts take the newest name in key order, not by date; a search
  whose name is cut to an existing one, or the thirty-first, is dropped without a word.
  `in:` compares small letters and takes four words for the inbox (`core/search.go:84-97`): two
  folders whose names differ in case only, or one's own folder "Inbox" and the inbox, are
  found together, and the sidebar counts them apart. An import may hold a rule whose folder
  cannot exist, since `Merge` does not clean (`core/portable.go:46-78`): applying it then ends
  with an error, at the first message it hits.
* Bodies: a program started with `--cache-plaintext` after one with the key ring shows
  sealed files as messages (`store/cachecrypt.go:47-50`); `Bodies` checks it out of the
  keys that two runs share. A first encrypted message is fetched twice; nothing calls
  ClearCache.
* Program: config.json and the credentials are emptied and rewritten in place
  (`config/config.go:250`, `:404`); two pages that save at once lose one save; `place` can
  leave two entries with one ID (against `wizard/wizard.go:292`); quitting does not wait for
  requests (`main.go:226-235`) and removes the address file of whoever wrote it
  (`web/token.go:53`).
* Assistant: any error reading the lifecycle counts as "no rules" and the rules of others
  are replaced (`awsx/bucket.go:59-67`, against `:16-17`); `move` counts what it skipped as
  moved; a read-only server still merges the op log and writes the index file.

## 7. Plan and limits

The plan is carried out but for liveness (section 5). What would be next are two
questions that no run asks: what a machine shows after a failed op has been written late
(below), and several folders in one numbering.

Where a module with proofs spells out a function (`Set`, `Over` of `Mailbox`, the list of a save
of `Program`, the files of `Bodies`, the messages of `Compose`) that an infix operator of the community modules would give, it is because the
provers see through the one and not through the other; the behaviour is the same.

*Not modelled.* Formats (MIME text, character sets, authentication results, QR codes,
translations, IAM policy text), the cipher, splitting a query, the push text: they compute
one value from another, have no state that outlives a call, and unit tests reach them.
The browser window, the key ring, the log, the demo and the developer tools are one call
into the system each. Data races on Go maps (`store/state.go:104` hands out the live
document, `web/server.go:87` swaps a map) are below the steps of the models. `Next` of a
numbering is a natural number where the code has a uint32.

*Known and left to a run.* An op that failed is written under a later name, after ops of
other machines that its machine applied after it (`store/state.go:300`): `OpLog` has the step,
`Document` no failing calls, so that two machines then differ until the next load is not
stated anywhere. What a merge that overlaps another costs is in section 3.
