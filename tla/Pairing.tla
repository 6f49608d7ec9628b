------------------------------- MODULE Pairing -------------------------------
(***************************************************************************)
(* Letting a phone in: the IAM user of one device name, its keys, and the  *)
(* dialogs that mint and settle them.  A dialog calls wizard.Device, which *)
(* runs awsx.Create; it shows the code until somebody presses "done", and  *)
(* then calls DeviceAbandon, which decides with core.DecidePairing.  Every *)
(* AWS call is a step of its own.                                          *)
(*                                                                         *)
(* IAM is external.  What the code relies on: a user holds two keys at     *)
(* most; a user that still has a key or a policy is not deleted; a key or  *)
(* user that is not there is an error; a use is on record at once.         *)
(***************************************************************************)
EXTENDS Integers, Sequences, FiniteSets, FiniteSetsExt

CONSTANTS Direct,     \* TRUE: DeviceAbandon is called as its tests call it;
                      \* FALSE: through the routes of the server
          MaxDialog,  \* bound: codes asked for, one dialog each
          MaxOpen,    \* bound: dialogs open at one time, in tabs or machines
          Phone,      \* the phones that may scan a code
          MaxFault,   \* bound: things that go wrong in one behaviour
          Faults      \* which things may go wrong, a subset of FaultKind

FaultKind ==
  {"call",   \* a call that changes something reports an error
   "list",   \* the keys cannot be listed
   "room",   \* Create is not told whether a key was used
   "ask",    \* DeviceAbandon is not told
   "lost",   \* the program dies, or its answer does not reach the page
   "left"}   \* the page is closed or reloaded with a code on it

ASSUME PairingAssumption ==
  /\ Direct \in BOOLEAN
  /\ MaxDialog \in Nat \ {0} /\ MaxOpen \in Nat /\ MaxFault \in Nat
  /\ IsFiniteSet(Phone) /\ Faults \subseteq FaultKind

Dialog == 1 .. MaxDialog
Key    == 1 .. MaxDialog + 1     \* in the order of their CreateDate
NoKey  == 0
Unanswered == "none"

VARIABLES
  user, policy, keys, used,  \* IAM: the user, its policy and keys, keys used
  minted,                    \* how many keys there have been
  hold,                      \* the key a phone has taken from a code
  pc, key,                   \* per dialog: its step and the key it handed out
  mem,                       \* its lists: keys seen, still to treat, unused
  answer,                    \* what the page was told in the end
  spent,                     \* history: how much went wrong
  doubted,                   \* history: Create was not told about a key
  crossed                    \* history: two actors in each other's way

iam     == <<user, policy, keys, minted>>
phones  == <<used, hold>>
dialogs == <<pc, key, mem, answer>>
history == <<spent, doubted, crossed>>
vars    == <<iam, phones, dialogs, history>>

CreateStep == {"user", "policy", "room", "look", "evict", "mint", "reply"}
SettleStep == {"asked", "used", "unused", "retiring", "retire", "drop",
               "removing", "keys", "nopolicy", "nouser"}
Answers    == {Unanswered, "paired", "removed", "kept", "nothing", "error",
               "silence"}

Blank == [seen |-> {}, todo |-> {}, idle |-> {}]

TypeOK ==
  /\ user \in BOOLEAN /\ policy \in BOOLEAN
  /\ keys \subseteq Key /\ used \subseteq Key /\ minted \in 0 .. MaxDialog + 1
  /\ hold \in [Phone -> Key \cup {NoKey}]
  /\ pc \in [Dialog -> {"idle", "shown", "over"} \cup CreateStep \cup SettleStep]
  /\ key \in [Dialog -> Key \cup {NoKey}]
  /\ mem \in [Dialog -> [seen : SUBSET Key, todo : SUBSET Key, idle : SUBSET Key]]
  /\ answer \in [Dialog -> Answers]
  /\ spent \in 0 .. MaxFault /\ doubted \in BOOLEAN /\ crossed \in BOOLEAN

\* No phone yet, or one that was paired before.
Init ==
  /\ minted \in {0, 1}
  /\ user = (minted = 1) /\ policy = user /\ keys = 1 .. minted /\ used = keys
  /\ \E p \in Phone : hold = [q \in Phone |-> IF q = p THEN minted ELSE NoKey]
  /\ pc = [d \in Dialog |-> "idle"] /\ key = [d \in Dialog |-> NoKey]
  /\ mem = [d \in Dialog |-> Blank]
  /\ answer = [d \in Dialog |-> Unanswered]
  /\ spent = 0 /\ doubted = FALSE /\ crossed = FALSE

-----------------------------------------------------------------------------
AtWork(d) == pc[d] \in CreateStep \cup SettleStep

Fault(kind) ==
  /\ kind \in Faults /\ spent < MaxFault
  /\ spent' = spent + 1
  /\ doubted' = (doubted \/ kind = "room")
  /\ UNCHANGED crossed
Fine == UNCHANGED history

\* One more begins while others are at work: it crosses them.
Begins(d) ==
  /\ crossed' = (crossed \/ \E e \in Dialog \ {d} : AtWork(e))
  /\ UNCHANGED <<spent, doubted>>

\* The dialog goes on with what it knows now, or ends and forgets it.
Goto(d, step, known) ==
  /\ pc' = [pc EXCEPT ![d] = step]
  /\ mem' = [mem EXCEPT ![d] = known]
  /\ UNCHANGED answer
Ends(d, what) ==
  /\ pc' = [pc EXCEPT ![d] = "over"]
  /\ mem' = [mem EXCEPT ![d] = Blank]
  /\ answer' = [answer EXCEPT ![d] = what]
Listed(set) == [Blank EXCEPT !.todo = set]
Without(known, k) == [known EXCEPT !.todo = @ \ {k}]

\* A changing call: it takes effect and the code goes on; or it reports an
\* error, with or without its effect, and the dialog ends with that error.
Call(d, Effect, Nothing, Then) ==
  \/ Effect /\ Then /\ Fine
  \/ (Effect \/ Nothing) /\ Ends(d, "error") /\ Fault("call")

DeleteKey(k) == keys' = keys \ {k} /\ UNCHANGED <<user, policy, minted>>

-----------------------------------------------------------------------------
(* wizard.Device and awsx.Create. *)
Open(d) ==
  /\ pc[d] = "idle" /\ \A e \in Dialog : pc[e] = "idle" => d <= e
  /\ Cardinality({e \in Dialog : pc[e] \notin {"idle", "over"}}) < MaxOpen
  /\ Goto(d, "user", Blank)
  /\ Begins(d)
  /\ UNCHANGED <<iam, phones, key>>

\* An existing user is not an error.
CreateUser(d) ==
  /\ pc[d] = "user"
  /\ Call(d, user' = TRUE, UNCHANGED user, Goto(d, "policy", Blank))
  /\ UNCHANGED <<policy, keys, minted, phones, key>>

PutUserPolicy(d) ==
  /\ pc[d] = "policy"
  /\ \/ user /\ Call(d, policy' = TRUE, UNCHANGED policy, Goto(d, "room", Blank))
     \/ ~user /\ Ends(d, "error") /\ Fine /\ UNCHANGED policy
  /\ UNCHANGED <<user, keys, minted, phones, key>>

HasRoom(have) == Cardinality(have) < 2

\* makeRoomForAKey lists; two keys are one too many.
MakeRoom(d) ==
  /\ pc[d] = "room"
  /\ \/ HasRoom(keys) /\ Goto(d, "mint", Blank) /\ Fine
     \/ /\ ~HasRoom(keys) /\ Fine
        /\ Goto(d, "look", [seen |-> keys, todo |-> keys, idle |-> {}])
     \/ Ends(d, "error") /\ Fault("list")
  /\ UNCHANGED <<iam, phones, key>>

\* ... asks for each whether it was used; "cannot tell" counts as used ...
LookAtKey(d) ==
  /\ pc[d] = "look"
  /\ \/ mem[d].todo = {} /\ Goto(d, "evict", mem[d]) /\ Fine
     \/ \E k \in mem[d].todo :
          LET rest == Without(mem[d], k)
              unused == {k} \cap (keys \ used)
          IN \/ Goto(d, "look", [rest EXCEPT !.idle = @ \cup unused]) /\ Fine
             \/ Goto(d, "look", rest) /\ Fault("room")
  /\ UNCHANGED <<iam, phones, key>>

\* ... and drops the oldest unused one, or else the oldest.
ToEvict(unused, all) == Min(IF unused # {} THEN unused ELSE all)

Evict(d) ==
  LET k == ToEvict(mem[d].idle, mem[d].seen) IN
  /\ pc[d] = "evict"
  /\ \/ k \in keys
        /\ Call(d, DeleteKey(k), UNCHANGED iam, Goto(d, "mint", Blank))
     \/ k \notin keys /\ Ends(d, "error") /\ Fine /\ UNCHANGED iam
  /\ UNCHANGED <<phones, key>>

\* IAM refuses a third key, and a key for a user that is gone.
CreateAccessKey(d) ==
  /\ pc[d] = "mint"
  /\ IF user /\ Cardinality(keys) < 2
     THEN /\ Call(d, minted' = minted + 1 /\ keys' = keys \cup {minted'},
                  UNCHANGED <<minted, keys>>, Goto(d, "reply", Blank))
          /\ key' = [key EXCEPT ![d] = IF pc'[d] = "reply" THEN minted' ELSE NoKey]
     ELSE Ends(d, "error") /\ Fine /\ UNCHANGED <<minted, keys, key>>
  /\ UNCHANGED <<user, policy, phones>>

\* The sealed code reaches the page.
Shown(d) ==
  /\ pc[d] = "reply"
  /\ Goto(d, "shown", Blank)
  /\ UNCHANGED <<iam, phones, key, history>>

Create(d) ==
  \/ CreateUser(d) \/ PutUserPolicy(d) \/ MakeRoom(d) \/ LookAtKey(d)
  \/ Evict(d) \/ CreateAccessKey(d) \/ Shown(d)

-----------------------------------------------------------------------------
(* The phone. *)
\* The code is read, and its PIN typed, as long as the page shows it.
Scan(p, d) ==
  /\ pc[d] = "shown" /\ hold[p] # key[d]
  /\ hold' = [hold EXCEPT ![p] = key[d]]
  /\ UNCHANGED <<iam, used, dialogs, history>>

\* The first call with a key.  A key that is gone answers 403.
Use(p) ==
  /\ hold[p] \in keys \ used
  /\ used' = used \cup {hold[p]}
  /\ crossed' = (crossed \/ \E d \in Dialog : AtWork(d))
  /\ UNCHANGED <<iam, hold, dialogs, spent, doubted>>

-----------------------------------------------------------------------------
(* DeviceAbandon: "done" is pressed. *)
\* The server registers "POST /api/setup/{aktion}", and a wildcard of Go's
\* ServeMux stands for one segment of the path.
Matches(path) == Len(path) = 1

\* The page asks for device/abandon.  A request without a route is answered
\* 404, and the page says nothing.
Done(d) ==
  /\ pc[d] = "shown"
  /\ IF Direct \/ Matches(<<"device", "abandon">>)
     THEN Goto(d, "asked", Blank) /\ Begins(d)
     ELSE Ends(d, "nothing") /\ Fine
  /\ UNCHANGED <<iam, phones, key>>

\* KeyUsed; a key that is not there is an error like any other.  The other
\* keys are listed all the same, which then no longer matters.
AskUsed(d) ==
  /\ pc[d] = "asked"
  /\ \/ /\ key[d] \in keys /\ Fine
        /\ Goto(d, IF key[d] \in used THEN "used" ELSE "unused", Blank)
     \/ key[d] \notin keys /\ Ends(d, "nothing") /\ Fine
     \/ Ends(d, "nothing") /\ Fault("ask")
  /\ UNCHANGED <<iam, phones, key>>

\* Mutant: as if the dialog's key were the device's only one.
DecideAlone(wasUsed, others) == IF wasUsed THEN "retiring" ELSE "removing"
\* Mutant: an outcome the dialog has no branch for.
DecideUnhandled(wasUsed, others) ==
  IF wasUsed THEN "retiring" ELSE IF others = {} THEN "removing" ELSE "keep"
\* DecidePairing, once both questions are answered.
DecidePairing(wasUsed, others) ==
  CASE wasUsed                    -> "retiring"
    [] ~wasUsed /\ others = {}    -> "removing"
    [] ~wasUsed /\ others # {}    -> "drop"

\* Mutant: only those that were never used.
UnusedOthers(d) == keys \ (used \cup {key[d]})
OtherKeys(d) == keys \ {key[d]}

\* OtherKeys, and the decision.
AskOthers(d) ==
  /\ pc[d] \in {"used", "unused"}
  /\ \/ /\ Goto(d, DecidePairing(pc[d] = "used", OtherKeys(d)), Blank)
        /\ Fine
     \/ Ends(d, "nothing") /\ Fault("list")
  /\ UNCHANGED <<iam, phones, key>>

\* PairingDone: OtherKeys is asked again ...
ListRetiring(d) ==
  /\ pc[d] = "retiring"
  /\ \/ Goto(d, "retire", Listed(OtherKeys(d))) /\ Fine
     \/ Ends(d, "nothing") /\ Fault("list")
  /\ UNCHANGED <<iam, phones, key>>

\* ... and every one dropped.  DropKey does not mind a key that is gone.
Retire(d) ==
  /\ pc[d] = "retire"
  /\ \/ mem[d].todo = {} /\ Ends(d, "paired") /\ Fine /\ UNCHANGED iam
     \/ \E k \in mem[d].todo :
          Call(d, DeleteKey(k), UNCHANGED iam,
               Goto(d, "retire", Without(mem[d], k)))
  /\ UNCHANGED <<phones, key>>

\* Mutant: the key that goes is the one the device had before.
PreviousKey(d) == Min(keys \cup {key[d]})
NewKey(d) == key[d]

\* PairingKeepPrevious: only the new key goes.
DropNew(d) ==
  /\ pc[d] = "drop"
  /\ Call(d, DeleteKey(NewKey(d)), UNCHANGED iam, Ends(d, "kept"))
  /\ UNCHANGED <<phones, key>>

\* Remove: key, policy, user, and the order is the point.
RemoveFirst == "keys"

\* PairingDropDevice: Remove lists the keys; a user that is gone has none ...
ListRemoving(d) ==
  /\ pc[d] = "removing"
  /\ \/ Goto(d, RemoveFirst, Listed(keys)) /\ Fine
     \/ Ends(d, "error") /\ Fault("list")
  /\ UNCHANGED <<iam, phones, key>>

\* ... drops each, and stops at one that is gone ...
RemoveKeys(d) ==
  /\ pc[d] = "keys"
  /\ \/ mem[d].todo = {} /\ Goto(d, "nopolicy", Blank) /\ Fine /\ UNCHANGED iam
     \/ \E k \in mem[d].todo \cap keys :
          Call(d, DeleteKey(k), UNCHANGED iam,
               Goto(d, "keys", Without(mem[d], k)))
     \/ mem[d].todo \ keys # {} /\ Ends(d, "error") /\ Fine /\ UNCHANGED iam
  /\ UNCHANGED <<phones, key>>

\* ... then the policy, which may be gone ...
RemovePolicy(d) ==
  /\ pc[d] = "nopolicy"
  /\ Call(d, policy' = FALSE, UNCHANGED policy, Goto(d, "nouser", Blank))
  /\ UNCHANGED <<user, keys, minted, phones, key>>

\* ... and the user, which may be gone.  IAM keeps one that still has something.
RemoveUser(d) ==
  /\ pc[d] = "nouser"
  /\ \/ /\ user => keys = {} /\ ~policy
        /\ Call(d, user' = FALSE, UNCHANGED user, Ends(d, "removed"))
     \/ /\ user /\ (keys # {} \/ policy)
        /\ Ends(d, "error") /\ Fine /\ UNCHANGED user
  /\ UNCHANGED <<policy, keys, minted, phones, key>>

Settle(d) ==
  \/ AskUsed(d) \/ AskOthers(d) \/ ListRetiring(d) \/ Retire(d) \/ DropNew(d)
  \/ ListRemoving(d) \/ RemoveKeys(d) \/ RemovePolicy(d) \/ RemoveUser(d)

-----------------------------------------------------------------------------
\* The program dies, or the page goes, in the middle of a call.
Lost(d) ==
  /\ AtWork(d)
  /\ Ends(d, "silence") /\ Fault("lost")
  /\ UNCHANGED <<iam, phones, key>>

\* The page goes with the code on it, or asks for another one.
Left(d) ==
  /\ pc[d] = "shown"
  /\ Ends(d, "silence") /\ Fault("left")
  /\ UNCHANGED <<iam, phones, key>>

Next ==
  \/ \E d \in Dialog :
       Open(d) \/ Create(d) \/ Done(d) \/ Settle(d) \/ Lost(d) \/ Left(d)
  \/ \E p \in Phone : Use(p) \/ \E d \in Dialog : Scan(p, d)

Spec == Init /\ [][Next]_vars

-----------------------------------------------------------------------------
(* Properties. *)
\* Once a phone has used its key, the device is never without a used key:
\* opening, leaving, settling and failing calls do not lock it out - as long as
\* nobody crosses a call, and Create was told about every key it asked for.
DeviceStaysIn ==
  used # {} /\ ~crossed /\ ~doubted => used \cap keys # {}

\* A dialog that was answered "removed" or "kept" leaves no key that opens
\* anything: a photograph of its code is worth nothing, whoever crosses it.
AbandonedOpensNothing ==
  \A d \in Dialog : answer[d] \in {"removed", "kept"} => key[d] \notin keys

\* A code whose dialog was closed with "done", nothing failing and nobody
\* crossing, leaves no key behind that no phone ever used.
ClosedIsSettled ==
  \A d \in Dialog :
    pc[d] = "over" /\ spent = 0 /\ ~crossed => key[d] \notin keys \ used

\* "Paired" means one key per device, whatever earlier dialogs left behind.
OneKeyAtRest ==
  [][\A d \in Dialog :
       answer[d] # "paired" /\ answer'[d] = "paired" /\ ~crossed =>
         keys' = {key[d]}]_vars
=============================================================================
