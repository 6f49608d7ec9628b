---------------------------- MODULE PairingProofs ----------------------------
(* Theorems about Pairing, for any number of dialogs, phones and faults.    *)
EXTENDS Pairing, TLAPS, FiniteSetTheorems, WellFoundedInduction, NaturalsInduction

\* A dialog mints one key at most: those that have not yet, are left.
Early == {"idle", "user", "policy", "room", "look", "evict", "mint"}
Unminted == {d \in Dialog : pc[d] \in Early}

\* There are keys enough to number.
Counted == minted + Cardinality(Unminted) <= MaxDialog + 1

\* The numbers of keys that were never minted are free.
Minted ==
  /\ \A k \in keys : k <= minted
  /\ \A d \in Dialog : key[d] <= minted

\* What a dialog has still to drop, or has dropped, on its way to an answer.
Settled(d) ==
  /\ answer[d] \in {"removed", "kept"} => pc[d] = "over" /\ key[d] \notin keys
  /\ pc[d] \in {"nopolicy", "nouser"} => key[d] \notin keys
  /\ pc[d] = "keys" => key[d] \notin keys \/ key[d] \in mem[d].todo
AllSettled == \A d \in Dialog : Settled(d)

Inv == TypeOK /\ Counted /\ Minted /\ AllSettled

-----------------------------------------------------------------------------
\* The dialogs yet to mint are finitely many, before and after a step.
LEMMA UnmintedFinite ==
  /\ IsFiniteSet(Unminted) /\ Cardinality(Unminted) \in Nat
  /\ IsFiniteSet(Unminted') /\ Cardinality(Unminted') \in Nat
<1>1. IsFiniteSet(Dialog)
  BY PairingAssumption, FS_Interval DEF Dialog
<1>2. Unminted \subseteq Dialog /\ Unminted' \subseteq Dialog
  BY DEF Unminted
<1>. QED  BY <1>1, <1>2, FS_Subset, FS_CardinalityType

\* A step that mints nothing leaves keys enough to number.
LEMMA NotMore ==
  ASSUME Counted, minted \in Nat, UNCHANGED minted, Unminted' \subseteq Unminted
  PROVE  Counted'
<1>1. Cardinality(Unminted') <= Cardinality(Unminted)
  BY UnmintedFinite, FS_Subset
<1>. QED  BY <1>1, UnmintedFinite, PairingAssumption DEF Counted

\* So does minting one, by a dialog that has not minted yet.
LEMMA OneMore ==
  ASSUME Counted, minted \in Nat, NEW d \in Unminted, d \notin Unminted',
         Unminted' \subseteq Unminted, minted' = minted + 1
  PROVE  Counted' /\ minted' <= MaxDialog + 1
<1>1. Cardinality(Unminted \ {d}) = Cardinality(Unminted) - 1
  BY UnmintedFinite, FS_RemoveElement
<1>2. IsFiniteSet(Unminted \ {d}) /\ Unminted' \subseteq Unminted \ {d}
  BY UnmintedFinite, FS_RemoveElement
<1>3. Cardinality(Unminted') <= Cardinality(Unminted) - 1
  BY <1>1, <1>2, FS_Subset
<1>. QED  BY <1>3, UnmintedFinite, PairingAssumption DEF Counted

\* The first state, with or without a phone, satisfies the invariant.
LEMMA InitInv == Init => Inv
<1>. SUFFICES ASSUME Init PROVE Inv
  OBVIOUS
<1>1. TypeOK
  <2>1. minted \in 0 .. 1 /\ 1 .. minted \subseteq Key /\ minted \in Key \cup {NoKey}
    BY PairingAssumption DEF Init, Key, NoKey
  <2>2. hold \in [Phone -> Key \cup {NoKey}]
    BY <2>1 DEF Init, NoKey
  <2>3. mem \in [Dialog -> [seen : SUBSET Key, todo : SUBSET Key, idle : SUBSET Key]]
    BY DEF Init, Blank
  <2>4. /\ user \in BOOLEAN /\ policy \in BOOLEAN
        /\ keys \subseteq Key /\ used \subseteq Key
        /\ minted \in 0 .. MaxDialog + 1
    BY <2>1, PairingAssumption DEF Init
  <2>5. /\ pc \in [Dialog -> {"idle", "shown", "over"} \cup CreateStep \cup SettleStep]
        /\ key \in [Dialog -> Key \cup {NoKey}]
        /\ answer \in [Dialog -> Answers]
    BY DEF Init, Unanswered, Answers
  <2>6. spent \in 0 .. MaxFault
    BY PairingAssumption DEF Init
  <2>7. doubted \in BOOLEAN /\ crossed \in BOOLEAN
    BY DEF Init
  <2>. QED  BY <2>2, <2>3, <2>4, <2>5, <2>6, <2>7 DEF TypeOK
<1>2. Counted
  <2>1. Unminted = Dialog
    BY DEF Init, Unminted, Early
  <2>2. Cardinality(Dialog) = MaxDialog
    BY PairingAssumption, FS_Interval DEF Dialog
  <2>. QED  BY <2>1, <2>2, PairingAssumption DEF Init, Counted
<1>3. Minted /\ AllSettled
  BY DEF Init, Minted, AllSettled, Settled, NoKey, Unanswered
<1>. QED  BY <1>1, <1>2, <1>3 DEF Inv

-----------------------------------------------------------------------------
(* What the steps of a dialog have in common.                               *)

DialogType ==
  /\ pc \in [Dialog -> {"idle", "shown", "over"} \cup CreateStep \cup SettleStep]
  /\ mem \in [Dialog -> [seen : SUBSET Key, todo : SUBSET Key, idle : SUBSET Key]]
  /\ answer \in [Dialog -> Answers]
IamType     == user \in BOOLEAN /\ policy \in BOOLEAN
HistoryType == spent \in 0 .. MaxFault /\ doubted \in BOOLEAN /\ crossed \in BOOLEAN

\* A step that touches no dialog but d.
Only(d) == \A e \in Dialog \ {d} :
  pc'[e] = pc[e] /\ mem'[e] = mem[e] /\ answer'[e] = answer[e]

\* A dialog that goes on keeps the types and touches no other.
LEMMA GotoType ==
  ASSUME TypeOK, NEW d \in Dialog,
         NEW step \in {"idle", "shown", "over"} \cup CreateStep \cup SettleStep,
         NEW known \in [seen : SUBSET Key, todo : SUBSET Key, idle : SUBSET Key],
         Goto(d, step, known)
  PROVE  /\ DialogType' /\ Only(d)
         /\ pc'[d] = step /\ mem'[d] = known /\ answer'[d] = answer[d]
BY DEF TypeOK, Goto, DialogType, Only

\* So does one that ends.
LEMMA EndsType ==
  ASSUME TypeOK, NEW d \in Dialog, NEW what \in Answers, Ends(d, what)
  PROVE  /\ DialogType' /\ Only(d)
         /\ pc'[d] = "over" /\ answer'[d] = what
BY DEF TypeOK, Ends, Blank, DialogType, Only

\* A fault is counted within its bound.
LEMMA FaultType ==
  ASSUME TypeOK, NEW kind, Fault(kind)
  PROVE  HistoryType'
<1>1. spent' \in 0 .. MaxFault
  BY PairingAssumption DEF TypeOK, Fault
<1>2. doubted' \in BOOLEAN
  BY DEF TypeOK, Fault
<1>3. crossed' \in BOOLEAN
  BY DEF TypeOK, Fault
<1>. QED  BY <1>1, <1>2, <1>3 DEF HistoryType

\* Nothing going wrong changes no history.
LEMMA FineType ==
  ASSUME TypeOK, Fine
  PROVE  HistoryType'
BY DEF TypeOK, Fine, history, HistoryType

\* A dialog that begins can only cross others.
LEMMA BeginsType ==
  ASSUME TypeOK, NEW d \in Dialog, Begins(d)
  PROVE  HistoryType'
BY DEF TypeOK, Begins, HistoryType

\* A step that mints nothing: keys only go, and d stays on its way.
Quiet(d) ==
  /\ DialogType' /\ IamType' /\ HistoryType' /\ Only(d)
  /\ keys' \subseteq keys /\ UNCHANGED <<minted, key, phones>>
  /\ pc'[d] \in Early => pc[d] \in Early
  /\ Settled(d)'

\* A quiet step keeps the invariant.
LEMMA QuietKeepsInv ==
  ASSUME Inv, NEW d \in Dialog, Quiet(d)
  PROVE  Inv'
<1>1. TypeOK'
  BY DEF Inv, TypeOK, Quiet, DialogType, IamType, HistoryType, phones
<1>2. Counted'
  <2>1. Unminted' \subseteq Unminted
    BY DEF Quiet, Only, Unminted
  <2>. QED  BY <2>1, NotMore DEF Inv, TypeOK, Quiet
<1>3. Minted'
  BY DEF Inv, Minted, Quiet
<1>4. AllSettled'
  <2>. SUFFICES ASSUME NEW e \in Dialog \ {d} PROVE Settled(e)'
    BY DEF AllSettled, Quiet
  <2>1. Settled(e) /\ pc'[e] = pc[e] /\ mem'[e] = mem[e] /\ answer'[e] = answer[e]
    BY DEF Inv, AllSettled, Quiet, Only
  <2>. QED  BY <2>1 DEF Settled, Quiet
<1>. QED  BY <1>1, <1>2, <1>3, <1>4 DEF Inv

\* Where d goes when it goes on: nothing is promised there yet.
OnTheWay == {"policy", "room", "look", "evict", "mint", "shown", "asked", "used",
          "unused", "retiring", "retire", "drop", "removing", "user"}

\* A dialog that is not over has not been told "removed" or "kept".
LEMMA NotTold ==
  ASSUME Inv, NEW d \in Dialog, pc[d] # "over"
  PROVE  answer[d] \notin {"removed", "kept"}
BY DEF Inv, AllSettled, Settled

\* A dialog that goes on its way and mints nothing is quiet.
LEMMA GoesOn ==
  ASSUME Inv, NEW d \in Dialog, pc[d] # "over",
         NEW step \in OnTheWay,
         NEW known \in [seen : SUBSET Key, todo : SUBSET Key, idle : SUBSET Key],
         Goto(d, step, known),
         step \in Early => pc[d] \in Early,
         IamType', HistoryType', keys' \subseteq keys,
         UNCHANGED <<minted, key, phones>>
  PROVE  Quiet(d)
<1>1. /\ DialogType' /\ Only(d)
      /\ pc'[d] = step /\ answer'[d] = answer[d]
  BY GotoType DEF Inv, OnTheWay, CreateStep, SettleStep
<1>2. Settled(d)'
  BY <1>1, NotTold DEF Settled, OnTheWay
<1>. QED  BY <1>1, <1>2 DEF Quiet

\* One that ends without having dropped its key is quiet.
LEMMA GivesUp ==
  ASSUME Inv, NEW d \in Dialog,
         NEW what \in Answers \ {"removed", "kept"},
         Ends(d, what),
         IamType', HistoryType', keys' \subseteq keys,
         UNCHANGED <<minted, key, phones>>
  PROVE  Quiet(d)
<1>1. DialogType' /\ Only(d) /\ pc'[d] = "over" /\ answer'[d] = what
  BY EndsType DEF Inv
<1>2. Settled(d)'
  BY <1>1 DEF Settled
<1>. QED  BY <1>1, <1>2 DEF Quiet, Early

\* A dialog that knows nothing is well typed.
LEMMA BlankType == Blank \in [seen : SUBSET Key, todo : SUBSET Key, idle : SUBSET Key]
BY DEF Blank

-----------------------------------------------------------------------------
(* One lemma per action of a dialog.                                        *)
USE DEF OnTheWay, Early

\* A code is asked for.
LEMMA OpenQuiet ==
  ASSUME Inv, NEW d \in Dialog, Open(d)
  PROVE  Quiet(d)
<1>1. HistoryType' /\ IamType'
  BY BeginsType DEF Open, Inv, TypeOK, iam, IamType
<1>. QED  BY <1>1, GoesOn, BlankType DEF Open, iam

\* The error of a changing call ends a dialog.
LEMMA ErrorQuiet ==
  ASSUME Inv, NEW d \in Dialog, Ends(d, "error"), Fault("call"), IamType',
         keys' \subseteq keys, UNCHANGED <<minted, key, phones>>
  PROVE  Quiet(d)
<1>1. HistoryType'
  BY FaultType DEF Inv
<1>. QED  BY <1>1, GivesUp DEF Answers

\* CreateUser (awsx/devices.go).
LEMMA CreateUserQuiet ==
  ASSUME Inv, NEW d \in Dialog, CreateUser(d)
  PROVE  Quiet(d)
<1>1. IamType'
  BY DEF CreateUser, Call, Inv, TypeOK, IamType
<1>2. CASE Goto(d, "policy", Blank) /\ Fine
  BY <1>1, <1>2, FineType, GoesOn, BlankType DEF CreateUser, Inv
<1>3. CASE Ends(d, "error") /\ Fault("call")
  BY <1>1, <1>3, ErrorQuiet DEF CreateUser
<1>. QED  BY <1>2, <1>3 DEF CreateUser, Call

\* PutUserPolicy.
LEMMA PutUserPolicyQuiet ==
  ASSUME Inv, NEW d \in Dialog, PutUserPolicy(d)
  PROVE  Quiet(d)
<1>1. IamType'
  BY DEF PutUserPolicy, Call, Inv, TypeOK, IamType
<1>2. CASE Goto(d, "room", Blank) /\ Fine
  BY <1>1, <1>2, FineType, GoesOn, BlankType DEF PutUserPolicy, Inv
<1>3. CASE Ends(d, "error") /\ Fault("call")
  BY <1>1, <1>3, ErrorQuiet DEF PutUserPolicy
<1>4. CASE Ends(d, "error") /\ Fine
  BY <1>1, <1>4, FineType, GivesUp DEF PutUserPolicy, Inv, Answers
<1>. QED  BY <1>2, <1>3, <1>4 DEF PutUserPolicy, Call

\* makeRoomForAKey lists the keys.
LEMMA MakeRoomQuiet ==
  ASSUME Inv, NEW d \in Dialog, MakeRoom(d)
  PROVE  Quiet(d)
<1>1. IamType'
  BY DEF MakeRoom, Inv, TypeOK, iam, IamType
<1>2. CASE Goto(d, "mint", Blank) /\ Fine
  BY <1>1, <1>2, FineType, GoesOn, BlankType DEF MakeRoom, Inv, iam
<1>3. CASE Goto(d, "look", [seen |-> keys, todo |-> keys, idle |-> {}]) /\ Fine
  <2>1. [seen |-> keys, todo |-> keys, idle |-> {}]
          \in [seen : SUBSET Key, todo : SUBSET Key, idle : SUBSET Key]
    BY DEF Inv, TypeOK
  <2>. QED  BY <1>1, <1>3, <2>1, FineType, GoesOn DEF MakeRoom, Inv, iam
<1>4. CASE Ends(d, "error") /\ Fault("list")
  BY <1>1, <1>4, FaultType, GivesUp DEF MakeRoom, Inv, iam, Answers
<1>. QED  BY <1>2, <1>3, <1>4 DEF MakeRoom

\* It asks for each.
LEMMA LookAtKeyQuiet ==
  ASSUME Inv, NEW d \in Dialog, LookAtKey(d)
  PROVE  Quiet(d)
<1>1. IamType'
  BY DEF LookAtKey, Inv, TypeOK, iam, IamType
<1>2. mem[d] \in [seen : SUBSET Key, todo : SUBSET Key, idle : SUBSET Key]
  BY DEF Inv, TypeOK
<1>3. CASE Goto(d, "evict", mem[d]) /\ Fine
  BY <1>1, <1>2, <1>3, FineType, GoesOn DEF LookAtKey, Inv, iam
<1>4. ASSUME NEW k \in mem[d].todo, NEW known,
             \/ known = Without(mem[d], k)
             \/ known = [Without(mem[d], k) EXCEPT !.idle = @ \cup ({k} \cap (keys \ used))],
             Goto(d, "look", known), Fine \/ Fault("room")
      PROVE  Quiet(d)
  <2>1. Without(mem[d], k) \in [seen : SUBSET Key, todo : SUBSET Key, idle : SUBSET Key]
    BY <1>2 DEF Without
  <2>2. known \in [seen : SUBSET Key, todo : SUBSET Key, idle : SUBSET Key]
    BY <1>4, <2>1 DEF Inv, TypeOK
  <2>3. HistoryType'
    BY <1>4, FineType, FaultType DEF Inv
  <2>. QED  BY <1>1, <1>4, <2>2, <2>3, GoesOn DEF LookAtKey, iam
<1>. QED  BY <1>3, <1>4 DEF LookAtKey

\* It drops one: keys only go.
LEMMA EvictQuiet ==
  ASSUME Inv, NEW d \in Dialog, Evict(d)
  PROVE  Quiet(d)
<1>. DEFINE k == ToEvict(mem[d].idle, mem[d].seen)
<1>1. IamType' /\ keys' \subseteq keys /\ UNCHANGED <<minted, key, phones>>
  BY DEF Evict, Call, DeleteKey, Inv, TypeOK, iam, IamType
<1>2. CASE Goto(d, "mint", Blank) /\ Fine
  BY <1>1, <1>2, FineType, GoesOn, BlankType DEF Evict, Inv
<1>3. CASE Ends(d, "error") /\ Fault("call")
  BY <1>1, <1>3, ErrorQuiet
<1>4. CASE Ends(d, "error") /\ Fine
  BY <1>1, <1>4, FineType, GivesUp DEF Inv, Answers
<1>. QED  BY <1>2, <1>3, <1>4 DEF Evict, Call

\* The code reaches the page.
LEMMA ShownQuiet ==
  ASSUME Inv, NEW d \in Dialog, Shown(d)
  PROVE  Quiet(d)
<1>1. IamType' /\ HistoryType'
  BY FineType DEF Shown, Fine, Inv, TypeOK, iam, IamType
<1>. QED  BY <1>1, GoesOn, BlankType DEF Shown, iam

\* "Done" reaches DeviceAbandon, or no route.
Unrouted(d) == Done(d) /\ Ends(d, "nothing") /\ Fine
LEMMA DoneEither ==
  ASSUME NEW d \in Dialog, Done(d)
  PROVE  (Goto(d, "asked", Blank) /\ Begins(d)) \/ Unrouted(d)
BY DEF Done, Unrouted

\* "Done" is pressed.
LEMMA DoneQuiet ==
  ASSUME Inv, NEW d \in Dialog, Done(d)
  PROVE  Quiet(d)
<1>1. CASE Goto(d, "asked", Blank) /\ Begins(d)
  <2>1. IamType' /\ HistoryType'
    BY <1>1, BeginsType DEF Done, Inv, TypeOK, iam, IamType
  <2>. QED  BY <1>1, <2>1, GoesOn, BlankType DEF Done, iam
<1>2. CASE Unrouted(d)
  <2>1. IamType' /\ HistoryType'
    BY <1>2, FineType DEF Unrouted, Done, Inv, TypeOK, iam, IamType
  <2>. QED  BY <1>2, <2>1, GivesUp DEF Unrouted, Done, iam, Answers
<1>. QED  BY <1>1, <1>2, DoneEither

\* DeviceAbandon asks for the dialog's own key.
LEMMA AskUsedQuiet ==
  ASSUME Inv, NEW d \in Dialog, AskUsed(d)
  PROVE  Quiet(d)
<1>1. IamType' /\ HistoryType'
  BY FineType, FaultType DEF AskUsed, Inv, TypeOK, iam, IamType
<1>2. CASE Goto(d, IF key[d] \in used THEN "used" ELSE "unused", Blank)
  BY <1>1, <1>2, GoesOn, BlankType DEF AskUsed, iam
<1>3. CASE Ends(d, "nothing")
  BY <1>1, <1>3, GivesUp DEF AskUsed, iam, Answers
<1>. QED  BY <1>2, <1>3 DEF AskUsed

\* DeviceAbandon decides.
LEMMA AskOthersQuiet ==
  ASSUME Inv, NEW d \in Dialog, AskOthers(d)
  PROVE  Quiet(d)
<1>1. IamType' /\ HistoryType'
  BY FineType, FaultType DEF AskOthers, Inv, TypeOK, iam, IamType
<1>2. DecidePairing(pc[d] = "used", OtherKeys(d)) \in {"retiring", "removing", "drop"}
  BY DEF DecidePairing
<1>3. CASE Goto(d, DecidePairing(pc[d] = "used", OtherKeys(d)), Blank)
  BY <1>1, <1>2, <1>3, GoesOn, BlankType DEF AskOthers, iam
<1>4. CASE Ends(d, "nothing")
  BY <1>1, <1>4, GivesUp DEF AskOthers, iam, Answers
<1>. QED  BY <1>3, <1>4 DEF AskOthers

\* A list of keys to treat.
LEMMA ListedType ==
  ASSUME NEW S \in SUBSET Key
  PROVE  Listed(S) \in [seen : SUBSET Key, todo : SUBSET Key, idle : SUBSET Key]
BY DEF Listed, Blank

\* The others are listed once more.
LEMMA ListRetiringQuiet ==
  ASSUME Inv, NEW d \in Dialog, ListRetiring(d)
  PROVE  Quiet(d)
<1>1. IamType' /\ HistoryType'
  BY FineType, FaultType DEF ListRetiring, Inv, TypeOK, iam, IamType
<1>2. Listed(OtherKeys(d)) \in [seen : SUBSET Key, todo : SUBSET Key, idle : SUBSET Key]
  BY ListedType DEF OtherKeys, Inv, TypeOK
<1>3. CASE Goto(d, "retire", Listed(OtherKeys(d)))
  BY <1>1, <1>2, <1>3, GoesOn DEF ListRetiring, iam
<1>4. CASE Ends(d, "nothing")
  BY <1>1, <1>4, GivesUp DEF ListRetiring, iam, Answers
<1>. QED  BY <1>3, <1>4 DEF ListRetiring

\* Another key is dropped.
LEMMA RetireQuiet ==
  ASSUME Inv, NEW d \in Dialog, Retire(d)
  PROVE  Quiet(d)
<1>1. IamType' /\ keys' \subseteq keys /\ UNCHANGED <<minted, key, phones>>
  BY DEF Retire, Call, DeleteKey, Inv, TypeOK, iam, IamType
<1>2. ASSUME NEW k \in mem[d].todo, Goto(d, "retire", Without(mem[d], k)), Fine
      PROVE  Quiet(d)
  <2>1. Without(mem[d], k) \in [seen : SUBSET Key, todo : SUBSET Key, idle : SUBSET Key]
    BY DEF Inv, TypeOK, Without
  <2>. QED  BY <1>1, <1>2, <2>1, FineType, GoesOn DEF Retire, Inv
<1>3. CASE Ends(d, "error") /\ Fault("call")
  BY <1>1, <1>3, ErrorQuiet
<1>4. CASE Ends(d, "paired") /\ Fine
  BY <1>1, <1>4, FineType, GivesUp DEF Inv, Answers
<1>. QED  BY <1>2, <1>3, <1>4 DEF Retire, Call

\* "Kept": the key has just been dropped.
LEMMA DropNewQuiet ==
  ASSUME Inv, NEW d \in Dialog, DropNew(d)
  PROVE  Quiet(d)
<1>1. IamType' /\ keys' \subseteq keys /\ UNCHANGED <<minted, key, phones>>
  BY DEF DropNew, Call, DeleteKey, Inv, TypeOK, iam, IamType
<1>2. CASE DeleteKey(NewKey(d)) /\ Ends(d, "kept") /\ Fine
  <2>1. DialogType' /\ Only(d) /\ pc'[d] = "over" /\ answer'[d] = "kept"
    BY <1>2, EndsType DEF Inv, Answers
  <2>2. key'[d] \notin keys'
    BY <1>1, <1>2 DEF DeleteKey, NewKey
  <2>. QED  BY <1>1, <1>2, <2>1, <2>2, FineType DEF Quiet, Settled, Inv
<1>3. CASE Ends(d, "error") /\ Fault("call")
  BY <1>1, <1>3, ErrorQuiet
<1>. QED  BY <1>2, <1>3 DEF DropNew, Call

\* Every key of the device is on the list, the dialog's own among them.
LEMMA ListRemovingQuiet ==
  ASSUME Inv, NEW d \in Dialog, ListRemoving(d)
  PROVE  Quiet(d)
<1>1. IamType' /\ HistoryType'
  BY FineType, FaultType DEF ListRemoving, Inv, TypeOK, iam, IamType
<1>2. CASE Goto(d, "keys", Listed(keys))
  <2>1. /\ DialogType' /\ Only(d)
        /\ pc'[d] = "keys" /\ mem'[d] = Listed(keys) /\ answer'[d] = answer[d]
    BY <1>2, ListedType, GotoType DEF Inv, TypeOK, SettleStep
  <2>2. answer[d] \notin {"removed", "kept"}
    BY NotTold DEF ListRemoving
  <2>3. keys' = keys /\ key' = key /\ mem'[d].todo = keys
    BY <2>1 DEF ListRemoving, iam, Listed, Blank
  <2>4. Settled(d)'
    BY <2>1, <2>2, <2>3 DEF Settled
  <2>. QED  BY <1>1, <2>1, <2>4 DEF Quiet, ListRemoving, iam
<1>3. CASE Ends(d, "error")
  BY <1>1, <1>3, GivesUp DEF ListRemoving, iam, Answers
<1>. QED  BY <1>2, <1>3 DEF ListRemoving, RemoveFirst

\* A key leaves the list when it has been dropped.
LEMMA RemoveKeysQuiet ==
  ASSUME Inv, NEW d \in Dialog, RemoveKeys(d)
  PROVE  Quiet(d)
<1>1. IamType' /\ keys' \subseteq keys /\ UNCHANGED <<minted, key, phones>>
  BY DEF RemoveKeys, Call, DeleteKey, Inv, TypeOK, iam, IamType
<1>2. answer[d] \notin {"removed", "kept"} /\ (key[d] \notin keys \/ key[d] \in mem[d].todo)
  BY NotTold DEF RemoveKeys, Inv, AllSettled, Settled
<1>3. CASE mem[d].todo = {} /\ Goto(d, "nopolicy", Blank) /\ Fine
  <2>1. /\ DialogType' /\ Only(d) /\ pc'[d] = "nopolicy" /\ answer'[d] = answer[d]
    BY <1>3, BlankType, GotoType DEF Inv, SettleStep
  <2>2. Settled(d)'
    BY <1>1, <1>2, <1>3, <2>1 DEF Settled
  <2>. QED  BY <1>1, <1>3, <2>1, <2>2, FineType DEF Quiet, Inv
<1>4. ASSUME NEW k \in mem[d].todo, DeleteKey(k),
             Goto(d, "keys", Without(mem[d], k)), Fine
      PROVE  Quiet(d)
  <2>1. Without(mem[d], k) \in [seen : SUBSET Key, todo : SUBSET Key, idle : SUBSET Key]
        /\ Without(mem[d], k).todo = mem[d].todo \ {k}
    BY DEF Inv, TypeOK, Without
  <2>2. /\ DialogType' /\ Only(d) /\ pc'[d] = "keys"
        /\ mem'[d] = Without(mem[d], k) /\ answer'[d] = answer[d]
    BY <1>4, <2>1, GotoType DEF Inv, SettleStep
  <2>3. Settled(d)'
    BY <1>1, <1>2, <1>4, <2>1, <2>2 DEF Settled, DeleteKey
  <2>. QED  BY <1>1, <1>4, <2>2, <2>3, FineType DEF Quiet, Inv
<1>5. CASE Ends(d, "error") /\ Fault("call")
  BY <1>1, <1>5, ErrorQuiet
<1>6. CASE Ends(d, "error") /\ Fine
  BY <1>1, <1>6, FineType, GivesUp DEF Inv, Answers
<1>. QED  BY <1>3, <1>4, <1>5, <1>6 DEF RemoveKeys, Call

\* The key stays gone while the policy goes.
LEMMA RemovePolicyQuiet ==
  ASSUME Inv, NEW d \in Dialog, RemovePolicy(d)
  PROVE  Quiet(d)
<1>1. IamType' /\ keys' \subseteq keys /\ UNCHANGED <<minted, key, phones>>
  BY DEF RemovePolicy, Call, Inv, TypeOK, IamType
<1>2. CASE Goto(d, "nouser", Blank) /\ Fine
  <2>1. /\ DialogType' /\ Only(d) /\ pc'[d] = "nouser" /\ answer'[d] = answer[d]
    BY <1>2, BlankType, GotoType DEF Inv, SettleStep
  <2>2. Settled(d)'
    BY <1>1, <2>1, NotTold DEF RemovePolicy, Inv, AllSettled, Settled
  <2>. QED  BY <1>1, <1>2, <2>1, <2>2, FineType DEF Quiet, Inv
<1>3. CASE Ends(d, "error") /\ Fault("call")
  BY <1>1, <1>3, ErrorQuiet
<1>. QED  BY <1>2, <1>3 DEF RemovePolicy, Call

\* "Removed": the key was gone before the policy went.
LEMMA RemoveUserQuiet ==
  ASSUME Inv, NEW d \in Dialog, RemoveUser(d)
  PROVE  Quiet(d)
<1>1. IamType' /\ keys' \subseteq keys /\ UNCHANGED <<minted, key, phones>>
  BY DEF RemoveUser, Call, Inv, TypeOK, IamType
<1>2. CASE Ends(d, "removed") /\ Fine
  <2>1. DialogType' /\ Only(d) /\ pc'[d] = "over" /\ answer'[d] = "removed"
    BY <1>2, EndsType DEF Inv, Answers
  <2>2. key'[d] \notin keys'
    BY <1>1 DEF RemoveUser, Inv, AllSettled, Settled
  <2>. QED  BY <1>1, <1>2, <2>1, <2>2, FineType DEF Quiet, Settled, Inv
<1>3. CASE Ends(d, "error") /\ Fault("call")
  BY <1>1, <1>3, ErrorQuiet
<1>4. CASE Ends(d, "error") /\ Fine
  BY <1>1, <1>4, FineType, GivesUp DEF Inv, Answers
<1>. QED  BY <1>2, <1>3, <1>4 DEF RemoveUser, Call

\* Nobody answers, and nothing is promised.
LEMMA GoneQuiet ==
  ASSUME Inv, NEW d \in Dialog, Lost(d) \/ Left(d)
  PROVE  Quiet(d)
<1>1. IamType' /\ HistoryType'
  BY FaultType DEF Lost, Left, Inv, TypeOK, iam, IamType
<1>. QED  BY <1>1, GivesUp DEF Lost, Left, iam, Answers

\* The one step that makes a key gives it a number nobody has.
LEMMA CreateAccessKeyInv ==
  ASSUME Inv, NEW d \in Dialog, CreateAccessKey(d)
  PROVE  Inv'
<1>. DEFINE Mints == minted' = minted + 1 /\ keys' = keys \cup {minted'}
<1>1. minted \in Nat /\ d \in Unminted /\ answer[d] \notin {"removed", "kept"}
  BY NotTold, PairingAssumption DEF CreateAccessKey, Inv, TypeOK, Unminted
<1>2. /\ DialogType' /\ Only(d) /\ HistoryType'
      /\ pc'[d] \in {"reply", "over"} /\ answer'[d] \notin {"removed", "kept"}
  <2>1. CASE Goto(d, "reply", Blank) /\ Fine
    BY <1>1, <2>1, GotoType, BlankType, FineType DEF Inv, CreateStep
  <2>2. CASE Ends(d, "error") /\ (Fine \/ Fault("call"))
    BY <2>2, EndsType, FineType, FaultType DEF Inv, Answers
  <2>. QED  BY <2>1, <2>2 DEF CreateAccessKey, Call
<1>3. Unminted' \subseteq Unminted /\ d \notin Unminted'
  BY <1>2 DEF Only, Unminted
<1>4. Mints \/ UNCHANGED <<minted, keys>>
  BY DEF CreateAccessKey, Call
<1>5. Counted' /\ minted' \in 0 .. MaxDialog + 1
  <2>1. CASE Mints
    BY <1>1, <1>3, <2>1, OneMore, PairingAssumption DEF Inv
  <2>2. CASE UNCHANGED <<minted, keys>>
    BY <1>1, <1>3, <2>2, NotMore DEF Inv, TypeOK
  <2>. QED  BY <1>4, <2>1, <2>2
<1>6. /\ key' = [key EXCEPT ![d] = key'[d]]
      /\ key'[d] = NoKey \/ key'[d] = key[d] \/ (Mints /\ key'[d] = minted')
  BY <1>2 DEF CreateAccessKey, Call, Goto, Ends, Inv, TypeOK
<1>7. keys' \subseteq Key /\ key' \in [Dialog -> Key \cup {NoKey}]
  <2>1. keys \subseteq Key /\ key \in [Dialog -> Key \cup {NoKey}]
    BY DEF Inv, TypeOK
  <2>2. Mints => minted' \in Key
    BY <1>1, <1>5, PairingAssumption DEF Key
  <2>3. keys' \subseteq Key
    BY <1>4, <2>1, <2>2
  <2>4. key'[d] \in Key \cup {NoKey}
    BY <1>6, <2>1, <2>2
  <2>. QED  BY <1>6, <2>1, <2>3, <2>4
<1>8. TypeOK'
  BY <1>2, <1>5, <1>7 DEF CreateAccessKey, Inv, TypeOK, DialogType, HistoryType, phones
<1>9. Minted'
  BY <1>1, <1>4, <1>5, <1>6, <1>7 DEF Inv, TypeOK, Minted, Key, NoKey
<1>10. AllSettled'
  <2>. SUFFICES ASSUME NEW e \in Dialog PROVE Settled(e)'
    BY DEF AllSettled
  <2>1. CASE e = d
    BY <1>2, <2>1 DEF Settled
  <2>2. CASE e # d
    <3>1. /\ Settled(e) /\ pc'[e] = pc[e] /\ mem'[e] = mem[e] /\ answer'[e] = answer[e]
      BY <1>2, <2>2 DEF Inv, AllSettled, Only
    <3>2. key'[e] = key[e] /\ key[e] \in Int /\ key[e] <= minted
      BY <1>6, <2>2 DEF Inv, TypeOK, Minted, Key, NoKey
    <3>3. key'[e] \in keys' => key[e] \in keys
      BY <1>1, <1>4, <3>2
    <3>. QED  BY <3>1, <3>2, <3>3 DEF Settled
  <2>. QED  BY <2>1, <2>2
<1>. QED  BY <1>5, <1>8, <1>9, <1>10 DEF Inv

\* The phones change no key of a dialog.
LEMMA PhoneInv ==
  ASSUME Inv, NEW p \in Phone, Use(p) \/ \E d \in Dialog : Scan(p, d)
  PROVE  Inv'
<1>1. UNCHANGED <<iam, dialogs>>
  BY DEF Use, Scan
<1>2. hold' \in [Phone -> Key \cup {NoKey}] /\ used' \subseteq Key
  BY DEF Use, Scan, Inv, TypeOK
<1>3. spent' \in 0 .. MaxFault
  BY DEF Use, Scan, Inv, TypeOK, history
<1>4. doubted' \in BOOLEAN
  BY DEF Use, Scan, Inv, TypeOK, history
<1>5. crossed' \in BOOLEAN
  BY DEF Use, Scan, Inv, TypeOK, history
<1>6. TypeOK'
  BY <1>1, <1>2, <1>3, <1>4, <1>5 DEF Inv, TypeOK, iam, dialogs
<1>7. Unminted' = Unminted
  BY <1>1 DEF Unminted, dialogs
<1>8. Counted' /\ Minted' /\ AllSettled'
  BY <1>1, <1>7 DEF Inv, Counted, Minted, AllSettled, Settled, iam, dialogs
<1>. QED  BY <1>6, <1>8 DEF Inv

-----------------------------------------------------------------------------
\* Every step keeps the invariant.
LEMMA StepInv == Inv /\ [Next]_vars => Inv'
<1>. SUFFICES ASSUME Inv, [Next]_vars PROVE Inv'
  OBVIOUS
<1>1. CASE UNCHANGED vars
  <2>1. Unminted' = Unminted
    BY <1>1 DEF vars, dialogs, Unminted
  <2>. QED
    BY <1>1, <2>1 DEF vars, iam, phones, dialogs, history, Inv, TypeOK, Counted,
                      Minted, AllSettled, Settled
<1>2. ASSUME NEW d \in Dialog, Open(d) \/ Done(d) \/ Lost(d) \/ Left(d) PROVE Inv'
  BY <1>2, OpenQuiet, DoneQuiet, GoneQuiet, QuietKeepsInv
<1>3. ASSUME NEW d \in Dialog, Create(d) PROVE Inv'
  BY <1>3, CreateUserQuiet, PutUserPolicyQuiet, MakeRoomQuiet, LookAtKeyQuiet,
     EvictQuiet, CreateAccessKeyInv, ShownQuiet, QuietKeepsInv DEF Create
<1>4. ASSUME NEW d \in Dialog, Settle(d) PROVE Inv'
  BY <1>4, AskUsedQuiet, AskOthersQuiet, ListRetiringQuiet, RetireQuiet,
     DropNewQuiet, ListRemovingQuiet, RemoveKeysQuiet, RemovePolicyQuiet,
     RemoveUserQuiet, QuietKeepsInv DEF Settle
<1>5. ASSUME NEW p \in Phone, Use(p) \/ \E d \in Dialog : Scan(p, d) PROVE Inv'
  BY <1>5, PhoneInv
<1>. QED  BY <1>1, <1>2, <1>3, <1>4, <1>5 DEF Next

\* The invariant holds for any dialogs, phones and faults, crossed or not
\* (awsx.Create and DeviceAbandon, call by call).
THEOREM Invariance == Spec => []Inv
BY InitInv, StepInv, PTL DEF Spec

\* Every variable of Pairing keeps its type; in particular there are never more
\* keys than dialogs, and one, to number.
THEOREM TypeCorrect == Spec => []TypeOK
<1>1. Inv => TypeOK
  BY DEF Inv
<1>. QED  BY <1>1, Invariance, PTL

\* Whatever fails and whoever crosses it, a dialog that was answered "removed"
\* or "kept" leaves no key that opens anything (wizard/device.go:208-221).
THEOREM AbandonedIsWorthless == Spec => []AbandonedOpensNothing
<1>1. Inv => AbandonedOpensNothing
  BY DEF Inv, AllSettled, Settled, AbandonedOpensNothing
<1>. QED  BY <1>1, Invariance, PTL

-----------------------------------------------------------------------------
(* "Paired" means one key per device.  As long as nobody crosses a call, a  *)
(* dialog that retires the other keys is alone: what it has listed is all   *)
(* there is beside its own key.                                             *)
Retiring == {"used", "retiring", "retire"}

Retires(d) ==
  /\ pc[d] \in Retiring => key[d] \in keys
  /\ pc[d] = "retire" => key[d] \notin mem[d].todo /\ keys \ {key[d]} \subseteq mem[d].todo

Alone(d) == \A e \in Dialog \ {d} : ~AtWork(e)

\* A step that answers nobody "paired".
PairsNobody == \A d \in Dialog : answer'[d] = "paired" => answer[d] = "paired"

Rest == ~crossed => \A d \in Dialog : Retires(d) /\ (AtWork(d) => Alone(d))

\* Where a dialog goes, whatever the types.
LEMMA Goes ==
  ASSUME TypeOK, NEW d \in Dialog, NEW step, NEW known, Goto(d, step, known)
  PROVE  Only(d) /\ pc'[d] = step /\ mem'[d] = known /\ answer'[d] = answer[d]
BY DEF TypeOK, Goto, Only

\* And where it ends.
LEMMA EndsOver ==
  ASSUME TypeOK, NEW d \in Dialog, NEW what, Ends(d, what)
  PROVE  Only(d) /\ pc'[d] = "over" /\ answer'[d] = what
BY DEF TypeOK, Ends, Only

\* The step of a dialog that is alone, unless it crosses another.
LEMMA AloneKeepsRest ==
  ASSUME NEW d \in Dialog, Only(d), ~crossed' => Alone(d) /\ Retires(d)'
  PROVE  Rest'
<1>. SUFFICES ASSUME ~crossed', NEW e \in Dialog
              PROVE  Retires(e)' /\ (AtWork(e)' => Alone(e)')
  BY DEF Rest
<1>1. CASE e = d
  BY <1>1 DEF Alone, AtWork, Only
<1>2. CASE e # d
  <2>1. ~AtWork(e) /\ pc'[e] = pc[e]
    BY <1>2 DEF Alone, Only
  <2>. QED  BY <2>1 DEF AtWork, SettleStep, Retires, Retiring
<1>. QED  BY <1>1, <1>2

\* The same for a dialog whose call is under way: nobody else's is.
LEMMA WorkKeepsRest ==
  ASSUME Rest, NEW d \in Dialog, AtWork(d), Only(d),
         crossed' = crossed, ~crossed => Retires(d)'
  PROVE  Rest'
BY AloneKeepsRest DEF Rest

\* Neither going well nor a fault is a crossing.
LEMMA FineFaultCrossed ==
  ASSUME Fine \/ \E kind \in FaultKind : Fault(kind)
  PROVE  crossed' = crossed
BY DEF Fine, history, Fault

\* The steps that do not retire anything, nor begin to.
LEMMA OthersKeepRest ==
  ASSUME Inv, Rest, NEW d \in Dialog,
         \/ Create(d) \/ DropNew(d) \/ ListRemoving(d) \/ RemoveKeys(d)
         \/ RemovePolicy(d) \/ RemoveUser(d) \/ Lost(d)
  PROVE  Rest' /\ PairsNobody
<1>. DEFINE Elsewhere == /\ AtWork(d) /\ Only(d) /\ crossed' = crossed
                         /\ pc'[d] \notin Retiring
                         /\ answer'[d] \in {answer[d]} \cup (Answers \ {"paired"})
<1>1. ASSUME Elsewhere PROVE Rest' /\ PairsNobody
  BY <1>1, WorkKeepsRest DEF Retires, Retiring, Only, PairsNobody
<1>2. TypeOK
  BY DEF Inv
<1>3. ASSUME AtWork(d), Fine \/ \E kind \in FaultKind : Fault(kind),
             \/ \E what \in Answers \ {"paired"} : Ends(d, what)
             \/ \E known, step : step \notin Retiring /\ Goto(d, step, known)
      PROVE  Elsewhere
  BY <1>2, <1>3, FineFaultCrossed, Goes, EndsOver DEF Retiring
<1>4. CASE Create(d)
  <2>1. CreateUser(d) => Elsewhere
    BY <1>3 DEF CreateUser, Call, AtWork, CreateStep, FaultKind, Retiring, Answers
  <2>2. PutUserPolicy(d) => Elsewhere
    BY <1>3 DEF PutUserPolicy, Call, AtWork, CreateStep, FaultKind, Retiring, Answers
  <2>3. MakeRoom(d) => Elsewhere
    BY <1>3 DEF MakeRoom, AtWork, CreateStep, FaultKind, Retiring, Answers
  <2>4. LookAtKey(d) => Elsewhere
    BY <1>3 DEF LookAtKey, AtWork, CreateStep, FaultKind, Retiring, Answers
  <2>5. Evict(d) => Elsewhere
    BY <1>3 DEF Evict, Call, AtWork, CreateStep, FaultKind, Retiring, Answers
  <2>6. CreateAccessKey(d) => Elsewhere
    BY <1>3 DEF CreateAccessKey, Call, AtWork, CreateStep, FaultKind, Retiring, Answers
  <2>7. Shown(d) => Elsewhere
    BY <1>3 DEF Shown, Fine, AtWork, CreateStep, Retiring, Answers
  <2>. QED  BY <1>1, <1>4, <2>1, <2>2, <2>3, <2>4, <2>5, <2>6, <2>7 DEF Create
<1>5. CASE DropNew(d) \/ ListRemoving(d) \/ Lost(d)
  <2>1. DropNew(d) => Elsewhere
    BY <1>3 DEF DropNew, Call, AtWork, SettleStep, FaultKind, Answers
  <2>2. ListRemoving(d) => Elsewhere
    BY <1>3 DEF ListRemoving, RemoveFirst, AtWork, SettleStep, FaultKind, Retiring, Answers
  <2>3. Lost(d) => Elsewhere
    BY <1>3 DEF Lost, FaultKind, Answers
  <2>. QED  BY <1>1, <1>5, <2>1, <2>2, <2>3
<1>6. CASE RemoveKeys(d) \/ RemovePolicy(d) \/ RemoveUser(d)
  <2>1. RemoveKeys(d) => Elsewhere
    BY <1>3 DEF RemoveKeys, Call, AtWork, SettleStep, FaultKind, Retiring, Answers
  <2>2. RemovePolicy(d) => Elsewhere
    BY <1>3 DEF RemovePolicy, Call, AtWork, SettleStep, FaultKind, Retiring, Answers
  <2>3. RemoveUser(d) => Elsewhere
    BY <1>3 DEF RemoveUser, Call, AtWork, SettleStep, FaultKind, Answers
  <2>. QED  BY <1>1, <1>6, <2>1, <2>2, <2>3
<1>. QED  BY <1>4, <1>5, <1>6

\* The steps to and through retiring.
LEMMA RetiringKeepsRest ==
  ASSUME Inv, Rest, NEW d \in Dialog,
         AskUsed(d) \/ AskOthers(d) \/ ListRetiring(d) \/ Retire(d)
  PROVE  Rest'
<1>1. TypeOK /\ (~crossed => Retires(d))
  BY DEF Inv, Rest
<1>2. CASE AskUsed(d)
  <2>1. AtWork(d) /\ crossed' = crossed
    BY <1>2, FineFaultCrossed DEF AskUsed, AtWork, SettleStep, FaultKind
  <2>2. Only(d) /\ Retires(d)'
    BY <1>1, <1>2, Goes, EndsOver DEF AskUsed, iam, Retires, Retiring
  <2>. QED  BY <2>1, <2>2, WorkKeepsRest
<1>3. CASE AskOthers(d)
  <2>1. AtWork(d) /\ crossed' = crossed
    BY <1>3, FineFaultCrossed DEF AskOthers, AtWork, SettleStep, FaultKind
  <2>2. Only(d) /\ (~crossed => Retires(d)')
    BY <1>1, <1>3, Goes, EndsOver
       DEF AskOthers, DecidePairing, iam, Retires, Retiring
  <2>. QED  BY <2>1, <2>2, WorkKeepsRest
<1>4. CASE ListRetiring(d)
  <2>1. AtWork(d) /\ crossed' = crossed
    BY <1>4, FineFaultCrossed DEF ListRetiring, AtWork, SettleStep, FaultKind
  <2>2. Listed(OtherKeys(d)).todo = keys \ {key[d]}
    BY DEF Listed, Blank, OtherKeys
  <2>3. Only(d) /\ (~crossed => Retires(d)')
    BY <1>1, <1>4, <2>2, Goes, EndsOver DEF ListRetiring, iam, Retires, Retiring
  <2>. QED  BY <2>1, <2>3, WorkKeepsRest
<1>5. CASE Retire(d)
  <2>1. AtWork(d)
    BY <1>5 DEF Retire, AtWork, SettleStep
  <2>2. CASE \E what : Ends(d, what) /\ (Fine \/ Fault("call"))
    <3>1. crossed' = crossed
      BY <2>2, FineFaultCrossed DEF FaultKind
    <3>2. Only(d) /\ Retires(d)'
      BY <1>1, <2>2, EndsOver DEF Retires, Retiring
    <3>. QED  BY <2>1, <3>1, <3>2, WorkKeepsRest
  <2>3. ASSUME NEW k \in mem[d].todo, DeleteKey(k),
               Goto(d, "retire", Without(mem[d], k)), Fine
        PROVE  Rest'
    <3>1. crossed' = crossed
      BY <2>3, FineFaultCrossed
    <3>2. Without(mem[d], k).todo = mem[d].todo \ {k}
      BY <1>1 DEF TypeOK, Without
    <3>3. Only(d) /\ pc'[d] = "retire" /\ mem'[d].todo = mem[d].todo \ {k}
      BY <1>1, <2>3, <3>2, Goes
    <3>4. keys' = keys \ {k} /\ key' = key /\ pc[d] = "retire"
      BY <1>5, <2>3 DEF DeleteKey, Retire
    <3>5. ~crossed => Retires(d)'
      BY <1>1, <2>3, <3>3, <3>4 DEF Retires, Retiring
    <3>. QED  BY <2>1, <3>1, <3>3, <3>5, WorkKeepsRest
  <2>. QED  BY <1>5, <2>2, <2>3 DEF Retire, Call
<1>. QED  BY <1>2, <1>3, <1>4, <1>5

\* A dialog that begins is alone, or crosses the others.
LEMMA BeginKeepsRest ==
  ASSUME Inv, Rest, NEW d \in Dialog,
         Open(d) \/ (Done(d) /\ Goto(d, "asked", Blank) /\ Begins(d))
  PROVE  Rest'
<1>1. Only(d) /\ pc'[d] \notin Retiring
  BY Goes DEF Inv, Open, Done, Retiring
<1>2. ~crossed' => Alone(d)
  BY DEF Open, Done, Begins, Alone
<1>3. Retires(d)'
  BY <1>1 DEF Retires, Retiring
<1>. QED  BY <1>1, <1>2, <1>3, AloneKeepsRest

\* A page that goes, and the phones, touch nothing a retiring dialog looks at.
LEMMA BystandersKeepRest ==
  ASSUME Inv, Rest,
         \/ \E d \in Dialog : Left(d) \/ Unrouted(d)
         \/ \E p \in Phone : Use(p) \/ \E d \in Dialog : Scan(p, d)
         \/ UNCHANGED vars
  PROVE  Rest'
<1>1. ~crossed' => ~crossed
  BY FineFaultCrossed DEF Left, Unrouted, FaultKind, Use, Scan, history, vars, Inv, TypeOK
<1>2. keys' = keys /\ key' = key
  BY DEF Left, Unrouted, Done, Use, Scan, vars, iam, dialogs
<1>3. \A e \in Dialog : \/ pc'[e] = "over"
                        \/ pc'[e] = pc[e] /\ mem'[e] = mem[e]
  BY EndsOver DEF Left, Unrouted, Done, Use, Scan, vars, dialogs, Only, Inv
<1>4. ASSUME NEW e \in Dialog, Retires(e) PROVE Retires(e)'
  BY <1>2, <1>3, <1>4 DEF Retires, Retiring
<1>5. ASSUME NEW e \in Dialog, AtWork(e)' PROVE AtWork(e)
  BY <1>3, <1>5 DEF AtWork, CreateStep, SettleStep
<1>. QED  BY <1>1, <1>4, <1>5 DEF Rest, Alone

\* Every step keeps it.
LEMMA StepRest == Inv /\ Rest /\ [Next]_vars => Rest'
<1>. SUFFICES ASSUME Inv, Rest, [Next]_vars PROVE Rest'
  OBVIOUS
<1>. QED  BY OthersKeepRest, RetiringKeepsRest, BeginKeepsRest, BystandersKeepRest,
             DoneEither DEF Next, Settle

\* Nobody is at work at first.
LEMMA InitRest == Init => Rest
BY DEF Init, Rest, Retires, Retiring, AtWork, CreateStep, SettleStep, Alone

\* Only Retire answers "paired", and only when nothing is left to retire.
LEMMA PairedLast ==
  ASSUME Inv, Rest, [Next]_vars, NEW d \in Dialog,
         answer[d] # "paired", answer'[d] = "paired", ~crossed
  PROVE  keys' = {key[d]}
<1>. DEFINE Asks(e) == AskUsed(e) \/ AskOthers(e) \/ ListRetiring(e)
<1>1. ~PairsNobody
  BY DEF PairsNobody
<1>2. ASSUME NEW e \in Dialog, \/ \E step, known : Goto(e, step, known)
                               \/ \E what \in Answers \ {"paired"} : Ends(e, what)
      PROVE  FALSE
  BY <1>1, <1>2, Goes, EndsOver DEF Inv, Only, PairsNobody
<1>3. ASSUME NEW e \in Dialog, Open(e) \/ Done(e) \/ Left(e) PROVE FALSE
  BY <1>2, <1>3 DEF Open, Done, Left, Answers
<1>4. ASSUME NEW e \in Dialog, Asks(e) PROVE FALSE
  BY <1>2, <1>4 DEF AskUsed, AskOthers, ListRetiring, Answers
<1>5. ASSUME UNCHANGED answer PROVE FALSE
  BY <1>1, <1>5 DEF PairsNobody
<1>6. PICK e \in Dialog : Retire(e)
  BY <1>1, <1>3, <1>4, <1>5, OthersKeepRest
     DEF Next, Settle, Use, Scan, vars, dialogs
<1>7. mem[e].todo = {} /\ Ends(e, "paired") /\ keys' = keys
  BY <1>2, <1>6 DEF Retire, Call, Answers, iam
<1>8. e = d
  BY <1>7, EndsOver DEF Inv, Only
<1>. QED  BY <1>6, <1>7, <1>8 DEF Rest, Retires, Retiring, Retire

\* Whatever earlier dialogs left behind and whatever failed: a dialog that
\* answers "paired" leaves its own key and no other, unless somebody crossed a
\* call (wizard/device.go:195-206).
THEOREM PairedLeavesOneKey == Spec => OneKeyAtRest
<1>1. Inv /\ Rest /\ [Next]_vars =>
        [\A d \in Dialog :
           answer[d] # "paired" /\ answer'[d] = "paired" /\ ~crossed =>
             keys' = {key[d]}]_vars
  BY PairedLast
<1>. QED  BY <1>1, Invariance, InitRest, StepRest, PTL DEF Spec, OneKeyAtRest
-----------------------------------------------------------------------------
(* The device stays in.  As long as nobody crosses a call, what a dialog has *)
(* listed and asked is how things are when it acts on it.                    *)

StillIn == used # {} => used \cap keys # {}

KnowsKeys(d) ==
  /\ pc[d] = "look" =>
       /\ mem[d].seen = keys /\ mem[d].todo \subseteq keys /\ ~HasRoom(keys)
       /\ mem[d].idle = (keys \ mem[d].todo) \ used
  /\ pc[d] = "evict" =>
       mem[d].seen = keys /\ mem[d].idle = keys \ used /\ ~HasRoom(keys)
  /\ pc[d] \in Retiring => key[d] \in used
  /\ pc[d] \in {"unused", "drop"} => key[d] \notin used
  /\ pc[d] \in {"removing", "keys"} => keys \cap used = {}

\* How things are, and how the dialog at work knows them.
Sure == ~crossed /\ ~doubted => StillIn /\ \A d \in Dialog : KnowsKeys(d)

\* The smaller-than relation on numbers, as a set of pairs.
Less == {n \in Nat \X Nat : n[1] < n[2]}

LEMMA LessIsWellFounded == IsWellFoundedOn(Less, Nat)
BY Zenon, NatLessThanWellFounded DEF OpToRel, Less

\* Which key is evicted: one of those it is chosen from.
LEMMA EvictsOne ==
  ASSUME NEW S \in SUBSET Key, S # {}
  PROVE  Min(S) \in S
<1>1. S \subseteq Nat
  BY DEF Key
<1>2. PICK k \in S : \A n \in S : ~ (<<n, k>> \in Less)
  BY <1>1, LessIsWellFounded, WFMin
<1>3. \A n \in S : ~ (n < k)
  BY <1>1, <1>2 DEF Less
<1>4. \A n \in S : k <= n
  BY <1>1, <1>3
<1>. QED  BY <1>4 DEF Min

\* A step of the dialog at work, or of one that begins alone: what the others
\* know does not matter, they are not at work.
LEMMA OwnKeepsSure ==
  ASSUME Rest, NEW d \in Dialog, Only(d), crossed => crossed', doubted => doubted',
         ~crossed' => AtWork(d) \/ Alone(d),
         ~crossed' /\ ~doubted' => StillIn' /\ KnowsKeys(d)'
  PROVE  Sure'
<1>. SUFFICES ASSUME ~crossed', ~doubted', NEW e \in Dialog \ {d}
              PROVE  KnowsKeys(e)'
  BY DEF Sure
<1>1. ~AtWork(e) /\ pc'[e] = pc[e]
  BY DEF Rest, Alone, Only
<1>2. pc'[e] \notin {"look", "evict", "unused", "drop", "removing", "keys"} \cup Retiring
  BY <1>1 DEF AtWork, CreateStep, SettleStep, Retiring
<1>. QED  BY <1>2 DEF KnowsKeys

\* Neither going well nor a fault takes a doubt back.
LEMMA FineFaultDoubted ==
  ASSUME Fine \/ \E kind \in FaultKind : Fault(kind)
  PROVE  crossed' = crossed /\ (doubted => doubted')
<1>1. doubted => doubted'
  BY Zenon DEF Fine, history, Fault
<1>. QED  BY <1>1, FineFaultCrossed

Knowing == {"look", "evict", "unused", "drop", "removing", "keys"} \cup Retiring

\* The dialog goes where nothing is known of the keys, or ends.
LEMMA UnknowingKeepsSure ==
  ASSUME TypeOK, Rest, Sure, NEW d \in Dialog, AtWork(d),
         Fine \/ \E kind \in FaultKind : Fault(kind),
         \/ \E what : Ends(d, what)
         \/ \E step, known : step \notin Knowing /\ Goto(d, step, known),
         ~crossed /\ ~doubted => StillIn'
  PROVE  Sure'
<1>1. Only(d) /\ pc'[d] \notin Knowing
  BY Goes, EndsOver DEF Knowing, Retiring
<1>2. crossed' = crossed /\ (doubted => doubted')
  BY FineFaultDoubted
<1>3. KnowsKeys(d)'
  BY <1>1 DEF KnowsKeys, Knowing
<1>. QED  BY <1>1, <1>2, <1>3, OwnKeepsSure

\* Nothing happens to the keys.
LEMMA SameKeys ==
  ASSUME Sure, UNCHANGED <<keys, used>>
  PROVE  ~crossed /\ ~doubted => StillIn'
BY DEF Sure, StillIn

\* The steps that change no key and know none.
LEMMA PlainKeepsSure ==
  ASSUME Inv, Rest, Sure, NEW d \in Dialog,
         \/ CreateUser(d) \/ PutUserPolicy(d) \/ Shown(d)
         \/ RemovePolicy(d) \/ RemoveUser(d) \/ Lost(d)
  PROVE  Sure'
<1>. DEFINE Plain == /\ AtWork(d) /\ UNCHANGED <<keys, used>>
                     /\ Fine \/ \E kind \in FaultKind : Fault(kind)
                     /\ \/ \E what : Ends(d, what)
                        \/ \E step, known : step \notin Knowing /\ Goto(d, step, known)
<1>1. Plain => Sure'
  BY SameKeys, UnknowingKeepsSure DEF Inv
<1>2. CreateUser(d) => Plain
  BY DEF CreateUser, Call, AtWork, CreateStep, FaultKind, Knowing, Retiring, phones
<1>3. PutUserPolicy(d) => Plain
  BY DEF PutUserPolicy, Call, AtWork, CreateStep, FaultKind, Knowing, Retiring, phones
<1>4. Shown(d) => Plain
  BY DEF Shown, Fine, AtWork, CreateStep, Knowing, Retiring, phones, iam
<1>5. RemovePolicy(d) => Plain
  BY DEF RemovePolicy, Call, AtWork, SettleStep, FaultKind, Knowing, Retiring, phones
<1>6. RemoveUser(d) => Plain
  BY DEF RemoveUser, Call, AtWork, SettleStep, FaultKind, phones
<1>7. Lost(d) => Plain
  BY DEF Lost, FaultKind, phones, iam
<1>. QED  BY <1>1, <1>2, <1>3, <1>4, <1>5, <1>6, <1>7

\* makeRoomForAKey: what it lists is what there is, and what it finds unused is
\* unused.
LEMMA LookingKeepsSure ==
  ASSUME Inv, Rest, Sure, NEW d \in Dialog, MakeRoom(d) \/ LookAtKey(d)
  PROVE  Sure'
<1>1. /\ AtWork(d) /\ UNCHANGED <<keys, used>>
      /\ Fine \/ \E kind \in FaultKind : Fault(kind)
  BY DEF MakeRoom, LookAtKey, AtWork, CreateStep, FaultKind, iam, phones
<1>2. TypeOK /\ (~crossed /\ ~doubted => KnowsKeys(d))
  BY DEF Inv, Sure
<1>3. ASSUME Only(d), ~crossed /\ ~doubted /\ ~doubted' => KnowsKeys(d)' PROVE Sure'
  BY <1>1, <1>3, SameKeys, FineFaultDoubted, OwnKeepsSure
<1>4. CASE MakeRoom(d)
  <2>1. CASE \/ Ends(d, "error")
             \/ Goto(d, "mint", Blank)
    BY <1>1, <1>2, <2>1, SameKeys, UnknowingKeepsSure DEF Knowing, Retiring
  <2>2. CASE /\ ~HasRoom(keys)
             /\ Goto(d, "look", [seen |-> keys, todo |-> keys, idle |-> {}])
    <3>1. /\ Only(d) /\ pc'[d] = "look"
          /\ mem'[d] = [seen |-> keys, todo |-> keys, idle |-> {}]
      BY <1>2, <2>2, Goes
    <3>2. KnowsKeys(d)'
      BY <1>1, <2>2, <3>1 DEF KnowsKeys, HasRoom, Retiring
    <3>. QED  BY <1>3, <3>1, <3>2
  <2>. QED  BY <1>4, <2>1, <2>2 DEF MakeRoom
<1>5. CASE LookAtKey(d)
  <2>1. CASE mem[d].todo = {} /\ Goto(d, "evict", mem[d])
    <3>1. Only(d) /\ pc'[d] = "evict" /\ mem'[d] = mem[d] /\ pc[d] = "look"
      BY <1>2, <1>5, <2>1, Goes DEF LookAtKey
    <3>2. ~crossed /\ ~doubted => KnowsKeys(d)'
      BY <1>1, <1>2, <2>1, <3>1 DEF KnowsKeys, HasRoom, Retiring
    <3>. QED  BY <1>3, <3>1, <3>2
  <2>2. ASSUME NEW k \in mem[d].todo,
               Goto(d, "look", [Without(mem[d], k) EXCEPT
                                  !.idle = @ \cup ({k} \cap (keys \ used))])
        PROVE  Sure'
    <3>1. /\ Only(d) /\ pc'[d] = "look" /\ pc[d] = "look"
          /\ mem'[d] = [Without(mem[d], k) EXCEPT
                                  !.idle = @ \cup ({k} \cap (keys \ used))]
      BY <1>2, <1>5, <2>2, Goes DEF LookAtKey
    <3>2. /\ mem'[d].seen = mem[d].seen /\ mem'[d].todo = mem[d].todo \ {k}
          /\ mem'[d].idle = mem[d].idle \cup ({k} \cap (keys \ used))
      BY <1>2, <3>1 DEF Without, TypeOK
    <3>3. ~crossed /\ ~doubted => KnowsKeys(d)'
      <4>. SUFFICES ASSUME ~crossed, ~doubted PROVE KnowsKeys(d)'
        OBVIOUS
      <4>1. /\ mem[d].seen = keys /\ mem[d].todo \subseteq keys /\ ~HasRoom(keys)
            /\ mem[d].idle = (keys \ mem[d].todo) \ used
        BY <1>2, <3>1 DEF KnowsKeys
      <4>2. /\ mem'[d].seen = keys /\ mem'[d].todo \subseteq keys
            /\ mem'[d].idle = (keys \ mem'[d].todo) \ used
        BY <3>2, <4>1
      <4>. QED  BY <1>1, <3>1, <4>1, <4>2 DEF KnowsKeys, HasRoom, Retiring
    <3>. QED  BY <1>3, <3>1, <3>3
  <2>3. ASSUME NEW k \in mem[d].todo, Goto(d, "look", Without(mem[d], k)), Fault("room")
        PROVE  Sure'
    <3>1. doubted'
      BY <2>3 DEF Fault
    <3>. QED  BY <3>1 DEF Sure
  <2>. QED  BY <1>5, <2>1, <2>2, <2>3 DEF LookAtKey
<1>. QED  BY <1>4, <1>5

\* It drops a key nobody uses, or one of two that are used.
LEMMA EvictKeepsSure ==
  ASSUME Inv, Rest, Sure, NEW d \in Dialog, Evict(d)
  PROVE  Sure'
<1>. DEFINE k == ToEvict(mem[d].idle, mem[d].seen)
<1>1. /\ AtWork(d) /\ used' = used
      /\ keys' = keys \/ keys' = keys \ {k}
      /\ Fine \/ \E kind \in FaultKind : Fault(kind)
      /\ \/ \E what : Ends(d, what)
         \/ \E step, known : step \notin Knowing /\ Goto(d, step, known)
  BY DEF Evict, Call, DeleteKey, AtWork, CreateStep, FaultKind, Knowing, Retiring,
         iam, phones
<1>2. ASSUME ~crossed, ~doubted PROVE StillIn'
  <2>1. /\ StillIn /\ mem[d].idle = keys \ used /\ mem[d].seen = keys
        /\ ~HasRoom(keys)
    BY <1>2 DEF Sure, KnowsKeys, Evict
  <2>2. keys \subseteq Key /\ IsFiniteSet(keys)
    <3>1. IsFiniteSet(Key)
      BY PairingAssumption, FS_Interval DEF Key
    <3>. QED  BY <3>1, FS_Subset DEF Inv, TypeOK
  <2>3. CASE keys \ used # {}
    <3>1. k \in keys \ used
      BY <2>1, <2>2, <2>3, EvictsOne DEF ToEvict
    <3>. QED  BY <1>1, <2>1, <3>1 DEF StillIn
  <2>4. CASE keys \ used = {}
    <3>1. keys \ {k} # {}
      <4>. SUFFICES ASSUME keys \subseteq {k} PROVE FALSE
        OBVIOUS
      <4>1. IsFiniteSet({k}) /\ Cardinality({k}) = 1
        BY FS_Singleton
      <4>2. Cardinality(keys) <= 1 /\ Cardinality(keys) \in Nat
        BY <2>2, <4>1, FS_Subset, FS_CardinalityType
      <4>. QED  BY <2>1, <4>2 DEF HasRoom
    <3>. QED  BY <1>1, <2>4, <3>1 DEF StillIn
  <2>. QED  BY <2>3, <2>4
<1>. QED  BY <1>1, <1>2, UnknowingKeepsSure DEF Inv

\* One more key, or none.
LEMMA MintKeepsSure ==
  ASSUME Inv, Rest, Sure, NEW d \in Dialog, CreateAccessKey(d)
  PROVE  Sure'
<1>1. /\ AtWork(d) /\ used' = used /\ keys \subseteq keys'
      /\ Fine \/ \E kind \in FaultKind : Fault(kind)
      /\ \/ \E what : Ends(d, what)
         \/ \E step, known : step \notin Knowing /\ Goto(d, step, known)
  BY DEF CreateAccessKey, Call, AtWork, CreateStep, FaultKind, Knowing, Retiring, phones
<1>2. ~crossed /\ ~doubted => StillIn'
  BY <1>1 DEF Sure, StillIn
<1>. QED  BY <1>1, <1>2, UnknowingKeepsSure DEF Inv

\* DeviceAbandon asks, decides and lists: what it was told is still so.
LEMMA AskingKeepsSure ==
  ASSUME Inv, Rest, Sure, NEW d \in Dialog,
         AskUsed(d) \/ AskOthers(d) \/ ListRetiring(d) \/ ListRemoving(d)
  PROVE  Sure'
<1>1. /\ AtWork(d) /\ UNCHANGED <<keys, used, key>>
      /\ Fine \/ \E kind \in FaultKind : Fault(kind)
  BY DEF AskUsed, AskOthers, ListRetiring, ListRemoving, AtWork, SettleStep,
         FaultKind, iam, phones
<1>2. TypeOK /\ (~crossed /\ ~doubted => KnowsKeys(d))
  BY DEF Inv, Sure
<1>3. ASSUME NEW step, NEW known, Goto(d, step, known), step \notin {"look", "evict"},
             ~crossed /\ ~doubted =>
               /\ step \in Retiring => key[d] \in used
               /\ step \in {"unused", "drop"} => key[d] \notin used
               /\ step \in {"removing", "keys"} => keys \cap used = {}
      PROVE  Sure'
  <2>1. Only(d) /\ pc'[d] = step
    BY <1>2, <1>3, Goes
  <2>2. ~crossed /\ ~doubted => KnowsKeys(d)'
    BY <1>1, <1>3, <2>1 DEF KnowsKeys
  <2>. QED  BY <1>1, <2>1, <2>2, SameKeys, FineFaultDoubted, OwnKeepsSure
<1>4. ASSUME NEW what, Ends(d, what) PROVE Sure'
  BY <1>1, <1>2, <1>4, SameKeys, UnknowingKeepsSure
<1>5. CASE AskUsed(d)
  BY <1>3, <1>4, <1>5 DEF AskUsed, Retiring
<1>6. CASE AskOthers(d)
  <2>1. CASE pc[d] = "used" /\ Goto(d, "retiring", Blank)
    BY <1>2, <1>3, <2>1 DEF KnowsKeys, Retiring
  <2>2. CASE pc[d] = "unused" /\ OtherKeys(d) = {} /\ Goto(d, "removing", Blank)
    BY <1>2, <1>3, <2>2 DEF KnowsKeys, Retiring, OtherKeys
  <2>3. CASE pc[d] = "unused" /\ Goto(d, "drop", Blank)
    BY <1>2, <1>3, <2>3 DEF KnowsKeys, Retiring
  <2>. QED  BY <1>4, <1>6, <2>1, <2>2, <2>3 DEF AskOthers, DecidePairing
<1>7. CASE ListRetiring(d)
  BY <1>2, <1>3, <1>4, <1>7 DEF ListRetiring, KnowsKeys, Retiring
<1>8. CASE ListRemoving(d)
  BY <1>2, <1>3, <1>4, <1>8 DEF ListRemoving, RemoveFirst, KnowsKeys, Retiring
<1>. QED  BY <1>5, <1>6, <1>7, <1>8

\* A key goes, and it is none the device needs: another one is in use, or this
\* one is not, or none ever was.
LEMMA DroppingKeepsSure ==
  ASSUME Inv, Rest, Sure, NEW d \in Dialog,
         Retire(d) \/ DropNew(d) \/ RemoveKeys(d)
  PROVE  Sure'
<1>1. /\ AtWork(d) /\ UNCHANGED <<used, key>>
      /\ Fine \/ \E kind \in FaultKind : Fault(kind)
  BY DEF Retire, DropNew, RemoveKeys, Call, AtWork, SettleStep, FaultKind, phones
<1>2. TypeOK /\ (~crossed /\ ~doubted => StillIn /\ KnowsKeys(d))
  BY DEF Inv, Sure
<1>3. ~crossed => Retires(d)
  BY DEF Rest
<1>4. ASSUME NEW step, NEW known, Goto(d, step, known) \/ \E what : Ends(d, what),
             step \in {"retire", "keys", "nopolicy"},
             ~crossed /\ ~doubted =>
               /\ StillIn'
               /\ step = "retire" => key[d] \in used
               /\ step = "keys" => keys' \cap used = {}
      PROVE  Sure'
  <2>1. CASE \E what : Ends(d, what)
    BY <1>1, <1>2, <1>4, <2>1, UnknowingKeepsSure
  <2>2. CASE Goto(d, step, known)
    <3>1. Only(d) /\ pc'[d] = step
      BY <1>2, <2>2, Goes
    <3>2. ~crossed /\ ~doubted => KnowsKeys(d)'
      BY <1>1, <1>4, <3>1 DEF KnowsKeys, Retiring
    <3>. QED  BY <1>1, <1>4, <3>1, <3>2, FineFaultDoubted, OwnKeepsSure
  <2>. QED  BY <1>4, <2>1, <2>2
<1>5. CASE Retire(d)
  <2>1. keys' = keys \/ \E k \in mem[d].todo : keys' = keys \ {k}
    BY <1>5 DEF Retire, Call, DeleteKey, iam
  <2>2. ~crossed /\ ~doubted => StillIn' /\ key[d] \in used
    BY <1>1, <1>2, <1>3, <1>5, <2>1 DEF Retire, StillIn, KnowsKeys, Retires, Retiring
  <2>3. (\E known : Goto(d, "retire", known)) \/ \E what : Ends(d, what)
    BY <1>5 DEF Retire, Call
  <2>. QED  BY <1>4, <2>2, <2>3
<1>6. CASE DropNew(d)
  <2>1. keys' = keys \/ keys' = keys \ {key[d]}
    BY <1>6 DEF DropNew, NewKey, Call, DeleteKey, iam
  <2>2. ~crossed /\ ~doubted => StillIn'
    BY <1>1, <1>2, <1>6, <2>1 DEF DropNew, StillIn, KnowsKeys
  <2>3. \E what : Ends(d, what)
    BY <1>6 DEF DropNew, Call
  <2>. QED  BY <1>1, <1>2, <2>2, <2>3, UnknowingKeepsSure
<1>7. CASE RemoveKeys(d)
  <2>1. keys' \subseteq keys
    BY <1>7 DEF RemoveKeys, Call, DeleteKey, iam
  <2>2. ~crossed /\ ~doubted => StillIn' /\ keys' \cap used = {}
    BY <1>1, <1>2, <1>7, <2>1 DEF RemoveKeys, StillIn, KnowsKeys
  <2>3. \/ \E known : Goto(d, "keys", known) \/ Goto(d, "nopolicy", known)
        \/ \E what : Ends(d, what)
    BY <1>7 DEF RemoveKeys, Call
  <2>. QED  BY <1>4, <2>2, <2>3
<1>. QED  BY <1>5, <1>6, <1>7

\* A dialog that begins knows nothing yet.
LEMMA BeginKeepsSure ==
  ASSUME Inv, Rest, Sure, NEW d \in Dialog,
         Open(d) \/ (Done(d) /\ Goto(d, "asked", Blank) /\ Begins(d))
  PROVE  Sure'
<1>1. Only(d) /\ pc'[d] \notin Knowing
  BY Goes DEF Inv, Open, Done, Knowing, Retiring
<1>2. /\ ~crossed' => ~crossed /\ Alone(d)
      /\ doubted' = doubted
  BY DEF Open, Done, Begins, Alone
<1>3. KnowsKeys(d)'
  BY <1>1 DEF KnowsKeys, Knowing
<1>4. ~crossed /\ ~doubted => StillIn'
  BY SameKeys DEF Open, Done, iam, phones
<1>. QED  BY <1>1, <1>2, <1>3, <1>4, OwnKeepsSure

\* A phone uses its key while nobody is at work, or crosses whoever is.
LEMMA UseKeepsSure ==
  ASSUME Sure, NEW p \in Phone, Use(p)
  PROVE  Sure'
<1>. SUFFICES ASSUME ~crossed', ~doubted' PROVE StillIn' /\ \A d \in Dialog : KnowsKeys(d)'
  BY DEF Sure
<1>1. StillIn'
  BY DEF Use, StillIn, iam
<1>2. \A d \in Dialog : ~AtWork(d) /\ pc'[d] = pc[d]
  BY DEF Use, dialogs
<1>3. \A d \in Dialog : pc'[d] \notin Knowing
  BY <1>2 DEF AtWork, CreateStep, SettleStep, Knowing, Retiring
<1>. QED  BY <1>1, <1>3 DEF KnowsKeys, Knowing

\* A page that goes, and a phone that reads a code, touch no key.
LEMMA OnlookersKeepSure ==
  ASSUME Inv, Sure,
         \/ \E d \in Dialog : Left(d) \/ Unrouted(d)
         \/ \E p \in Phone : \E d \in Dialog : Scan(p, d)
         \/ UNCHANGED vars
  PROVE  Sure'
<1>1. UNCHANGED <<keys, used, key>>
  BY DEF Left, Unrouted, Done, Scan, vars, iam, phones, dialogs
<1>2. crossed => crossed'
  BY Zenon DEF Left, Fault, Unrouted, Fine, Scan, vars, history
<1>3. doubted => doubted'
  BY Zenon DEF Left, Fault, Unrouted, Fine, Scan, vars, history
<1>4. \A e \in Dialog : \/ pc'[e] = "over"
                        \/ pc'[e] = pc[e] /\ mem'[e] = mem[e]
  BY EndsOver DEF Left, Unrouted, Done, Scan, vars, dialogs, Only, Inv
<1>5. ASSUME NEW e \in Dialog, KnowsKeys(e) PROVE KnowsKeys(e)'
  BY <1>1, <1>4, <1>5 DEF KnowsKeys, HasRoom, Retiring
<1>. QED  BY <1>1, <1>2, <1>3, <1>5 DEF Sure, StillIn

\* Every step keeps it.
LEMMA StepSure == Inv /\ Rest /\ Sure /\ [Next]_vars => Sure'
<1>. SUFFICES ASSUME Inv, Rest, Sure, [Next]_vars PROVE Sure'
  OBVIOUS
<1>1. ASSUME NEW d \in Dialog, Create(d) PROVE Sure'
  BY <1>1, PlainKeepsSure, LookingKeepsSure, EvictKeepsSure, MintKeepsSure DEF Create
<1>2. ASSUME NEW d \in Dialog, Settle(d) PROVE Sure'
  BY <1>2, PlainKeepsSure, AskingKeepsSure, DroppingKeepsSure DEF Settle
<1>3. ASSUME NEW d \in Dialog, Open(d) \/ Done(d) PROVE Sure'
  BY <1>3, DoneEither, BeginKeepsSure, OnlookersKeepSure
<1>4. ASSUME NEW d \in Dialog, Lost(d) \/ Left(d) PROVE Sure'
  BY <1>4, PlainKeepsSure, OnlookersKeepSure
<1>. QED  BY <1>1, <1>2, <1>3, <1>4, UseKeepsSure, OnlookersKeepSure DEF Next

\* A device that was paired has a used key, and no dialog knows anything yet.
LEMMA InitSure == Init => Sure
BY DEF Init, Sure, StillIn, KnowsKeys, Retiring

\* Once a phone has used its key, the device is never without a used key,
\* however many dialogs are opened, left, settled or fail, as long as nobody
\* crosses a call and Create is told about every key (awsx/devices.go,
\* makeRoomForAKey; wizard/device.go, DeviceAbandon).
THEOREM PhoneStaysIn == Spec => []DeviceStaysIn
<1>1. Sure => DeviceStaysIn
  BY DEF Sure, StillIn, DeviceStaysIn
<1>. QED  BY <1>1, Invariance, InitRest, StepRest, InitSure, StepSure, PTL DEF Spec

=============================================================================
