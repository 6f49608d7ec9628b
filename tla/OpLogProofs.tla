----------------------------- MODULE OpLogProofs -----------------------------
(* Theorems about OpLog, for any number of machines, goroutines, changes.  *)
EXTENDS OpLogInv, TLAPS, FiniteSetTheorems

-----------------------------------------------------------------------------
(* Type correctness.                                                       *)

(* The helpers of Mutate, Save and Load are expanded wherever they occur. *)
USE DEF Newer, Reapply, PutBack, Flush, Fault, Fine

LEMMA NamesFinite ==
  ASSUME NEW S \in SUBSET Name
  PROVE  Cardinality(S) \in Nat
<1>1. IsFiniteSet(Name)
  BY OpLogAssumption, FS_Interval DEF Name
<1>. QED  BY <1>1, FS_Subset, FS_CardinalityType

LEMMA InitType == Init => TypeOK
BY OpLogAssumption DEF Init, TypeOK, NoShot, Shot, Doc, Step, Loading, Name

\* TypeOK in two parts: the variables of the code, and the excuses and bounds.
CodeType ==
  /\ snap \in Shot /\ objs \in [Name -> Doc] /\ stamps \subseteq Name
  /\ local \in [Machine -> Doc]
  /\ status \in [Machine -> {"down", "starting", "up"}]
  /\ data \in [Machine -> Doc] /\ pending \in [Machine -> Doc]
  /\ openOps \in [Machine -> Nat] /\ defers \in [Machine -> Int]
  /\ remoteOK \in [Machine -> BOOLEAN] /\ dirty \in [Machine -> BOOLEAN]
  /\ pc \in [Thread -> Step] /\ inBatch \in [Thread -> BOOLEAN]
  /\ ask \in [Thread -> Doc] /\ flight \in [Thread -> Doc]
  /\ name \in [Thread -> Nat] /\ lupto \in [Thread -> Nat]
  /\ base \in [Thread -> Doc] /\ open \in [Thread -> SUBSET Name]
  /\ shot \in [Thread -> Shot]
  /\ made \in [Machine -> Doc] /\ acked \in Doc /\ known \in [Thread -> Doc]

ExcuseType ==
  behind \in [Thread -> BOOLEAN] /\ struck \in Doc /\ entrusted \in Doc /\ spent \in Nat

LEMMA TypeParts == TypeOK <=> CodeType /\ ExcuseType
BY DEF TypeOK, CodeType, ExcuseType

LEMMA ViewType == CodeType => View \in Doc /\ \A s \in Shot : Seen(s) \in Doc
BY DEF CodeType, Shot, Doc, View, Seen

\* The steps that touch the excuses, and what they do to them.
LEMMA ExcuseSteps ==
  ASSUME NEW t \in Thread, Steps(t)
  PROVE  \/ BatchEnd(t) \/ SaveDeferred(t) \/ SaveTake(t)
         \/ PutLands(t) \/ PutFails(t)
         \/ LoadBase(t) \/ LoadList(t) \/ LoadFetch(t) \/ Install(t)
         \/ SnapPut(t) \/ SnapPutFails(t) \/ GcDone(t)
         \/ \E n \in Name : GcDelete(t, n)
         \/ UNCHANGED excuses
BY DEF Steps, Mutate, BatchBegin, SaveNothing, Saved, Refresh, Clone, Start

LEMMA ExcuseStepType ==
  ASSUME CodeType, ExcuseType, NEW t \in Thread, Steps(t)
  PROVE  ExcuseType'
<1>. USE DEF ExcuseType, Doc
<1>. DEFINE Three == behind' \in [Thread -> BOOLEAN] /\ struck' \in Doc /\ entrusted' \in Doc
<1>0. View \in Doc /\ shot[t] \in Shot /\ flight[t] \in Doc /\ ask[t] \in Doc
        /\ pending[Host[t]] \in Doc /\ \A n \in Name : objs[n] \in Doc
  BY ViewType, OpLogAssumption DEF CodeType
<1>1. spent' \in Nat
  <2>1. \/ SaveTake(t) \/ PutFails(t) \/ LoadBase(t) \/ LoadList(t) \/ LoadFetch(t)
        \/ SnapPutFails(t) \/ \E n \in Name : GcDelete(t, n)
        \/ UNCHANGED spent
    BY DEF Steps, Mutate, BatchBegin, BatchEnd, SaveDeferred, SaveNothing, PutLands, Saved,
       Refresh, Install, Clone, SnapPut, GcDone, Start
  <2>2. SaveTake(t) \/ LoadBase(t) \/ LoadList(t) \/ LoadFetch(t) => spent' \in Nat
    BY DEF SaveTake, LoadBase, LoadList, LoadFetch
  <2>3. PutFails(t) \/ SnapPutFails(t) => Fault("put")
    BY DEF PutFails, SnapPutFails
  <2>4. ASSUME NEW n \in Name, GcDelete(t, n) PROVE spent' \in Nat
    BY <2>4 DEF GcDelete
  <2>. QED  BY <2>1, <2>2, <2>3, <2>4
<1>. SUFFICES Three
  BY <1>1
<1>2. ASSUME Arrives(t) PROVE Three
  BY <1>0, <1>2 DEF Arrives
<1>3. ASSUME NEW own \in BOOLEAN, Overwrites(t, own) PROVE Three
  BY <1>0, <1>3 DEF Overwrites
<1>4. CASE BatchEnd(t) \/ SaveDeferred(t) \/ SaveTake(t)
  BY <1>0, <1>4 DEF BatchEnd, SaveDeferred, SaveTake
<1>5. CASE PutLands(t) \/ PutFails(t)
  BY <1>2, <1>5 DEF PutLands, PutFails, excuses
<1>6. CASE LoadBase(t) \/ LoadList(t) \/ LoadFetch(t)
  <2>1. UNCHANGED <<struck, entrusted>>
    BY <1>6 DEF LoadBase, LoadList, LoadFetch
  <2>2. CASE LoadBase(t) \/ LoadList(t)
    BY <2>1, <2>2 DEF LoadBase, LoadList
  <2>3. CASE LoadFetch(t)
    <3>1. PICK got \in SUBSET open[t] :
            behind' = [behind EXCEPT ![t] = @ \/ got # open[t]]
      BY <2>3 DEF LoadFetch
    <3>2. (behind[t] \/ got # open[t]) \in BOOLEAN
      OBVIOUS
    <3>. QED  BY <2>1, <3>1, <3>2
  <2>. QED  BY <1>6, <2>2, <2>3
<1>7. CASE Install(t)
  BY <1>7 DEF Install
<1>8. CASE SnapPut(t) \/ SnapPutFails(t)
  <2>1. SnapPut(t) => Overwrites(t, behind[t])
    BY DEF SnapPut
  <2>2. SnapPutFails(t) => \/ Overwrites(t, FALSE)
                          \/ /\ behind' = [behind EXCEPT ![t] = FALSE]
                             /\ UNCHANGED <<struck, entrusted>>
    BY DEF SnapPutFails
  <2>3. behind[t] \in BOOLEAN
    OBVIOUS
  <2>. QED  BY <1>3, <1>8, <2>1, <2>2, <2>3
<1>9. CASE GcDone(t)
  BY <1>9 DEF GcDone
<1>12. ASSUME NEW n \in Name, GcDelete(t, n) PROVE Three
  <2>1. UNCHANGED <<behind, entrusted>> /\ struck' \in {struck, struck \cup (objs[n] \ snap.doc)}
    BY <1>12 DEF GcDelete
  <2>. QED  BY <1>0, <2>1
<1>. HIDE DEF Three
<1>11. CASE UNCHANGED excuses
  BY <1>11 DEF excuses, Three
<1>. QED  BY <1>4, <1>5, <1>6, <1>7, <1>8, <1>9, <1>11, <1>12, ExcuseSteps

\* The variables a returning or advancing goroutine changes.
ControlType ==
  /\ status \in [Machine -> {"down", "starting", "up"}]
  /\ pc \in [Thread -> Step]
  /\ ask \in [Thread -> Doc]
  /\ acked \in Doc
  /\ known \in [Thread -> Doc]

LEMMA ReturnType ==
  ASSUME CodeType, NEW t \in Thread, Return(t)
  PROVE  ControlType'
BY OpLogAssumption DEF CodeType, ControlType, Return, Doc, Step, Loading

LEMMA GotoType ==
  ASSUME CodeType, NEW t \in Thread, NEW step \in Step, Goto(t, step)
  PROVE  ControlType'
BY OpLogAssumption DEF CodeType, ControlType, Goto

LEMMA StepType ==
  ASSUME CodeType, NEW t \in Thread, Steps(t)
  PROVE  CodeType'
<1>. USE OpLogAssumption DEF CodeType, Doc, bucket, machine, thread, history
<1>a. ASSUME NEW s \in Step, Goto(t, s) PROVE ControlType'
  BY <1>a, GotoType
<1>b. Return(t) => ControlType'
  BY ReturnType
<1>1. ASSUME NEW c \in Change, Mutate(t, c) PROVE CodeType'
  BY <1>1 DEF Mutate, Step
<1>2. CASE BatchBegin(t)
  BY <1>2 DEF BatchBegin
<1>3. CASE BatchEnd(t)
  <2>1. ControlType'
    BY <1>3 DEF BatchEnd, ControlType, Step
  <2>. QED  BY <1>3, <2>1 DEF BatchEnd, ControlType
<1>4. CASE SaveDeferred(t)
  BY <1>4, <1>b DEF SaveDeferred, ControlType
<1>5. CASE SaveNothing(t)
  BY <1>5, <1>b DEF SaveNothing, ControlType
<1>6. CASE SaveTake(t)
  BY <1>6, <1>a DEF SaveTake, ControlType, Step, Name
<1>7. CASE PutLands(t)
  BY <1>7, <1>a DEF PutLands, Arrives, ControlType, Step
<1>8. CASE PutFails(t)
  BY <1>8 DEF PutFails, Arrives, excuses, Step
<1>9. CASE Saved(t)
  <2>1. ControlType'
    BY <1>9, <1>a, <1>b DEF Saved, Step, Loading
  <2>2. UNCHANGED <<bucket, local, data, pending, defers, inBatch, base, lupto,
                    open, shot, made>>
    BY <1>9 DEF Saved
  <2>3. /\ openOps' \in [Machine -> Nat]
        /\ remoteOK' \in [Machine -> BOOLEAN]
        /\ dirty' \in [Machine -> BOOLEAN]
        /\ flight' \in [Thread -> Doc]
        /\ name' \in [Thread -> Nat]
    BY <1>9 DEF Saved
  <2>. QED  BY <2>1, <2>2, <2>3 DEF ControlType
<1>10. CASE Refresh(t)
  BY <1>10, <1>a DEF Refresh, ControlType, Step, Loading
<1>11. CASE LoadBase(t)
  <2>0. /\ MergeMissing(snap.doc, local[Host[t]]) \in Doc
        /\ local[Host[t]] \in Doc
    BY DEF MergeMissing, Shot
  <2>1. base' \in [Thread -> Doc]
    BY <1>11, <2>0 DEF LoadBase
  <2>2. lupto' \in [Thread -> Nat]
    BY <1>11 DEF LoadBase, Shot
  <2>3. pc' \in [Thread -> Step] /\ known' \in [Thread -> Doc]
    BY <1>11 DEF LoadBase, Step, Loading
  <2>4. UNCHANGED <<bucket, machine, inBatch, ask, flight, name, open, shot,
                    made, acked>>
    BY <1>11 DEF LoadBase
  <2>. QED  BY <2>1, <2>2, <2>3, <2>4
<1>12. CASE LoadList(t)
  <2>1. ControlType'
    BY <1>12, <1>a DEF LoadList, Step, Loading
  <2>2. \E names \in SUBSET Name : open' = [open EXCEPT ![t] = names]
    BY <1>12 DEF LoadList
  <2>. QED  BY <1>12, <2>1, <2>2 DEF LoadList, ControlType
<1>13. CASE LoadFetch(t)
  <2>1. ControlType'
    BY <1>13, <1>a DEF LoadFetch, Step, Loading
  <2>2. base' \in [Thread -> Doc]
    <3>1. \A got \in SUBSET open[t] : base[t] \cup Ops(got) \in Doc
      BY DEF Ops
    <3>. QED  BY <1>13, <3>1 DEF LoadFetch
  <2>. QED  BY <1>13, <2>1, <2>2 DEF LoadFetch, ControlType
<1>14. CASE Install(t)
  <2>1. ControlType'
    BY <1>14, <1>a, <1>b DEF Install, Step
  <2>2. UNCHANGED <<bucket, local, pending, remoteOK, defers, dirty, inBatch,
                    flight, name, shot, made>>
    BY <1>14 DEF Install
  <2>3. openOps' \in [Machine -> Nat]
    BY <1>14, NamesFinite DEF Install
  <2>4. /\ data' \in [Machine -> Doc]
        /\ base' \in [Thread -> Doc]
        /\ lupto' \in [Thread -> Nat]
    BY <1>14 DEF Install
  <2>5. open' \in [Thread -> SUBSET Name]
    BY <1>14 DEF Install
  <2>. QED  BY <2>1, <2>2, <2>3, <2>4, <2>5 DEF ControlType
<1>15. CASE Clone(t)
  BY SMTT(30), <1>15, <1>a DEF Clone, Shot, Name, ControlType, Step
<1>16. CASE SnapPut(t)
  BY <1>16, <1>a DEF SnapPut, Overwrites, NoShot, Shot, ControlType, Step
<1>17. CASE SnapPutFails(t)
  <2>1. ControlType'
    BY <1>17, <1>b DEF SnapPutFails
  <2>2. snap' \in Shot
    <3>1. snap' = snap \/ snap' = shot[t]
      BY <1>17 DEF SnapPutFails, Overwrites
    <3>. QED  BY <3>1
  <2>. QED  BY <1>17, <2>1, <2>2 DEF SnapPutFails, ControlType, NoShot, Shot
<1>18. ASSUME NEW n \in Name, GcDelete(t, n) PROVE CodeType'
  BY <1>18 DEF GcDelete
<1>19. CASE GcDone(t)
  BY <1>19, <1>b DEF GcDone, ControlType
<1>20. CASE Start(t)
  BY <1>20 DEF Start, Step, Loading
<1>. QED
  BY <1>1, <1>2, <1>3, <1>4, <1>5, <1>6, <1>7, <1>8, <1>9, <1>10, <1>11,
     <1>12, <1>13, <1>14, <1>15, <1>16, <1>17, <1>18, <1>19, <1>20 DEF Steps

LEMMA CrashType ==
  ASSUME TypeOK, NEW m \in Machine, Crash(m)
  PROVE  TypeOK'
<1>. USE DEF Crash, CodeType, ExcuseType
<1>0. CodeType /\ ExcuseType
  BY TypeParts
<1>1. /\ status' \in [Machine -> {"down", "starting", "up"}]
      /\ data' \in [Machine -> Doc]
      /\ pending' \in [Machine -> Doc]
      /\ openOps' \in [Machine -> Nat]
      /\ remoteOK' \in [Machine -> BOOLEAN]
      /\ defers' \in [Machine -> Int]
      /\ dirty' \in [Machine -> BOOLEAN]
      /\ made' \in [Machine -> Doc]
  BY <1>0 DEF Doc
<1>2. pc' \in [Thread -> Step] /\ inBatch' \in [Thread -> BOOLEAN]
  BY <1>0 DEF Step
<1>3. /\ ask' \in [Thread -> Doc]
      /\ flight' \in [Thread -> Doc]
      /\ base' \in [Thread -> Doc]
      /\ known' \in [Thread -> Doc]
  BY <1>0 DEF Doc
<1>4. name' \in [Thread -> Nat] /\ lupto' \in [Thread -> Nat]
  BY <1>0
<1>5. open' \in [Thread -> SUBSET Name] /\ shot' \in [Thread -> Shot]
  BY <1>0 DEF NoShot, Shot, Doc
<1>6. UNCHANGED <<snap, objs, stamps, local, acked>>
  BY DEF bucket
<1>7. behind' \in [Thread -> BOOLEAN] /\ UNCHANGED <<struck, entrusted>>
  BY <1>0
<1>10. spent' \in Nat
  BY <1>0
<1>8. CodeType'
  BY ONLY <1>0, <1>1, <1>2, <1>3, <1>4, <1>5, <1>6 DEF CodeType
<1>9. ExcuseType'
  BY ONLY <1>0, <1>7, <1>10 DEF ExcuseType
<1>. QED  BY ONLY <1>8, <1>9 DEF TypeOK, CodeType, ExcuseType

\* Every variable keeps its type, whatever overlaps and whatever fails.
THEOREM TypeCorrect == Spec => []TypeOK
<1>1. ASSUME TypeOK, NEW t \in Thread, Steps(t) PROVE TypeOK'
  <2>1. CodeType /\ ExcuseType
    BY <1>1, TypeParts
  <2>2. CodeType' /\ ExcuseType'
    BY <1>1, <2>1, StepType, ExcuseStepType
  <2>3. TypeOK' <=> CodeType' /\ ExcuseType'
    BY DEF TypeOK, CodeType, ExcuseType
  <2>. QED  BY <2>2, <2>3
<1>2. TypeOK /\ UNCHANGED vars => TypeOK'
  BY DEF vars, bucket, machine, thread, history, excuses, TypeOK
<1>3. TypeOK /\ [Next]_vars => TypeOK'
  BY <1>1, <1>2, CrashType DEF Next
<1>. QED  BY InitType, <1>3, PTL DEF Spec

-----------------------------------------------------------------------------
(* A goroutine that is not behind has all that it replaces or deletes.     *)

\* The other goroutines while one of them takes a step: nothing of theirs
\* changes, and who is behind remains it.
LEMMA Others ==
  ASSUME TypeOK, NEW t \in Thread, Steps(t), NEW u \in Thread, u # t
  PROVE  /\ pc'[u] = pc[u] /\ inBatch'[u] = inBatch[u] /\ ask'[u] = ask[u]
         /\ flight'[u] = flight[u] /\ name'[u] = name[u] /\ base'[u] = base[u]
         /\ lupto'[u] = lupto[u] /\ open'[u] = open[u] /\ shot'[u] = shot[u]
         /\ known'[u] = known[u]
         /\ behind[u] => behind'[u]
<1>. USE DEF TypeOK
<1>. DEFINE Same == /\ pc'[u] = pc[u] /\ inBatch'[u] = inBatch[u] /\ ask'[u] = ask[u]
                   /\ known'[u] = known[u]
<1>1. Same
  <2>1. Return(t) \/ (\E s \in Step : Goto(t, s))
          => pc'[u] = pc[u] /\ ask'[u] = ask[u] /\ known'[u] = known[u]
    BY DEF Return, Goto
  <2>2. CASE \/ SaveDeferred(t) \/ SaveNothing(t) \/ SaveTake(t) \/ PutLands(t)
             \/ Saved(t) \/ Refresh(t)
    BY <2>1, <2>2 DEF SaveDeferred, SaveNothing, SaveTake, PutLands, Saved, Refresh, Step,
       Loading
  <2>3. CASE \/ LoadList(t) \/ LoadFetch(t) \/ Install(t) \/ Clone(t) \/ SnapPut(t)
             \/ SnapPutFails(t) \/ GcDone(t)
    BY <2>1, <2>3 DEF LoadList, LoadFetch, Install, Clone, SnapPut, SnapPutFails, GcDone,
       Step, Loading
  <2>4. CASE \/ \E c \in Change : Mutate(t, c)
             \/ BatchBegin(t) \/ BatchEnd(t) \/ PutFails(t) \/ LoadBase(t) \/ Start(t)
             \/ \E n \in Name : GcDelete(t, n)
    BY <2>4 DEF Mutate, BatchBegin, BatchEnd, PutFails, LoadBase, GcDelete, Start, history
  <2>. QED  BY <2>2, <2>3, <2>4 DEF Steps
<1>2. /\ flight'[u] = flight[u] /\ name'[u] = name[u] /\ base'[u] = base[u]
      /\ lupto'[u] = lupto[u] /\ open'[u] = open[u] /\ shot'[u] = shot[u]
  BY DEF Steps, Mutate, BatchBegin, BatchEnd,
     SaveDeferred, SaveNothing, SaveTake, PutLands, PutFails, Saved, Refresh,
     LoadBase, LoadList, LoadFetch, Install, Clone, SnapPut, SnapPutFails,
     GcDelete, GcDone, Start
<1>3. behind[u] => behind'[u]
  <2>1. Arrives(t) \/ (\E own \in BOOLEAN : Overwrites(t, own)) => (behind[u] => behind'[u])
    BY DEF Arrives, Overwrites
  <2>2. PutLands(t) \/ PutFails(t) => Arrives(t) \/ UNCHANGED behind
    BY DEF PutLands, PutFails, excuses
  <2>3. SnapPut(t) \/ SnapPutFails(t) =>
          \/ \E own \in BOOLEAN : Overwrites(t, own)
          \/ behind' = [behind EXCEPT ![t] = FALSE]
    BY DEF SnapPut, SnapPutFails
  <2>4. BatchEnd(t) \/ SaveDeferred(t) \/ SaveTake(t) \/ (\E n \in Name : GcDelete(t, n))
          => UNCHANGED behind
    BY DEF BatchEnd, SaveDeferred, SaveTake, GcDelete
  <2>5. LoadBase(t) \/ LoadList(t) \/ GcDone(t) => behind'[u] = behind[u]
    BY DEF LoadBase, LoadList, GcDone
  <2>6. LoadFetch(t) => behind'[u] = behind[u]
    BY DEF LoadFetch
  <2>7. Install(t) => (behind[u] => behind'[u])
    BY DEF Install
  <2>8. UNCHANGED excuses => behind'[u] = behind[u]
    BY DEF excuses
  <2>. QED  BY <2>1, <2>2, <2>3, <2>4, <2>5, <2>6, <2>7, <2>8, ExcuseSteps
<1>. QED  BY <1>1, <1>2, <1>3

\* What a step may do to the bucket: a write arrives, a snapshot arrives, an op
\* object goes.
Landing(t) ==
  /\ pc[t] = "put" /\ pc'[t] \in {"saved", "idle"}
  /\ Arrives(t) /\ UNCHANGED <<snap, stamps>>

Snapshot(t) ==
  /\ pc[t] = "snapput" /\ pc'[t] \in {"gc", "idle"}
  /\ \E own \in BOOLEAN : Overwrites(t, own) /\ (pc'[t] = "gc" => own = behind[t])
  /\ UNCHANGED <<objs, stamps>>

Deletion(t) ==
  /\ pc[t] = "gc" /\ UNCHANGED <<snap, stamps, pc, behind, entrusted>>
  /\ \E n \in open[t] :
       /\ objs' = [objs EXCEPT ![n] = {}]
       /\ struck' = IF behind[t] THEN struck \cup (objs[n] \ snap.doc) ELSE struck

\* The steps that touch the bucket.
LEMMA BucketSteps ==
  ASSUME NEW t \in Thread, Steps(t)
  PROVE  \/ SaveTake(t)
         \/ PutLands(t) \/ PutFails(t)
         \/ SnapPut(t) \/ SnapPutFails(t)
         \/ \E n \in Name : GcDelete(t, n)
         \/ UNCHANGED bucket
BY DEF Steps, Mutate, BatchBegin, BatchEnd, SaveDeferred, SaveNothing, Saved,
   Refresh, LoadBase, LoadList, LoadFetch, Install, Clone, GcDone, Start

LEMMA BucketChanges ==
  ASSUME TypeOK, NEW t \in Thread, Steps(t)
  PROVE  \/ Landing(t) /\ (PutLands(t) \/ PutFails(t))
         \/ Snapshot(t) /\ (SnapPut(t) \/ SnapPutFails(t))
         \/ Deletion(t) /\ \E n \in Name : GcDelete(t, n)
         \/ UNCHANGED <<snap, objs, struck>>
<1>. USE DEF TypeOK
<1>1. SaveTake(t) => UNCHANGED <<snap, objs, struck>>
  BY DEF SaveTake
<1>2. PutLands(t) => Landing(t)
  BY DEF PutLands, Landing, Goto
<1>3. PutFails(t) => Landing(t) \/ UNCHANGED <<snap, objs, struck>>
  BY DEF PutFails, Landing, excuses
<1>4. SnapPut(t) => Snapshot(t)
  BY DEF SnapPut, Snapshot, Goto
<1>5. SnapPutFails(t) => Snapshot(t) \/ UNCHANGED <<snap, objs, struck>>
  BY DEF SnapPutFails, Snapshot, Return
<1>6. ASSUME NEW n \in Name, GcDelete(t, n)
      PROVE  Deletion(t) \/ UNCHANGED <<snap, objs, struck>>
  BY <1>6 DEF GcDelete, Deletion
<1>7. UNCHANGED bucket => \/ UNCHANGED <<snap, objs, struck>>
                          \/ PutLands(t) \/ PutFails(t) \/ SnapPut(t) \/ SnapPutFails(t)
                          \/ \E n \in Name : GcDelete(t, n)
  BY ExcuseSteps DEF bucket, BatchEnd, SaveDeferred, SaveTake, LoadBase, LoadList,
     LoadFetch, Install, GcDone, excuses
<1>. QED  BY <1>1, <1>2, <1>3, <1>4, <1>5, <1>6, <1>7, BucketSteps

LEMMA NamedStep ==
  ASSUME TypeOK, Named, NEW t \in Thread, Steps(t)
  PROVE  Named'
<1>. USE DEF TypeOK, Named
<1>1. ASSUME NEW u \in Thread, pc'[u] = "put", u # t \/ ~SaveTake(t)
      PROVE  pc[u] = "put" /\ name'[u] = name[u]
  <2>1. CASE u # t
    BY <1>1, <2>1, Others
  <2>2. CASE u = t
    BY <1>1, <2>2 DEF Steps, Return, Goto, Mutate, BatchBegin, BatchEnd,
     SaveDeferred, SaveNothing, PutLands, PutFails, Saved, Refresh,
     LoadBase, LoadList, LoadFetch, Install, Clone, SnapPut, SnapPutFails,
     GcDelete, GcDone, Start
  <2>. QED  BY <2>1, <2>2
<1>2. ASSUME NEW u \in Thread PROVE open'[u] \subseteq open[u] \/ (u = t /\ LoadList(t))
  <2>1. CASE u # t
    BY <2>1, Others
  <2>2. CASE u = t
    BY <2>2 DEF Steps, Mutate, BatchBegin, BatchEnd,
     SaveDeferred, SaveNothing, SaveTake, PutLands, PutFails, Saved, Refresh,
     LoadBase, LoadFetch, Install, Clone, SnapPut, SnapPutFails,
     GcDelete, GcDone, Start, thread
  <2>. QED  BY <2>1, <2>2
<1>3. stamps \subseteq stamps' /\ (~SaveTake(t) => stamps' = stamps)
  BY BucketSteps DEF SaveTake, PutLands, PutFails, SnapPut, SnapPutFails, GcDelete, bucket
<1>4. CASE SaveTake(t)
  <2>1. PICK n \in Name : /\ n \notin stamps /\ name' = [name EXCEPT ![t] = n]
                          /\ stamps' = stamps \cup {n}
    BY <1>4 DEF SaveTake, FreshName
  <2>2. UNCHANGED <<objs, open>>
    BY <1>4 DEF SaveTake
  <2>3. objs[n] = {} /\ \A u \in Thread : n \notin open[u]
    BY <2>1
  <2>4. NamedBy(t)'
    BY <1>1, <2>1, <2>2, <2>3 DEF NamedBy
  <2>5. ASSUME NEW u \in Thread \ {t}, pc'[u] = "put"
        PROVE  NamedBy(u)'
    <3>1. pc[u] = "put" /\ name'[u] = name[u] /\ name[u] \in stamps
      BY <1>1, <2>5 DEF NamedBy
    <3>. QED  BY <1>1, <2>1, <2>2, <2>5, <3>1 DEF NamedBy
  <2>. QED  BY <1>3, <2>1, <2>2, <2>4, <2>5 DEF NamedBy
<1>5. CASE LoadList(t)
  <2>1. UNCHANGED bucket /\ open'[t] \subseteq {n \in Name : objs[n] # {}}
    BY <1>5 DEF LoadList
  <2>2. \A u \in Thread : pc'[u] = "put" => pc[u] = "put" /\ name'[u] = name[u]
    BY <1>1, <1>5 DEF LoadList, SaveTake
  <2>3. \A u \in Thread : open'[u] \subseteq open[u] \/ u = t
    BY <1>2
  <2>4. \A u \in Thread : NamedBy(u)'
    BY <2>1, <2>2, <2>3 DEF NamedBy, bucket
  <2>5. \A u \in Thread : open'[u] \subseteq stamps
    BY <2>1, <2>3
  <2>. QED  BY <2>1, <2>4, <2>5 DEF bucket
<1>6. CASE ~SaveTake(t) /\ ~LoadList(t)
  <2>1. \A u \in Thread : pc'[u] = "put" => pc[u] = "put" /\ name'[u] = name[u]
    BY <1>1, <1>6
  <2>2. \A u \in Thread : open'[u] \subseteq open[u]
    BY <1>2, <1>6
  <2>3. \A n \in Name : objs'[n] # {} => objs[n] # {} \/ (Landing(t) /\ n = name[t])
    BY BucketChanges DEF Snapshot, Deletion, Landing, Arrives
  <2>4. ASSUME NEW u \in Thread, pc'[u] = "put" PROVE NamedBy(u)'
    <3>1. pc[u] = "put" /\ NamedBy(u)
      BY <2>1, <2>4
    <3>2. Landing(t) => pc[t] = "put" /\ u # t
      BY <2>4 DEF Landing
    <3>3. Landing(t) => name[t] # name[u]
      BY <3>1, <3>2 DEF NamedBy
    <3>4. name[u] \in Name /\ objs'[name[u]] = {}
      BY <2>3, <3>1, <3>3 DEF NamedBy
    <3>. QED  BY <1>3, <1>6, <2>1, <2>2, <2>4, <3>1, <3>4 DEF NamedBy
  <2>5. \A n \in Name : objs'[n] # {} => n \in stamps'
    BY <1>3, <2>3 DEF Landing, NamedBy
  <2>. QED  BY <1>3, <2>2, <2>4, <2>5 DEF NamedBy
<1>. QED  BY <1>4, <1>5, <1>6

LEMMA RestedStep ==
  ASSUME TypeOK, Rested, NEW t \in Thread, Steps(t)
  PROVE  Rested'
<1>. USE OpLogAssumption DEF TypeOK, Rested, Busy
<1>1. /\ status'[Host[t]] # "down"
      /\ \A m \in Machine \ {Host[t]} : status'[m] = status[m]
  BY DEF Steps, Return, Goto, Mutate, BatchBegin, BatchEnd,
     SaveDeferred, SaveNothing, SaveTake, PutLands, PutFails, Saved, Refresh,
     LoadBase, LoadList, LoadFetch, Install, Clone, SnapPut, SnapPutFails,
     GcDelete, GcDone, Start, machine
<1>. QED  BY <1>1, Others

\* What is seen of the bucket, change by change.
LEMMA SeenIs ==
  ASSUME NEW s, NEW c
  PROVE  c \in Seen(s) <=> c \in s.doc \/ \E n \in Name : n > s.upto /\ c \in objs[n]
BY DEF Seen

LEMMA SeenIsThen ==
  ASSUME NEW c
  PROVE  c \in View' <=>
           c \in snap'.doc \/ \E n \in Name : n > snap'.upto /\ c \in objs'[n]
BY DEF View, Seen

\* A write that arrives is seen, or its name is one of the past.
LEMMA Lands ==
  ASSUME TypeOK, Named, NEW t \in Thread, Landing(t)
  PROVE  /\ View \subseteq View' /\ Safe \subseteq Safe' /\ struck \subseteq struck'
         /\ flight[t] \subseteq Safe'
         /\ struck' # struck => Late(t)
<1>. USE DEF TypeOK
<1>1. /\ name[t] \in Name /\ objs[name[t]] = {} /\ snap' = snap
      /\ objs' = [objs EXCEPT ![name[t]] = flight[t]]
      /\ struck' = IF Late(t) THEN struck \cup (flight[t] \ View) ELSE struck
  BY DEF Landing, Arrives, Named, NamedBy
<1>2. View \subseteq View'
  BY <1>1, SeenIs, SeenIsThen DEF View
<1>3. struck \subseteq struck' /\ (struck' # struck => Late(t))
  BY <1>1
<1>4. flight[t] \subseteq View' \cup struck'
  <2>1. CASE Late(t)
    BY <1>1, <1>2, <2>1
  <2>2. CASE ~Late(t)
    <3>1. name[t] > snap.upto
      BY <1>1, <2>2 DEF Late, Landing, Name, Shot
    <3>. QED  BY <1>1, <3>1, SeenIsThen
  <2>. QED  BY <2>1, <2>2
<1>. QED  BY <1>2, <1>3, <1>4 DEF Safe

\* A snapshot whose writer is not behind shows all that could be seen before.
LEMMA ShotHolds ==
  ASSUME TypeOK, Knowing, NEW t \in Thread, pc[t] = "snapput", ~behind[t]
  PROVE  /\ View \subseteq Seen(shot[t]) /\ snap.doc \subseteq shot[t].doc
         /\ snap.upto < shot[t].upto
<1>. USE DEF TypeOK
<1>1. KnowsBy(t) /\ MarkedBy(t)
  BY DEF Knowing
<1>2. /\ shot[t].upto \in open[t] /\ shot[t].upto \in Name
      /\ \A n \in open[t] : n <= shot[t].upto
      /\ Holds(t, shot[t].doc) /\ snap.doc \subseteq shot[t].doc /\ Closed(t)
  BY <1>1 DEF KnowsBy, MarkedBy
<1>3. snap.upto < shot[t].upto
  BY <1>2 DEF Closed, Shot, Name
<1>4. ASSUME NEW c \in View PROVE c \in Seen(shot[t])
  <2>1. CASE c \in snap.doc
    BY <1>2, <2>1, SeenIs
  <2>2. ASSUME NEW n \in Name, n > snap.upto, c \in objs[n] PROVE c \in Seen(shot[t])
    <3>1. CASE n > shot[t].upto
      BY <2>2, <3>1, SeenIs
    <3>2. CASE n = shot[t].upto
      <4>1. c \in Ops(open[t])
        BY <1>2, <2>2, <3>2 DEF Ops
      <4>. QED  BY <1>2, <4>1, SeenIs DEF Holds
    <3>3. CASE n < shot[t].upto
      <4>1. n \in open[t]
        BY <1>2, <2>2, <3>3 DEF Closed
      <4>2. c \in Ops(open[t])
        BY <2>2, <4>1 DEF Ops
      <4>. QED  BY <1>2, <4>2, SeenIs DEF Holds
    <3>. QED  BY <1>2, <3>1, <3>2, <3>3 DEF Name
  <2>. QED  BY <2>1, <2>2, SeenIs DEF View
<1>. QED  BY <1>2, <1>3, <1>4

LEMMA Snaps ==
  ASSUME TypeOK, Knowing, NEW t \in Thread, Snapshot(t)
  PROVE  /\ Safe \subseteq Safe' /\ struck \subseteq struck'
         /\ struck' # struck => behind[t]
         /\ ~behind[t] => View \subseteq View'
<1>1. /\ snap' = shot[t] /\ UNCHANGED objs /\ pc[t] = "snapput"
      /\ struck' = IF behind[t] THEN struck \cup (View \ Seen(shot[t])) ELSE struck
  BY DEF Snapshot, Overwrites
<1>2. View' = Seen(shot[t])
  BY <1>1 DEF View, Seen
<1>3. ~behind[t] => View \subseteq View'
  BY <1>1, <1>2, ShotHolds
<1>. QED  BY <1>1, <1>2, <1>3 DEF Safe

LEMMA Deletes ==
  ASSUME TypeOK, Knowing, NEW t \in Thread, Deletion(t)
  PROVE  /\ Safe \subseteq Safe' /\ struck \subseteq struck'
         /\ struck' # struck => behind[t]
         /\ \A n \in Name : objs'[n] = {} => objs[n] \subseteq snap.doc \cup struck'
<1>. USE DEF TypeOK
<1>1. PICK n \in open[t] :
        /\ objs' = [objs EXCEPT ![n] = {}]
        /\ struck' = IF behind[t] THEN struck \cup (objs[n] \ snap.doc) ELSE struck
  BY DEF Deletion
<1>2. UNCHANGED snap /\ pc[t] = "gc" /\ n \in Name
  BY DEF Deletion
<1>3. objs[n] \subseteq snap.doc \cup struck'
  <2>1. CASE behind[t]
    BY <1>1, <2>1
  <2>2. CASE ~behind[t]
    BY <1>2, <2>2 DEF Knowing, KnowsBy, Holds, Ops
  <2>. QED  BY <2>1, <2>2
<1>4. \A k \in Name : k # n => objs'[k] = objs[k]
  BY <1>1
<1>5. struck \subseteq struck' /\ (struck' # struck => behind[t])
  BY <1>1
<1>6. View \subseteq View' \cup struck'
  <2>. SUFFICES ASSUME NEW c \in View PROVE c \in View' \cup struck'
    OBVIOUS
  <2>1. c \in snap.doc \/ \E k \in Name : k > snap.upto /\ c \in objs[k]
    BY SeenIs DEF View
  <2>. QED  BY <1>2, <1>3, <1>4, <2>1, SeenIsThen
<1>. QED  BY <1>3, <1>4, <1>5, <1>6 DEF Safe

\* Nothing is lost but to a goroutine that was behind.
LEMMA SafeGrows ==
  ASSUME TypeOK, MergeInv, NEW t \in Thread, Steps(t)
  PROVE  /\ Safe \subseteq Safe' /\ struck \subseteq struck'
         /\ struck' # struck => behind[t] \/ Late(t)
<1>1. UNCHANGED <<snap, objs, struck>> => Safe' = Safe
  BY DEF Safe, View, Seen
<1>. QED  BY <1>1, BucketChanges, Lands, Snaps, Deletes DEF MergeInv

\* The bucket, seen by a goroutine that does not step: if it is not behind
\* afterwards, it still has all that it is about to replace or delete.
LEMMA KnowsOthers ==
  ASSUME TypeOK, MergeInv, NEW t \in Thread, Steps(t),
         NEW u \in Thread, u # t, ~behind'[u]
  PROVE  KnowsBy(u)'
<1>. USE OpLogAssumption DEF TypeOK
<1>1. /\ pc'[u] = pc[u] /\ base'[u] = base[u] /\ lupto'[u] = lupto[u]
      /\ open'[u] = open[u] /\ shot'[u] = shot[u]
  BY Others
<1>2. ~behind[u]
  BY Others
<1>3. KnowsBy(u) /\ MarkedBy(t) /\ (~behind[t] => KnowsBy(t))
  BY <1>2 DEF MergeInv, Knowing
<1>4. pc[u] = "clone" => data[Host[u]] \subseteq data'[Host[u]]
  <2>1. (\E c \in Change : Mutate(t, c)) => \A m \in Machine : data[m] \subseteq data'[m]
    BY DEF Mutate
  <2>2. Install(t) => (pc[u] = "clone" => Host[u] # Host[t])
    BY <1>2 DEF Install
  <2>3. Install(t) => \A m \in Machine : m # Host[t] => data'[m] = data[m]
    BY DEF Install
  <2>4. (\E c \in Change : Mutate(t, c)) \/ Install(t) \/ UNCHANGED data
    BY DEF Steps, BatchBegin, BatchEnd, SaveDeferred, SaveNothing, SaveTake, PutLands,
       PutFails, Saved, Refresh, LoadBase, LoadList, LoadFetch, Clone, SnapPut,
       SnapPutFails, GcDelete, GcDone, Start, machine
  <2>. QED  BY <2>1, <2>2, <2>3, <2>4
<1>5. CASE UNCHANGED <<snap, objs>>
  BY <1>1, <1>3, <1>4, <1>5 DEF KnowsBy, Base, Closed, Holds, Ops
<1>6. CASE Landing(t)
  <2>1. /\ UNCHANGED snap /\ objs' = [objs EXCEPT ![name[t]] = flight[t]]
        /\ pc[u] \in Merging => \A n \in open[u] : ~(name[t] < n)
    BY <1>6 DEF Landing, Arrives
  <2>2. name[t] \notin open[u]
    BY <1>6 DEF Landing, MergeInv, Named, NamedBy
  <2>3. Ops(open[u])' = Ops(open[u])
    BY <1>1, <2>1, <2>2 DEF Ops
  <2>4. pc[u] \in {"fetch", "install", "clone", "snapput"} => Closed(u)'
    BY <1>1, <1>3, <2>1 DEF KnowsBy, Closed, Merging
  <2>. QED  BY <1>1, <1>3, <1>4, <2>1, <2>3, <2>4 DEF KnowsBy, Base, Holds
<1>7. CASE Snapshot(t)
  <2>1. /\ snap' = shot[t] /\ UNCHANGED objs /\ pc[t] = "snapput"
        /\ pc[u] \notin Merging /\ (pc[u] = "gc" => ~behind[t])
    BY <1>2, <1>7 DEF Snapshot, Overwrites
  <2>2. CASE pc[u] # "gc"
    BY <1>1, <2>1, <2>2 DEF KnowsBy, Merging
  <2>3. CASE pc[u] = "gc"
    <3>1. snap.doc \subseteq shot[t].doc /\ snap.upto < shot[t].upto
      BY <2>1, <2>3, ShotHolds DEF MergeInv
    <3>2. Holds(u, snap.doc) /\ \A n \in open[u] : n <= snap.upto
      BY <1>3, <2>3 DEF KnowsBy
    <3>3. Holds(u, snap.doc)' /\ \A n \in open'[u] : n <= snap'.upto
      BY <1>1, <2>1, <3>1, <3>2 DEF Holds, Ops, Name, Shot
    <3>. QED  BY <1>1, <2>3, <3>3 DEF KnowsBy
  <2>. QED  BY <2>2, <2>3
<1>8. CASE Deletion(t)
  <2>1. UNCHANGED snap /\ \A n \in Name : objs'[n] = objs[n] \/ objs'[n] = {}
    BY <1>8 DEF Deletion
  <2>2. Ops(open[u])' \subseteq Ops(open[u])
    BY <1>1, <2>1 DEF Ops
  <2>3. Closed(u) => Closed(u)'
    BY <1>1, <2>1 DEF Closed
  <2>. QED  BY <1>1, <1>3, <1>4, <2>1, <2>2, <2>3 DEF KnowsBy, Base, Holds
<1>. QED  BY <1>5, <1>6, <1>7, <1>8, BucketChanges

\* A goroutine that is not behind after fetching has read all it listed.
LEMMA FetchedAll ==
  ASSUME TypeOK, NEW t \in Thread, LoadFetch(t), ~behind'[t]
  PROVE  ~behind[t] /\ base'[t] = base[t] \cup Ops(open[t])
<1>1. PICK got \in SUBSET open[t] :
        /\ base' = [base EXCEPT ![t] = @ \cup Ops(got)]
        /\ behind' = [behind EXCEPT ![t] = @ \/ got # open[t]]
  BY DEF LoadFetch
<1>2. behind'[t] <=> behind[t] \/ got # open[t]
  BY <1>1 DEF TypeOK
<1>. QED  BY <1>1, <1>2 DEF TypeOK

\* A goroutine that steps and is not behind: it takes note of all there is.
LEMMA KnowsSelf ==
  ASSUME TypeOK, MergeInv, NEW t \in Thread, Steps(t)
  PROVE  MarkedBy(t)' /\ (~behind'[t] => KnowsBy(t)')
<1>. USE OpLogAssumption DEF TypeOK
<1>. DEFINE Knows == MarkedBy(t)' /\ (~behind'[t] => KnowsBy(t)')
<1>a. ASSUME pc'[t] \in {"idle", "save", "put", "saved", "base"} PROVE Knows
  BY <1>a DEF MarkedBy, KnowsBy
<1>0. MarkedBy(t) /\ (~behind[t] => KnowsBy(t))
  BY DEF MergeInv, Knowing
<1>1. CASE \/ \E c \in Change : Mutate(t, c)
           \/ BatchBegin(t) \/ BatchEnd(t) \/ SaveDeferred(t) \/ SaveNothing(t)
           \/ SaveTake(t) \/ PutLands(t) \/ PutFails(t) \/ Saved(t) \/ Refresh(t)
           \/ SnapPutFails(t) \/ GcDone(t) \/ Start(t)
  <2>1. pc'[t] \in {"idle", "save", "put", "saved", "base"}
    BY <1>1 DEF Mutate, BatchBegin, BatchEnd, SaveDeferred, SaveNothing, SaveTake,
       PutLands, PutFails, Saved, Refresh, SnapPutFails, GcDone, Start, Return, Goto
  <2>. QED  BY <1>a, <2>1
<1>2. CASE LoadBase(t)
  <2>1. pc'[t] = "list" /\ snap' = snap
    BY <1>2 DEF LoadBase, bucket
  <2>2. ~behind'[t] => base'[t] = MergeMissing(snap.doc, local[Host[t]]) /\ lupto'[t] = snap.upto
    BY <1>2 DEF LoadBase
  <2>. QED  BY <2>1, <2>2 DEF MarkedBy, KnowsBy, Base, MergeMissing
<1>3. CASE LoadList(t)
  <2>1. /\ pc[t] = "list" /\ pc'[t] = "fetch" /\ UNCHANGED <<snap, objs>>
        /\ base'[t] = base[t] /\ lupto'[t] = lupto[t]
    BY <1>3 DEF LoadList, Goto, bucket
  <2>2. ~behind'[t] => /\ ~behind[t]
                       /\ open'[t] = {n \in Name : objs[n] # {} /\ n > lupto[t]}
    BY <1>3 DEF LoadList
  <2>3. ~behind'[t] => Base(t) /\ Base(t)' /\ Closed(t)'
    BY <1>0, <2>1, <2>2 DEF KnowsBy, Base, Closed
  <2>. QED  BY <2>1, <2>3 DEF MarkedBy, KnowsBy
<1>4. CASE LoadFetch(t)
  <2>1. /\ pc[t] = "fetch" /\ pc'[t] = "install" /\ UNCHANGED <<snap, objs>>
        /\ open'[t] = open[t] /\ lupto'[t] = lupto[t]
    BY <1>4 DEF LoadFetch, Goto, bucket
  <2>2. ~behind'[t] => ~behind[t] /\ base'[t] = base[t] \cup Ops(open[t])
    BY <1>4, FetchedAll
  <2>3. ~behind'[t] => Base(t)' /\ Closed(t)' /\ Holds(t, base[t])'
    BY <1>0, <2>1, <2>2 DEF KnowsBy, Base, Closed, Holds, Ops
  <2>. QED  BY <2>1, <2>3 DEF MarkedBy, KnowsBy
<1>5. CASE Install(t)
  <2>1. pc[t] = "install" /\ UNCHANGED <<snap, objs>>
        /\ pc'[t] \in {"idle", "clone"}
        /\ data'[Host[t]] = base[t] \cup pending[Host[t]]
    BY <1>5 DEF Install, Return, Goto, bucket
  <2>2. CASE pc'[t] = "clone"
    <3>1. open'[t] = open[t] /\ (~behind'[t] => ~behind[t])
      BY <1>5, <2>2 DEF Install, Return, Goto
    <3>2. ~behind'[t] => /\ Closed(t)' /\ Holds(t, data[Host[t]])'
                         /\ snap'.doc \subseteq data'[Host[t]]
      BY <1>0, <2>1, <3>1 DEF KnowsBy, Base, Closed, Holds, Ops
    <3>. QED  BY <2>2, <3>2 DEF MarkedBy, KnowsBy
  <2>. QED  BY <1>a, <2>1, <2>2
<1>6. CASE Clone(t)
  <2>1. /\ pc[t] = "clone" /\ pc'[t] = "snapput" /\ UNCHANGED <<snap, objs, behind>>
        /\ open'[t] = open[t]
    BY <1>6 DEF Clone, Goto, bucket, excuses
  <2>2. PICK last \in open[t] :
          /\ \A n \in open[t] : n <= last
          /\ shot'[t] = [doc |-> data[Host[t]], upto |-> last]
    BY <1>6 DEF Clone
  <2>3. MarkedBy(t)'
    BY <2>1, <2>2 DEF MarkedBy
  <2>4. ~behind[t] => /\ Closed(t)' /\ Holds(t, shot[t].doc)'
                      /\ snap'.doc \subseteq shot'[t].doc
    BY <1>0, <2>1, <2>2 DEF KnowsBy, Closed, Holds, Ops
  <2>. QED  BY <2>1, <2>3, <2>4 DEF KnowsBy
<1>7. CASE SnapPut(t)
  <2>1. /\ pc[t] = "snapput" /\ pc'[t] = "gc" /\ UNCHANGED objs /\ snap' = shot[t]
        /\ open'[t] = open[t] /\ behind'[t] = behind[t]
    BY <1>7 DEF SnapPut, Overwrites, Goto
  <2>2. ~behind[t] => /\ Holds(t, snap.doc)' /\ \A n \in open'[t] : n <= snap'.upto
    BY <1>0, <2>1 DEF KnowsBy, MarkedBy, Holds, Ops
  <2>. QED  BY <2>1, <2>2 DEF MarkedBy, KnowsBy
<1>8. ASSUME NEW n \in Name, GcDelete(t, n) PROVE Knows
  <2>1. /\ pc[t] = "gc" /\ pc'[t] = "gc" /\ UNCHANGED <<snap, behind>>
        /\ open'[t] \subseteq open[t] /\ \A k \in Name : objs'[k] \subseteq objs[k]
    BY <1>8 DEF GcDelete
  <2>2. Ops(open[t])' \subseteq Ops(open[t])
    BY <2>1 DEF Ops
  <2>. QED  BY <1>0, <2>1, <2>2 DEF MarkedBy, KnowsBy, Holds
<1>. QED  BY <1>1, <1>2, <1>3, <1>4, <1>5, <1>6, <1>7, <1>8 DEF Steps

LEMMA MergeStep ==
  ASSUME TypeOK, MergeInv, NEW t \in Thread, Steps(t)
  PROVE  MergeInv'
<1>1. ASSUME NEW u \in Thread, u # t PROVE MarkedBy(u)'
  BY <1>1, Others DEF MergeInv, Knowing, MarkedBy
<1>2. Knowing'
  BY <1>1, KnowsOthers, KnowsSelf DEF Knowing
<1>. QED  BY <1>2, NamedStep, RestedStep DEF MergeInv

\* A process that dies leaves nothing of its own behind.
LEMMA Gone ==
  ASSUME TypeOK, NEW m \in Machine, Crash(m)
  PROVE  /\ UNCHANGED <<snap, objs, stamps, struck, entrusted, acked>>
         /\ View' = View /\ Safe' = Safe
         /\ \A k \in Machine \ {m} : /\ status'[k] = status[k] /\ data'[k] = data[k]
                                     /\ pending'[k] = pending[k] /\ made'[k] = made[k]
         /\ status'[m] = "down" /\ made'[m] = {}
         /\ \A u \in Thread :
              IF Host[u] = m
              THEN /\ pc'[u] = "idle" /\ ~inBatch'[u] /\ ask'[u] = {} /\ flight'[u] = {}
                   /\ open'[u] = {} /\ known'[u] = {}
              ELSE /\ pc'[u] = pc[u] /\ inBatch'[u] = inBatch[u] /\ ask'[u] = ask[u]
                   /\ flight'[u] = flight[u] /\ name'[u] = name[u] /\ base'[u] = base[u]
                   /\ lupto'[u] = lupto[u] /\ open'[u] = open[u] /\ shot'[u] = shot[u]
                   /\ known'[u] = known[u] /\ behind'[u] = behind[u]
<1>. USE DEF TypeOK
<1>1. UNCHANGED <<snap, objs, stamps, struck, entrusted, acked>>
  BY DEF Crash, bucket
<1>2. View' = View /\ Safe' = Safe
  BY <1>1 DEF View, Seen, Safe
<1>3. /\ \A k \in Machine \ {m} : /\ status'[k] = status[k] /\ data'[k] = data[k]
                                  /\ pending'[k] = pending[k] /\ made'[k] = made[k]
      /\ status'[m] = "down" /\ made'[m] = {}
  BY DEF Crash
<1>4. ASSUME NEW u \in Thread, Host[u] = m
      PROVE  /\ pc'[u] = "idle" /\ ~inBatch'[u] /\ ask'[u] = {} /\ flight'[u] = {}
             /\ open'[u] = {} /\ known'[u] = {}
  BY <1>4 DEF Crash
<1>5. ASSUME NEW u \in Thread, Host[u] # m
      PROVE  /\ pc'[u] = pc[u] /\ inBatch'[u] = inBatch[u] /\ ask'[u] = ask[u]
             /\ flight'[u] = flight[u] /\ name'[u] = name[u] /\ base'[u] = base[u]
             /\ lupto'[u] = lupto[u] /\ open'[u] = open[u] /\ shot'[u] = shot[u]
             /\ known'[u] = known[u] /\ behind'[u] = behind[u]
  BY <1>5 DEF Crash
<1>. QED  BY <1>1, <1>2, <1>3, <1>4, <1>5

LEMMA MergeNext ==
  ASSUME TypeOK, MergeInv, [Next]_vars
  PROVE  MergeInv'
<1>. USE OpLogAssumption
<1>1. ASSUME NEW m \in Machine, Crash(m) PROVE MergeInv'
  <2>1. Rested'
    BY <1>1, Gone DEF MergeInv, Rested, Busy
  <2>2. Named'
    <3>1. \A u \in Thread : pc'[u] = "put" => pc[u] = "put" /\ name'[u] = name[u]
      BY <1>1, Gone
    <3>2. \A u \in Thread : open'[u] \subseteq open[u]
      BY <1>1, Gone
    <3>3. UNCHANGED <<objs, stamps>>
      BY <1>1, Gone
    <3>4. \A u \in Thread : NamedBy(u)'
      BY <3>1, <3>2, <3>3 DEF MergeInv, Named, NamedBy
    <3>. QED  BY <3>2, <3>3, <3>4 DEF MergeInv, Named
  <2>3. ASSUME NEW u \in Thread PROVE MarkedBy(u)' /\ (~behind'[u] => KnowsBy(u)')
    <3>1. CASE Host[u] = m
      BY <1>1, <3>1, Gone DEF MarkedBy, KnowsBy
    <3>2. CASE Host[u] # m
      <4>1. data'[Host[u]] = data[Host[u]]
        BY <1>1, <3>2, Gone
      <4>. QED
        BY <1>1, <3>2, <4>1, Gone
           DEF MergeInv, Knowing, MarkedBy, KnowsBy, Base, Closed, Holds, Ops
    <3>. QED  BY <3>1, <3>2
  <2>. QED  BY <2>1, <2>2, <2>3 DEF MergeInv, Knowing
<1>2. ASSUME UNCHANGED vars PROVE MergeInv'
  BY <1>2 DEF vars, bucket, machine, thread, excuses, MergeInv, Rested, Busy, Named, NamedBy,
     Knowing, MarkedBy, KnowsBy, Base, Closed, Holds, Ops
<1>. QED  BY <1>1, <1>2, MergeStep DEF Next

LEMMA MergeInit == Init => MergeInv
BY DEF Init, MergeInv, Rested, Busy, Named, NamedBy, Knowing, MarkedBy, KnowsBy

LEMMA MergeAlways == Spec => [](TypeOK /\ MergeInv)
BY MergeInit, MergeNext, TypeCorrect, PTL DEF Spec

\* Whatever overlaps and fails, clean-up takes an op object away only when the
\* snapshot reflects its changes, unless the goroutine that merged was behind.
THEOREM CleanupDeletesMerged == Spec => DeletedIsMerged
<1>. DEFINE Merged == \A n \in Name : objs'[n] = {} => objs[n] \subseteq snap.doc \cup struck'
<1>1. ASSUME TypeOK, MergeInv, Next PROVE Merged
  <2>1. UNCHANGED objs => Merged
    OBVIOUS
  <2>2. ASSUME NEW t \in Thread, Landing(t) PROVE Merged
    <3>1. objs[name[t]] = {} /\ objs' = [objs EXCEPT ![name[t]] = flight[t]]
      BY <1>1, <2>2 DEF Landing, Arrives, MergeInv, Named, NamedBy
    <3>. QED  BY <1>1, <3>1 DEF TypeOK
  <2>3. ASSUME NEW t \in Thread, Steps(t) PROVE Merged
    BY <1>1, <2>1, <2>2, <2>3, BucketChanges, Deletes DEF MergeInv, Snapshot
  <2>4. ASSUME NEW m \in Machine, Crash(m) PROVE Merged
    BY <2>1, <2>4 DEF Crash, bucket
  <2>. QED  BY <1>1, <2>3, <2>4 DEF Next
<1>2. TypeOK /\ MergeInv /\ [Next]_vars => [Merged]_vars
  BY <1>1
<1>. QED  BY <1>2, MergeAlways, PTL DEF Spec, DeletedIsMerged

\* Whatever overlaps and fails, a snapshot takes back a change or lowers the
\* watermark only if the goroutine that wrote it was behind.
THEOREM SnapshotsGrow == Spec => SnapshotGrows
<1>. DEFINE Grows == \/ snap.doc \subseteq snap'.doc /\ snap.upto <= snap'.upto
                     \/ \E t \in Thread : behind[t] /\ pc[t] = "snapput" /\ snap' = shot[t]
<1>1. ASSUME TypeOK, MergeInv, Next PROVE Grows
  <2>1. UNCHANGED snap => Grows
    BY <1>1 DEF TypeOK, Shot
  <2>2. ASSUME NEW t \in Thread, Snapshot(t) PROVE Grows
    <3>1. pc[t] = "snapput" /\ snap' = shot[t]
      BY <2>2 DEF Snapshot, Overwrites
    <3>2. CASE behind[t]
      BY <3>1, <3>2
    <3>3. CASE ~behind[t]
      <4>1. snap.doc \subseteq shot[t].doc /\ snap.upto < shot[t].upto
        BY <1>1, <3>1, <3>3, ShotHolds DEF MergeInv
      <4>2. snap.upto \in Nat /\ shot[t].upto \in Nat
        BY <1>1 DEF TypeOK, Shot
      <4>. QED  BY <3>1, <4>1, <4>2
    <3>. QED  BY <3>2, <3>3
  <2>3. ASSUME NEW t \in Thread, Steps(t) PROVE Grows
    BY <1>1, <2>1, <2>2, <2>3, BucketChanges DEF Landing, Deletion
  <2>4. ASSUME NEW m \in Machine, Crash(m) PROVE Grows
    BY <2>1, <2>4 DEF Crash, bucket
  <2>. QED  BY <1>1, <2>3, <2>4 DEF Next
<1>2. TypeOK /\ MergeInv /\ [Next]_vars => [Grows]_vars
  BY <1>1
<1>. QED  BY <1>2, MergeAlways, PTL DEF Spec, SnapshotGrows

-----------------------------------------------------------------------------
(* A running machine loses nothing.                                        *)

\* What becomes of a change made on machine m.
LostNowhere(m, c) ==
  \/ c \in Safe \cup pending[m]
  \/ \E t \in Thread : Host[t] = m /\ c \in flight[t]

LEMMA NothingLostIs ==
  NothingLost <=> \A m \in Machine : \A c \in made[m] : LostNowhere(m, c)
BY DEF NothingLost, LostNowhere, Safe

\* What a step does to what is waiting, in flight and made.
LEMMA Waiting ==
  ASSUME TypeOK, NEW t \in Thread, Steps(t)
  PROVE  \/ \E c \in Change : Mutate(t, c)
         \/ SaveTake(t) \/ PutFails(t) \/ Saved(t)
         \/ UNCHANGED <<pending, flight, made>>
BY DEF Steps, BatchBegin, BatchEnd, SaveDeferred, SaveNothing, PutLands, Refresh,
   LoadBase, LoadList, LoadFetch, Install, Clone, SnapPut, SnapPutFails,
   GcDelete, GcDone, Start, machine, thread, history

LEMMA KeptStep ==
  ASSUME TypeOK, MergeInv, Kept, NEW t \in Thread, Steps(t)
  PROVE  Kept'
<1>. USE OpLogAssumption DEF TypeOK, Doc
<1>0. Safe \subseteq Safe'
  BY SafeGrows
<1>1. \A m \in Machine : \A c \in made[m] : LostNowhere(m, c)
  BY NothingLostIs DEF Kept
<1>2. \A u \in Thread : KeptBy(u)
  BY DEF Kept
<1>3. \A u \in Thread \ {t} : KeptBy(u)'
  BY <1>0, <1>2, Others DEF KeptBy
<1>. DEFINE Nobody == \A m \in Machine : \A c \in made'[m] : LostNowhere(m, c)'
<1>. SUFFICES KeptBy(t)' /\ Nobody
  <2>1. Nobody => NothingLost'
    BY DEF NothingLost, LostNowhere, Safe
  <2>. QED  BY <1>3, <2>1 DEF Kept
<1>4. CASE UNCHANGED <<pending, flight, made>>
  <2>1. Nobody
    BY <1>0, <1>1, <1>4 DEF LostNowhere
  <2>2. CASE PutLands(t)
    <3>1. pc'[t] = "saved" /\ Landing(t)
      BY <2>2 DEF PutLands, Goto, Landing
    <3>. QED  BY <1>4, <2>1, <3>1, Lands DEF KeptBy, MergeInv
  <2>3. CASE ~PutLands(t) /\ ~PutFails(t)
    <3>1. pc'[t] = pc[t] \/ {pc[t], pc'[t]} \cap {"put", "saved"} = {} \/ pc[t] = "saved"
      BY <2>3 DEF Steps, Return, Goto, Mutate, BatchBegin, BatchEnd, SaveDeferred,
         SaveNothing, SaveTake, Saved, Refresh, LoadBase, LoadList, LoadFetch, Install,
         Clone, SnapPut, SnapPutFails, GcDelete, GcDone, Start, MergeInv, Rested, Busy
    <3>2. pc[t] = "saved" => Saved(t)
      BY <2>3 DEF Steps, Mutate, BatchBegin, BatchEnd, SaveDeferred,
         SaveNothing, SaveTake, Refresh, LoadBase, LoadList, LoadFetch, Install,
         Clone, SnapPut, SnapPutFails, GcDelete, GcDone, Start, MergeInv, Rested, Busy
    <3>3. Saved(t) => flight'[t] = {}
      BY DEF Saved
    <3>. QED  BY <1>0, <1>2, <1>4, <2>1, <3>1, <3>2, <3>3 DEF KeptBy
  <2>4. CASE PutFails(t)
    BY <1>4, <2>1, <2>4 DEF PutFails, KeptBy
  <2>. QED  BY <2>2, <2>3, <2>4
<1>5. ASSUME NEW c \in Change, Mutate(t, c) PROVE KeptBy(t)' /\ Nobody
  <2>1. KeptBy(t)'
    BY <1>2, <1>5 DEF Mutate, KeptBy
  <2>2. ASSUME NEW m \in Machine, NEW d \in made'[m] PROVE LostNowhere(m, d)'
    <3>1. d \in made[m] \/ (m = Host[t] /\ d = c)
      BY <1>5, <2>2 DEF Mutate
    <3>2. pending[m] \subseteq pending'[m] /\ (m = Host[t] => c \in pending'[m])
            /\ flight' = flight
      BY <1>5 DEF Mutate
    <3>. QED  BY <1>0, <1>1, <3>1, <3>2 DEF LostNowhere
  <2>. QED  BY <2>1, <2>2
<1>6. CASE SaveTake(t)
  <2>1. /\ flight' = [flight EXCEPT ![t] = pending[Host[t]]]
        /\ pending' = [pending EXCEPT ![Host[t]] = {}]
        /\ pc' = [pc EXCEPT ![t] = "put"] /\ pc[t] = "save"
        /\ UNCHANGED made
    BY <1>6 DEF SaveTake, Goto
  <2>2. KeptBy(t)' /\ flight[t] = {}
    BY <1>2, <2>1 DEF KeptBy
  <2>3. ASSUME NEW m \in Machine, NEW c \in made'[m] PROVE LostNowhere(m, c)'
    <3>1. LostNowhere(m, c)
      BY <1>1, <2>1, <2>3
    <3>2. ASSUME c \in pending[m], m = Host[t]
          PROVE  \E u \in Thread : Host[u] = m /\ c \in flight'[u]
      BY <2>1, <3>2
    <3>3. ASSUME NEW u \in Thread, Host[u] = m, c \in flight[u]
          PROVE  c \in flight'[u]
      BY <2>1, <2>2, <3>3
    <3>4. ASSUME c \in pending[m], m # Host[t] PROVE c \in pending'[m]
      BY <2>1, <3>4
    <3>. QED  BY <1>0, <3>1, <3>2, <3>3, <3>4 DEF LostNowhere
  <2>. QED  BY <2>2, <2>3
<1>7. CASE PutFails(t) \/ Saved(t)
  <2>1. /\ flight' = [flight EXCEPT ![t] = {}] /\ UNCHANGED made
        /\ \A m \in Machine : pending[m] \subseteq pending'[m]
    <3>1. CASE PutFails(t)
      BY <3>1 DEF PutFails, history
    <3>2. CASE Saved(t)
      BY <3>2 DEF Saved
    <3>. QED  BY <1>7, <3>1, <3>2
  <2>2. KeptBy(t)'
    BY <2>1, <1>7 DEF KeptBy
  <2>3. flight[t] \subseteq Safe' \cup pending'[Host[t]]
    <3>1. PutFails(t) => flight[t] \subseteq pending'[Host[t]]
      BY DEF PutFails
    <3>2. Saved(t) => flight[t] \subseteq Safe
      BY <1>2 DEF Saved, KeptBy
    <3>. QED  BY <1>0, <1>7, <3>1, <3>2
  <2>4. ASSUME NEW m \in Machine, NEW c \in made'[m] PROVE LostNowhere(m, c)'
    <3>1. LostNowhere(m, c)
      BY <1>1, <2>1, <2>4
    <3>2. ASSUME NEW u \in Thread, Host[u] = m, c \in flight[u]
          PROVE  LostNowhere(m, c)'
      BY <2>1, <2>3, <3>2 DEF LostNowhere
    <3>. QED  BY <1>0, <2>1, <3>1, <3>2 DEF LostNowhere
  <2>. QED  BY <2>2, <2>4
<1>. QED  BY <1>4, <1>5, <1>6, <1>7, Waiting

LEMMA KeptNext ==
  ASSUME TypeOK, MergeInv, Kept, [Next]_vars
  PROVE  Kept'
<1>. USE OpLogAssumption DEF Kept
<1>1. ASSUME NEW m \in Machine, Crash(m) PROVE Kept'
  <2>1. \A u \in Thread : KeptBy(u)'
    BY <1>1, Gone DEF KeptBy
  <2>2. \A k \in Machine : \A c \in made[k] : LostNowhere(k, c)
    BY NothingLostIs
  <2>3. ASSUME NEW k \in Machine, NEW c \in made'[k] PROVE LostNowhere(k, c)'
    <3>1. k # m /\ LostNowhere(k, c)
      BY <1>1, <2>2, <2>3, Gone
    <3>. QED  BY <1>1, <3>1, Gone DEF LostNowhere
  <2>4. NothingLost'
    BY <2>3 DEF NothingLost, LostNowhere, Safe
  <2>. QED  BY <2>1, <2>4
<1>2. UNCHANGED vars => Kept'
  BY DEF vars, bucket, machine, thread, history, excuses, NothingLost, KeptBy, Safe, View, Seen
<1>. QED  BY <1>1, <1>2, KeptStep DEF Next

LEMMA KeptInit == Init => Kept
BY OpLogAssumption DEF Init, Kept, NothingLost, KeptBy

\* What a running machine was asked to change is written, being written or waiting
\* to be, in any interleaving of goroutines and machines and with every fault: a
\* write that fails, a merge and a load lose nothing but to a goroutine that was
\* behind.
THEOREM RunningLosesNothing == Spec => []NothingLost
<1>1. Kept => NothingLost
  BY DEF Kept
<1>2. TypeOK /\ MergeInv /\ Kept /\ [Next]_vars => Kept'
  BY KeptNext
<1>. QED  BY <1>1, <1>2, KeptInit, MergeAlways, PTL DEF Spec

-----------------------------------------------------------------------------
(* What was acknowledged is written, or on its way.                        *)

\* Whoever waits for a change keeps waiting, is told that it is written, or that
\* it is not.
LEMMA AskSteps ==
  ASSUME NEW t \in Thread, Steps(t)
  PROVE  \/ (\E c \in Change : Mutate(t, c)) /\ UNCHANGED acked
         \/ UNCHANGED <<ask, acked, made>>
         \/ /\ ask' = [ask EXCEPT ![t] = {}] /\ UNCHANGED made
            /\ acked' = acked \cup ask[t] \/ UNCHANGED acked
<1>. DEFINE Done == \/ UNCHANGED <<ask, acked, made>>
                   \/ /\ ask' = [ask EXCEPT ![t] = {}] /\ UNCHANGED made
                      /\ acked' = acked \cup ask[t]
<1>1. Return(t) /\ UNCHANGED made => Done
  BY DEF Return
<1>2. (\E s \in Step : Goto(t, s)) /\ UNCHANGED made => Done
  BY DEF Goto
<1>. HIDE DEF Done
<1>3. SaveDeferred(t) \/ SaveNothing(t) \/ SaveTake(t) \/ PutLands(t) \/ Saved(t)
        => Done
  BY <1>1, <1>2 DEF SaveDeferred, SaveNothing, SaveTake, PutLands, Saved, Step, Loading
<1>4. Refresh(t) \/ LoadList(t) \/ LoadFetch(t) \/ Install(t) \/ Clone(t)
        \/ SnapPut(t) \/ SnapPutFails(t) \/ GcDone(t)
        => Done
  BY <1>1, <1>2 DEF Refresh, LoadList, LoadFetch, Install, Clone, SnapPut, SnapPutFails,
     GcDone, Step, Loading, history
<1>5. BatchBegin(t) \/ BatchEnd(t) \/ LoadBase(t) \/ Start(t)
        \/ (\E n \in Name : GcDelete(t, n))
        => Done
  BY DEF Done, BatchBegin, BatchEnd, LoadBase, Start, GcDelete, history
<1>6. PutFails(t) => ask' = [ask EXCEPT ![t] = {}] /\ UNCHANGED <<made, acked>>
  BY DEF PutFails, history
<1>7. ASSUME NEW c \in Change, Mutate(t, c) PROVE UNCHANGED acked
  BY <1>7 DEF Mutate
<1>8. Done \/ PutFails(t) \/ \E c \in Change : Mutate(t, c)
  BY <1>3, <1>4, <1>5 DEF Steps
<1>9. CASE Done
  BY <1>9 DEF Done
<1>. QED  BY <1>6, <1>7, <1>8, <1>9

LEMMA OwnedStep ==
  ASSUME TypeOK, Owned, NEW t \in Thread, Steps(t)
  PROVE  Owned'
<1>. USE OpLogAssumption DEF TypeOK, Doc, Owned
<1>1. ASSUME NEW c \in Change, Mutate(t, c), UNCHANGED acked PROVE Owned'
  <2>1. /\ ask' = [ask EXCEPT ![t] = @ \cup {c}]
        /\ made' = [made EXCEPT ![Host[t]] = @ \cup {c}]
        /\ c \notin acked /\ \A m \in Machine : c \notin made[m]
    BY <1>1 DEF Mutate
  <2>2. \A u \in Thread : c \notin ask[u]
    BY <2>1 DEF OwnedBy
  <2>3. ASSUME NEW u \in Thread PROVE OwnedBy(u)'
    <3>1. OwnedBy(u)
      OBVIOUS
    <3>2. ask'[u] \subseteq made'[Host[u]]
      BY <2>1, <3>1 DEF OwnedBy
    <3>3. ask'[u] \cap acked' = {}
      BY <1>1, <2>1, <3>1 DEF OwnedBy
    <3>4. ASSUME NEW w \in Thread \ {u} PROVE ask'[u] \cap ask'[w] = {}
      BY <2>1, <2>2, <3>1 DEF OwnedBy
    <3>. QED  BY <3>2, <3>3, <3>4 DEF OwnedBy
  <2>. QED  BY <2>3
<1>2. CASE UNCHANGED <<ask, acked, made>>
  BY <1>2 DEF OwnedBy
<1>3. CASE /\ ask' = [ask EXCEPT ![t] = {}] /\ UNCHANGED made
           /\ acked' = acked \cup ask[t] \/ UNCHANGED acked
  <2>1. ASSUME NEW u \in Thread PROVE OwnedBy(u)'
    <3>1. CASE u = t
      BY <1>3, <3>1 DEF OwnedBy
    <3>2. CASE u # t
      <4>1. ask'[u] = ask[u] /\ ask[u] \cap ask[t] = {} /\ OwnedBy(u)
        BY <1>3, <3>2 DEF OwnedBy
      <4>. QED  BY <1>3, <4>1 DEF OwnedBy
    <3>. QED  BY <3>1, <3>2
  <2>. QED  BY <2>1
<1>. QED  BY <1>1, <1>2, <1>3, AskSteps

LEMMA OwnedNext ==
  ASSUME TypeOK, Owned, [Next]_vars
  PROVE  Owned'
<1>. USE OpLogAssumption DEF Owned
<1>1. ASSUME NEW m \in Machine, Crash(m) PROVE Owned'
  <2>1. ASSUME NEW u \in Thread PROVE OwnedBy(u)'
    <3>1. \A w \in Thread : ask'[w] \in {{}, ask[w]}
      BY <1>1, Gone
    <3>2. Host[u] # m => made'[Host[u]] = made[Host[u]]
      BY <1>1, Gone
    <3>3. (Host[u] = m => ask'[u] = {}) /\ acked' = acked
      BY <1>1, Gone
    <3>. QED  BY <3>1, <3>2, <3>3 DEF OwnedBy
  <2>. QED  BY <2>1
<1>2. UNCHANGED vars => Owned'
  BY DEF vars, thread, history, OwnedBy
<1>. QED  BY <1>1, <1>2, OwnedStep DEF Next

LEMMA OwnedInit == Init => Owned
BY OpLogAssumption DEF Init, Owned, OwnedBy

\* What is written or on its way remains so.
LEMMA AcknowledgedGrows ==
  ASSUME TypeOK, MergeInv, NEW t \in Thread, Steps(t)
  PROVE  Acknowledged \subseteq Acknowledged'
<1>1. Safe \subseteq Safe'
  BY SafeGrows
<1>2. Landing(t) => flight[t] \subseteq Safe' /\ entrusted' = entrusted \ flight[t]
  BY Lands DEF MergeInv, Landing, Arrives
<1>3. Landing(t) \/ entrusted \subseteq entrusted'
  <2>1. BatchEnd(t) \/ SaveDeferred(t) \/ SaveTake(t) => entrusted \subseteq entrusted'
    BY DEF BatchEnd, SaveDeferred, SaveTake
  <2>2. PutLands(t) \/ PutFails(t) => Landing(t) \/ entrusted' = entrusted
    BY DEF PutLands, PutFails, Landing, Goto, excuses, TypeOK
  <2>3. LoadBase(t) \/ LoadList(t) \/ LoadFetch(t) \/ Install(t) \/ SnapPut(t)
          \/ SnapPutFails(t) \/ GcDone(t) \/ (\E n \in Name : GcDelete(t, n))
          => entrusted' = entrusted
    BY DEF LoadBase, LoadList, LoadFetch, Install, SnapPut, SnapPutFails, GcDone, GcDelete,
       Overwrites
  <2>4. UNCHANGED excuses => entrusted' = entrusted
    BY DEF excuses
  <2>. QED  BY <2>1, <2>2, <2>3, <2>4, ExcuseSteps
<1>. QED  BY <1>1, <1>2, <1>3 DEF Acknowledged

LEMMA AskedStep ==
  ASSUME TypeOK, MergeInv, Asked, NEW t \in Thread, Steps(t)
  PROVE  Asked'
<1>. USE OpLogAssumption DEF TypeOK, Doc
<1>0. Acknowledged \subseteq Acknowledged'
  BY AcknowledgedGrows
<1>1. acked \subseteq Acknowledged /\ \A u \in Thread : AskedBy(u)
  BY DEF Asked, AckedDurable, Acknowledged, Safe
<1>2. ASSUME NEW u \in Thread, u # t PROVE AskedBy(u)'
  <2>1. /\ pc'[u] = pc[u] /\ inBatch'[u] = inBatch[u] /\ ask'[u] = ask[u]
        /\ flight'[u] = flight[u]
    BY <1>2, Others
  <2>2. pending[Host[u]] \cap ask[u] \subseteq pending'[Host[u]] \cup Acknowledged'
    <3>1. (\E c \in Change : Mutate(t, c)) \/ PutFails(t)
            => \A m \in Machine : pending[m] \subseteq pending'[m]
      BY DEF Mutate, PutFails
    <3>2. SaveTake(t) =>
            /\ \A m \in Machine \ {Host[t]} : pending'[m] = pending[m]
            /\ Host[u] = Host[t] => pending[Host[u]] \cap ask[u] \subseteq entrusted'
      BY <1>2 DEF SaveTake
    <3>3. Saved(t) => UNCHANGED pending
      BY DEF Saved
    <3>. QED  BY <3>1, <3>2, <3>3, Waiting DEF Acknowledged
  <2>. QED  BY <1>0, <1>1, <2>1, <2>2 DEF AskedBy
<1>. SUFFICES acked' \subseteq Acknowledged' /\ AskedBy(t)'
  BY <1>2 DEF Asked, AckedDurable, Acknowledged, Safe
<1>. DEFINE Holding == acked' \subseteq Acknowledged' /\ AskedBy(t)'
<1>a. AskedBy(t)
  BY <1>1
<1>b. ASSUME Return(t), inBatch' = inBatch,
             inBatch[t] => ask[t] \subseteq pending'[Host[t]] \cup Acknowledged',
             ~inBatch[t] => ask[t] \subseteq Acknowledged'
      PROVE  Holding
  BY <1>0, <1>1, <1>b DEF Return, AskedBy
<1>3. ASSUME NEW c \in Change, Mutate(t, c) PROVE Holding
  BY <1>0, <1>1, <1>3 DEF Mutate, AskedBy
<1>4. CASE BatchBegin(t)
  BY <1>0, <1>1, <1>4 DEF BatchBegin, AskedBy, history
<1>5. CASE BatchEnd(t)
  <2>1. ask[t] \subseteq pending[Host[t]] \cup Acknowledged /\ pending' = pending
          /\ pc[t] = "idle"
    BY <1>a, <1>5 DEF BatchEnd, AskedBy
  <2>2. CASE pc' = [pc EXCEPT ![t] = "save"] /\ UNCHANGED <<ask, acked>>
    BY <1>0, <1>1, <2>1, <2>2 DEF AskedBy
  <2>3. CASE /\ acked' = acked \cup ask[t] /\ ask' = [ask EXCEPT ![t] = {}]
             /\ entrusted' = entrusted \cup (ask[t] \ View)
    <3>1. ask[t] \subseteq View' \cup entrusted'
      BY <1>5, <2>3 DEF BatchEnd, bucket, View, Seen
    <3>. QED  BY <1>0, <1>1, <2>3, <3>1 DEF AskedBy, Acknowledged, Safe
  <2>. QED  BY <1>5, <2>2, <2>3 DEF BatchEnd
<1>6. CASE SaveDeferred(t)
  <2>1. Return(t) /\ inBatch' = inBatch /\ pending' = pending /\ pc[t] = "save"
    BY <1>6 DEF SaveDeferred
  <2>2. ask[t] \subseteq pending[Host[t]] \cup Acknowledged
    BY <1>a, <2>1 DEF AskedBy
  <2>3. ~inBatch[t] => ask[t] \subseteq View' \cup entrusted'
    BY <1>6 DEF SaveDeferred, bucket, View, Seen
  <2>. QED  BY <1>0, <1>b, <2>1, <2>2, <2>3 DEF Acknowledged, Safe
<1>7. CASE SaveNothing(t)
  <2>1. /\ Return(t) /\ inBatch' = inBatch /\ pc[t] = "save"
        /\ pending[Host[t]] = {}
    BY <1>7 DEF SaveNothing
  <2>2. ask[t] \subseteq Acknowledged
    BY <1>a, <2>1 DEF AskedBy
  <2>. QED  BY <1>0, <1>b, <2>1, <2>2
<1>8. CASE SaveTake(t)
  <2>1. /\ pc'[t] = "put" /\ flight'[t] = pending[Host[t]] /\ pc[t] = "save"
        /\ UNCHANGED <<ask, acked>>
    BY <1>8 DEF SaveTake, Goto
  <2>2. ask[t] \subseteq pending[Host[t]] \cup Acknowledged
    BY <1>a, <2>1 DEF AskedBy
  <2>. QED  BY <1>0, <1>1, <2>1, <2>2 DEF AskedBy
<1>9. CASE PutLands(t)
  <2>1. pc[t] = "put" /\ pc'[t] = "saved" /\ UNCHANGED <<ask, acked>> /\ Landing(t)
    BY <1>9 DEF PutLands, Goto, Landing
  <2>2. flight[t] \subseteq Acknowledged'
    BY <2>1, Lands DEF MergeInv, Acknowledged
  <2>. QED  BY <1>0, <1>1, <2>1, <2>2 DEF AskedBy
<1>10. CASE PutFails(t)
  <2>1. ask'[t] = {} /\ acked' = acked
    BY <1>10 DEF PutFails, history
  <2>. QED  BY <1>0, <1>1, <2>1 DEF AskedBy
<1>11. CASE pc[t] \notin {"idle", "save", "put"} /\ (Return(t) \/ Goto(t, "base")
               \/ Goto(t, "fetch") \/ Goto(t, "install") \/ Goto(t, "clone")
               \/ Goto(t, "snapput") \/ Goto(t, "gc")) /\ inBatch' = inBatch
  <2>1. ask[t] \subseteq Acknowledged
    BY <1>a, <1>11 DEF AskedBy
  <2>2. CASE Return(t)
    BY <1>0, <1>11, <1>b, <2>1, <2>2
  <2>3. CASE ~Return(t)
    <3>1. pc'[t] \notin {"idle", "save", "put"} /\ UNCHANGED <<ask, acked>>
      BY <1>11, <2>3 DEF Goto
    <3>. QED  BY <1>0, <1>1, <2>1, <3>1 DEF AskedBy
  <2>. QED  BY <2>2, <2>3
<1>12. CASE \/ Saved(t) \/ LoadList(t) \/ LoadFetch(t) \/ Install(t) \/ Clone(t)
            \/ SnapPut(t) \/ SnapPutFails(t) \/ GcDone(t)
  BY <1>11, <1>12 DEF Saved, LoadList, LoadFetch, Install, Clone, SnapPut, SnapPutFails, GcDone
<1>13. CASE Refresh(t) \/ Start(t)
  <2>1. pc[t] = "idle" /\ ~inBatch[t]
    BY <1>13 DEF Refresh, Start, MergeInv, Rested, Busy
  <2>2. ask[t] = {} /\ UNCHANGED <<ask, acked>>
    BY <1>a, <1>13, <2>1 DEF AskedBy, Refresh, Goto, Start, history
  <2>. QED  BY <1>0, <1>1, <2>2 DEF AskedBy
<1>14. CASE LoadBase(t) \/ \E n \in Name : GcDelete(t, n)
  <2>1. /\ pc[t] \notin {"idle", "save", "put"} /\ pc'[t] \notin {"idle", "save", "put"}
        /\ UNCHANGED <<ask, acked>>
    BY <1>14 DEF LoadBase, GcDelete, history
  <2>. QED  BY <1>0, <1>1, <2>1 DEF AskedBy
<1>. QED
  BY <1>3, <1>4, <1>5, <1>6, <1>7, <1>8, <1>9, <1>10, <1>12, <1>13, <1>14 DEF Steps

LEMMA AskedNext ==
  ASSUME TypeOK, MergeInv, Asked, [Next]_vars
  PROVE  Asked'
<1>. USE OpLogAssumption DEF Asked
<1>1. ASSUME NEW m \in Machine, Crash(m) PROVE Asked'
  <2>1. Acknowledged' = Acknowledged /\ AckedDurable'
    BY <1>1, Gone DEF Acknowledged, AckedDurable
  <2>2. ASSUME NEW u \in Thread PROVE AskedBy(u)'
    BY <1>1, <2>1, Gone DEF AskedBy
  <2>. QED  BY <2>1, <2>2
<1>2. UNCHANGED vars => Asked'
  BY DEF vars, bucket, machine, thread, history, excuses, AckedDurable, AskedBy, Acknowledged,
     Safe, View, Seen
<1>. QED  BY <1>1, <1>2, AskedStep DEF Next

LEMMA AskedInit == Init => Asked
BY DEF Init, Asked, AckedDurable, AskedBy

\* A change whose caller was told "written" is in the bucket, or on its way in the
\* write of another goroutine; whatever overlaps and whatever fails, only a merge
\* that did not know all it replaced and a name of the past can lose it.
THEOREM AckedStaysDurable == Spec => []AckedDurable
<1>1. Asked => AckedDurable
  BY DEF Asked
<1>2. TypeOK /\ MergeInv /\ Asked /\ [Next]_vars => Asked'
  BY AskedNext
<1>. QED  BY <1>1, <1>2, AskedInit, MergeAlways, PTL DEF Spec

-----------------------------------------------------------------------------
(* The machines are one ledger.                                            *)

LedgerInv == MergeInv /\ Owned /\ Asked /\ Told

LEMMA ToldStep ==
  ASSUME TypeOK, LedgerInv, NEW t \in Thread, Steps(t)
  PROVE  Told'
<1>. USE OpLogAssumption DEF TypeOK, Doc
<1>0. MergeInv /\ Named /\ Knowing /\ Safe \subseteq Safe' /\ struck \subseteq struck'
  BY SafeGrows DEF LedgerInv, MergeInv
<1>1. \A u \in Thread : ToldBy(u) /\ (~behind[u] => KnowsBy(u))
  BY DEF LedgerInv, Told, MergeInv, Knowing
<1>2. ASSUME NEW u \in Thread, u # t PROVE ToldBy(u)'
  <2>1. /\ pc'[u] = pc[u] /\ base'[u] = base[u] /\ open'[u] = open[u]
        /\ known'[u] = known[u] /\ (behind[u] => behind'[u])
    BY <1>2, Others
  <2>2. ASSUME ~behind'[u], pc[u] = "fetch"
        PROVE  snap.doc \subseteq base[u]
                 /\ Ops(open[u]) \subseteq base[u] \cup Ops(open[u])' \cup struck'
    <3>1. snap.doc \subseteq base[u]
      BY <1>1, <2>1, <2>2 DEF KnowsBy, Base
    <3>2. CASE UNCHANGED objs
      <4>1. Ops(open[u])' = Ops(open[u])
        BY <2>1, <3>2 DEF Ops
      <4>. QED  BY <3>1, <4>1
    <3>3. CASE Landing(t)
      <4>1. name[t] \notin open[u] /\ objs' = [objs EXCEPT ![name[t]] = flight[t]]
        BY <1>0, <3>3 DEF Landing, Named, NamedBy, Arrives
      <4>. QED  BY <2>1, <3>1, <4>1 DEF Ops
    <3>4. CASE Deletion(t)
      <4>1. \A n \in Name : objs'[n] = {} => objs[n] \subseteq snap.doc \cup struck'
        BY <1>0, <3>4, Deletes
      <4>2. \A n \in Name : objs'[n] = {} \/ objs'[n] = objs[n]
        BY <3>4 DEF Deletion
      <4>3. \A n \in open[u] : objs[n] \subseteq base[u] \cup objs'[n] \cup struck'
        BY <3>1, <4>1, <4>2
      <4>. QED  BY <2>1, <3>1, <4>3 DEF Ops
    <3>. QED  BY <3>2, <3>3, <3>4, BucketChanges DEF Snapshot
  <2>. QED  BY <1>0, <1>1, <2>1, <2>2 DEF ToldBy
<1>. SUFFICES ToldBy(t)'
  BY <1>2 DEF Told
<1>a. ASSUME known'[t] = {} PROVE ToldBy(t)'
  BY <1>a DEF ToldBy
<1>b. ASSUME pc'[t] \in {"clone", "snapput", "gc"} PROVE ToldBy(t)'
  BY <1>b DEF ToldBy
<1>3. CASE \/ \E c \in Change : Mutate(t, c)
           \/ BatchBegin(t) \/ BatchEnd(t) \/ SaveDeferred(t) \/ SaveNothing(t)
           \/ SaveTake(t) \/ PutLands(t) \/ PutFails(t) \/ Saved(t) \/ Refresh(t)
           \/ Start(t)
  <2>1. known'[t] \in {{}, known[t]}
    BY <1>3 DEF Mutate, BatchBegin, BatchEnd, SaveDeferred, SaveNothing, SaveTake,
       PutLands, PutFails, Saved, Refresh, Start, Return, Goto, history
  <2>2. pc[t] \in {"idle", "save", "put", "saved"}
    BY <1>0, <1>3 DEF Mutate, BatchBegin, BatchEnd, SaveDeferred, SaveNothing, SaveTake,
       PutLands, PutFails, Saved, Refresh, Start, MergeInv, Rested, Busy
  <2>. QED  BY <1>1, <1>a, <2>1, <2>2 DEF ToldBy
<1>4. CASE LoadBase(t)
  <2>1. /\ known'[t] = acked \ entrusted /\ pc'[t] = "list"
        /\ UNCHANGED <<snap, objs, struck>>
    BY <1>4 DEF LoadBase, bucket
  <2>2. acked \ entrusted \subseteq Safe /\ Safe' = Safe
    BY <2>1 DEF LedgerInv, Asked, AckedDurable, Safe, View, Seen
  <2>. QED  BY <2>1, <2>2 DEF ToldBy
<1>5. CASE LoadList(t)
  <2>1. /\ pc[t] = "list" /\ pc'[t] = "fetch" /\ UNCHANGED <<snap, objs, struck, known>>
        /\ base'[t] = base[t]
    BY <1>5 DEF LoadList, Goto, bucket
  <2>2. ~behind'[t] => /\ ~behind[t]
                       /\ open'[t] = {n \in Name : objs[n] # {} /\ n > lupto[t]}
    BY <1>5 DEF LoadList
  <2>3. ~behind'[t] => /\ snap.doc \subseteq base[t] /\ lupto[t] = snap.upto
                       /\ known[t] \subseteq Safe
    BY <1>1, <2>1, <2>2 DEF KnowsBy, Base, ToldBy
  <2>4. ~behind'[t] => View \subseteq base[t] \cup Ops(open'[t])
    BY <2>2, <2>3, SeenIs DEF View, Ops
  <2>5. ~behind'[t] => known'[t] \subseteq base'[t] \cup Ops(open[t])' \cup struck'
    BY <2>1, <2>3, <2>4 DEF Safe, Ops
  <2>. QED  BY <2>1, <2>5 DEF ToldBy
<1>6. CASE LoadFetch(t)
  <2>1. pc[t] = "fetch" /\ pc'[t] = "install" /\ UNCHANGED <<struck, known>>
    BY <1>6 DEF LoadFetch, Goto
  <2>2. ~behind'[t] => ~behind[t] /\ base'[t] = base[t] \cup Ops(open[t])
    BY <1>6, FetchedAll
  <2>. QED  BY <1>1, <2>1, <2>2 DEF ToldBy
<1>7. CASE Install(t) \/ Clone(t) \/ SnapPut(t) \/ \E n \in Name : GcDelete(t, n)
  <2>1. known'[t] = {} \/ pc'[t] \in {"clone", "snapput", "gc"}
    BY <1>7 DEF Install, Clone, SnapPut, GcDelete, Return, Goto
  <2>. QED  BY <1>a, <1>b, <2>1
<1>8. CASE SnapPutFails(t) \/ GcDone(t)
  BY <1>8, <1>a DEF SnapPutFails, GcDone, Return
<1>. QED  BY <1>3, <1>4, <1>5, <1>6, <1>7, <1>8 DEF Steps

LEMMA ToldNext ==
  ASSUME TypeOK, LedgerInv, [Next]_vars
  PROVE  Told'
<1>. USE DEF Told
<1>1. ASSUME NEW m \in Machine, Crash(m) PROVE Told'
  <2>1. ASSUME NEW u \in Thread PROVE ToldBy(u)'
    <3>1. CASE Host[u] = m
      BY <1>1, <3>1, Gone DEF ToldBy
    <3>2. CASE Host[u] # m
      BY <1>1, <3>2, Gone DEF LedgerInv, ToldBy, Ops
    <3>. QED  BY <3>1, <3>2
  <2>. QED  BY <2>1
<1>2. UNCHANGED vars => Told'
  BY DEF LedgerInv, vars, bucket, thread, history, excuses, ToldBy, Safe, View, Seen, Ops
<1>. QED  BY <1>1, <1>2, ToldStep DEF Next, LedgerInv

LEMMA LedgerInvNext ==
  ASSUME TypeOK, LedgerInv, [Next]_vars
  PROVE  LedgerInv'
BY MergeNext, OwnedNext, AskedNext, ToldNext DEF LedgerInv

LEMMA LedgerInvInit == Init => LedgerInv
<1>1. Init => Told
  BY DEF Init, Told, ToldBy
<1>. QED  BY <1>1, MergeInit, OwnedInit, AskedInit DEF LedgerInv

\* What the ledger's variables stand for.
ToldSoFar == acked \ entrusted
Blind == [t \in Thread |-> behind[t] \/ Late(t)]

LEMMA LedgerInit == Init => L!Init
<1>1. Init => View = {} /\ \A t \in Thread : ~behind[t] /\ ~Late(t)
  BY DEF Init, View, Seen, NoShot, Late
<1>2. Init => Blind = [t \in Thread |-> FALSE]
  BY <1>1 DEF Blind
<1>. QED  BY <1>1, <1>2 DEF Init, L!Init, Blind

\* Whoever takes a step takes nothing from the ledger, unless blind, and tells
\* nobody what is not in it.
LEMMA Growing ==
  ASSUME TypeOK, TypeOK', LedgerInv, LedgerInv', NEW t \in Thread, Steps(t)
  PROVE  L!Grow
<1>. USE DEF TypeOK, Doc
<1>1. /\ Safe \subseteq Safe' /\ struck \subseteq struck'
      /\ struck' # struck => behind[t] \/ Late(t)
  BY SafeGrows DEF LedgerInv
<1>2. View' \subseteq Change
  BY DEF View, Seen, Shot
<1>3. acked' \ entrusted' \subseteq View' \cup struck'
  BY DEF LedgerInv, Asked, AckedDurable
<1>4. acked \ entrusted \subseteq acked' \ entrusted'
  <2>1. acked \subseteq acked'
    BY AskSteps
  <2>2. entrusted' \cap acked \subseteq entrusted
    <3>1. \A u \in Thread : ask[u] \cap acked = {}
      BY DEF LedgerInv, Owned, OwnedBy
    <3>2. BatchEnd(t) \/ SaveDeferred(t) \/ SaveTake(t) => entrusted' \cap acked \subseteq entrusted
      BY <3>1 DEF BatchEnd, SaveDeferred, SaveTake
    <3>3. PutLands(t) \/ PutFails(t) => entrusted' \subseteq entrusted
      BY DEF PutLands, PutFails, Arrives, excuses
    <3>4. LoadBase(t) \/ LoadList(t) \/ LoadFetch(t) \/ Install(t) \/ SnapPut(t)
            \/ SnapPutFails(t) \/ GcDone(t) \/ (\E n \in Name : GcDelete(t, n))
            => entrusted' = entrusted
      BY DEF LoadBase, LoadList, LoadFetch, Install, SnapPut, SnapPutFails, GcDone, GcDelete,
         Overwrites
    <3>5. UNCHANGED excuses => entrusted' = entrusted
      BY DEF excuses
    <3>. QED  BY <3>2, <3>3, <3>4, <3>5, ExcuseSteps
  <2>. QED  BY <2>1, <2>2
<1>5. \E u \in Thread : struck' # struck => Blind[u]
  BY <1>1 DEF Blind
<1>. QED  BY <1>1, <1>2, <1>3, <1>4, <1>5 DEF L!Grow, Blind, Safe

\* A goroutine's steps, as the ledger's.
LEMMA LedgerStep ==
  ASSUME TypeOK, TypeOK', LedgerInv, LedgerInv', NEW t \in Thread, Steps(t)
  PROVE  L!Next
<1>. USE OpLogAssumption DEF TypeOK, Doc
<1>0. L!Grow /\ Blind' \in [Thread -> BOOLEAN]
  <2>1. Blind' \in [Thread -> BOOLEAN]
    BY DEF Blind, Late
  <2>. QED  BY <2>1, Growing
<1>a. UNCHANGED <<snap, objs>> => View' = View
  BY DEF View, Seen
<1>. DEFINE Part == \/ L!Write \/ \E m \in Machine : L!Edit(m) \/ L!Stop(m)
                   \/ \E u \in Thread : L!Ask(u) \/ L!Answer(u) \/ L!Show(u)
<1>. SUFFICES Part
  BY <1>0 DEF L!Next, Blind
<1>1. ASSUME UNCHANGED <<known, data>> PROVE L!Write
  BY <1>0, <1>1 DEF L!Write
<1>2. ASSUME Return(t), UNCHANGED data PROVE L!Answer(t)
  BY <1>0, <1>2 DEF L!Answer, L!Tell, Return
<1>3. ASSUME NEW c \in Change, Mutate(t, c) PROVE L!Edit(Host[t])
  <2>1. /\ data' = [data EXCEPT ![Host[t]] = @ \cup {c}]
        /\ UNCHANGED <<snap, objs, struck, acked, entrusted, known>>
    BY <1>3 DEF Mutate, bucket, excuses
  <2>. QED  BY <1>a, <2>1 DEF L!Edit
<1>4. CASE \/ BatchBegin(t) \/ BatchEnd(t) \/ SaveTake(t) \/ PutLands(t) \/ PutFails(t)
           \/ Refresh(t) \/ LoadList(t) \/ LoadFetch(t) \/ Clone(t) \/ SnapPut(t)
           \/ Start(t) \/ \E n \in Name : GcDelete(t, n)
  <2>1. UNCHANGED <<known, data>>
    BY <1>4 DEF BatchBegin, BatchEnd, SaveTake, PutLands, PutFails, Refresh, LoadList,
       LoadFetch, Clone, SnapPut, Start, GcDelete, Goto, machine, history
  <2>. QED  BY <1>1, <2>1
<1>5. SaveDeferred(t) \/ SaveNothing(t) \/ SnapPutFails(t) \/ GcDone(t) => L!Answer(t)
  BY <1>2 DEF SaveDeferred, SaveNothing, SnapPutFails, GcDone, machine
<1>6. CASE Saved(t)
  <2>1. UNCHANGED data /\ (Return(t) \/ Goto(t, "base"))
    BY <1>6 DEF Saved
  <2>. QED  BY <1>1, <1>2, <2>1 DEF Goto
<1>7. CASE LoadBase(t)
  <2>1. /\ known' = [known EXCEPT ![t] = acked \ entrusted]
        /\ UNCHANGED <<snap, objs, struck, acked, entrusted, data>>
    BY <1>7 DEF LoadBase, bucket, machine
  <2>. QED  BY <1>a, <2>1 DEF L!Ask
<1>8. CASE Install(t)
  <2>1. /\ data' = [data EXCEPT ![Host[t]] = base[t] \cup pending[Host[t]]]
        /\ base[t] \cup pending[Host[t]] \in SUBSET Change
        /\ pc[t] = "install"
    BY <1>8 DEF Install
  <2>2. Blind[t] \/ known[t] \subseteq base[t] \cup pending[Host[t]] \cup struck
    BY <2>1 DEF LedgerInv, Told, ToldBy, Blind
  <2>3. L!Tell(t) \/ UNCHANGED <<View, struck, acked \ entrusted, known>>
    <3>1. Return(t) \/ UNCHANGED <<known, acked>>
      BY <1>8 DEF Install, Goto
    <3>2. UNCHANGED <<snap, objs, struck, entrusted>>
      BY <1>8 DEF Install, bucket
    <3>3. Return(t) => known' = [known EXCEPT ![t] = {}]
      BY DEF Return
    <3>. QED  BY <1>0, <1>a, <3>1, <3>2, <3>3 DEF L!Tell
  <2>4. L!Show(t)
    BY <2>1, <2>2, <2>3 DEF L!Show, Blind
  <2>. QED  BY <2>4
<1>. QED  BY <1>3, <1>4, <1>5, <1>6, <1>7, <1>8 DEF Steps

LEMMA LedgerNext ==
  ASSUME TypeOK, TypeOK', LedgerInv, LedgerInv', [Next]_vars
  PROVE  [L!Next]_<<View, struck, ToldSoFar, known, data, Blind>>
<1>1. ASSUME NEW m \in Machine, Crash(m) PROVE L!Next
  <2>1. Blind' \in [Thread -> BOOLEAN]
    BY DEF TypeOK, Blind, Late
  <2>2. UNCHANGED <<struck, acked, entrusted>> /\ View' = View
    BY <1>1, Gone
  <2>3. /\ data' = [data EXCEPT ![m] = {}]
        /\ known' = [t \in Thread |-> IF Host[t] = m THEN {} ELSE known[t]]
    BY <1>1 DEF Crash
  <2>4. L!Stop(m)
    BY <2>2, <2>3 DEF L!Stop
  <2>. QED  BY <2>1, <2>4 DEF L!Next, Blind
<1>2. UNCHANGED vars => UNCHANGED <<View, struck, ToldSoFar, known, data, Blind>>
  BY DEF vars, bucket, machine, thread, history, excuses, View, Seen, ToldSoFar, Blind, Late
<1>. QED  BY <1>1, <1>2, LedgerStep DEF Next

\* Whatever overlaps and fails, with crashes at any point, snapshot, op objects,
\* merges and local files implement the ledger: only who is blind - behind, or late
\* with a name of the past - strikes a change, only what is written is acknowledged,
\* and every other load shows at least what had been acknowledged when it began.
THEOREM MachinesAreOneLedger == Spec => ImplementsLedger
<1>1. TypeOK /\ TypeOK' /\ LedgerInv /\ LedgerInv' /\ [Next]_vars
        => [L!Next]_<<View, struck, ToldSoFar, known, data, Blind>>
  BY LedgerNext
<1>2. TypeOK /\ LedgerInv /\ [Next]_vars => LedgerInv'
  BY LedgerInvNext
<1>. QED  BY <1>1, <1>2, LedgerInvInit, LedgerInit, TypeCorrect, PTL
          DEF Spec, ImplementsLedger, L!Spec, L!vars, ToldSoFar, Blind
=============================================================================
