----------------------------- MODULE UIDsProofs ------------------------------
(* Theorems about UIDs, for any number of machines, messages and ops.        *)
EXTENDS UIDsInv, TLAPS, FiniteSetTheorems, SequenceTheorems, WellFoundedInduction

-----------------------------------------------------------------------------
(* Numbers: what NextAfter chooses is there to be chosen.                    *)

\* The smaller-than relation on numbers, as a set of pairs.
Less == {p \in Nat \X Nat : p[1] < p[2]}

LEMMA LessIsWellFounded == IsWellFoundedOn(Less, Nat)
BY Zenon, NatLessThanWellFounded DEF OpToRel, Less

\* Every set of numbers that is not empty has a least one.
LEMMA LeastNumber ==
  ASSUME NEW T \in SUBSET Nat, T # {}
  PROVE  \E n \in T : \A k \in T : n =< k
<1>1. \E n \in T : \A k \in T : ~ (<<k, n>> \in Less)
  BY LessIsWellFounded, WFMin
<1>2. PICK n \in T : \A k \in T : ~ (<<k, n>> \in Less)
  BY <1>1
<1>3. \A k \in T : ~ (k < n)
  BY <1>2 DEF Less
<1>. QED  BY <1>3

\* n is d or comes right after one of the numbers of A, and is past them all.
IsNext(n, d, A, nums) ==
  n \in {d} \cup {nums[x] + 1 : x \in A} /\ n >= d /\ \A x \in A : n > nums[x]

\* By the size of A: what is next for A without x is next for A, or x's is.
LEMMA NextExists ==
  ASSUME NEW A \in SUBSET Mid, NEW d \in Nat, NEW nums \in [Mid -> Nat]
  PROVE  \E n \in Nat : IsNext(n, d, A, nums)
<1>. DEFINE Bad == {k \in Nat : \E B \in SUBSET Mid :
                      Cardinality(B) = k /\ ~ \E n \in Nat : IsNext(n, d, B, nums)}
<1>1. \A B \in SUBSET Mid : IsFiniteSet(B) /\ Cardinality(B) \in Nat
  BY UIDsAssumption, FS_Subset, FS_CardinalityType
<1>2. SUFFICES ASSUME Bad # {} PROVE FALSE
  BY <1>1
<1>3. PICK k \in Bad : \A j \in Bad : k =< j
  <2>1. Bad \subseteq Nat
    OBVIOUS
  <2>. HIDE DEF Bad
  <2>. QED  BY <1>2, <2>1, LeastNumber
<1>4. PICK B \in SUBSET Mid :
        Cardinality(B) = k /\ ~ \E n \in Nat : IsNext(n, d, B, nums)
  BY <1>3
<1>5. B # {}
  <2>1. IsNext(d, d, {}, nums)
    BY DEF IsNext
  <2>. QED  BY <1>4, <2>1
<1>6. PICK x \in B : TRUE
  BY <1>5
<1>7. Cardinality(B \ {x}) = k - 1
  BY <1>1, <1>4, <1>6, FS_RemoveElement
<1>8. k - 1 \in Nat /\ k - 1 \notin Bad
  <2>1. k \in Nat /\ k - 1 \in Nat
    BY <1>1, <1>3, <1>7
  <2>. HIDE DEF Bad
  <2>. QED  BY <1>3, <2>1
<1>9. PICK n \in Nat : IsNext(n, d, B \ {x}, nums)
  BY <1>7, <1>8
<1>10. IsNext(n, d, B, nums) \/ IsNext(nums[x] + 1, d, B, nums)
  BY <1>6, <1>9 DEF IsNext
<1>. QED  BY <1>4, <1>6, <1>10

LEMMA NextAfterIs ==
  ASSUME NEW d \in Numbering, NEW op \in Op
  PROVE  /\ NextAfter(d, op) \in Nat \ {0} /\ NextAfter(d, op) >= d.next
         /\ \A x \in Accepted(d, op) : NextAfter(d, op) > op.nums[x]
<1>. DEFINE A == Accepted(d, op)
<1>1. A \in SUBSET Mid /\ d.next \in Nat \ {0} /\ op.nums \in [Mid -> Nat]
  BY DEF Accepted, Wanted, Numbering, Op
<1>2. PICK n \in Nat : IsNext(n, d.next, A, op.nums)
  BY <1>1, NextExists
<1>3. \E i \in {d.next} \cup {op.nums[x] + 1 : x \in Accepted(d, op)} :
        i >= d.next /\ \A x \in Accepted(d, op) : i > op.nums[x]
  BY <1>2 DEF IsNext
<1>. QED  BY <1>1, <1>3 DEF NextAfter

-----------------------------------------------------------------------------
(* What the functions of core/uid.go make of a sound document.               *)

LEMMA NewGood == New \in GoodDoc
BY DEF New, GoodDoc, Numbering, Sound

LEMMA ApplyGood ==
  ASSUME NEW d \in GoodDoc, NEW op \in GoodOp
  PROVE  Apply(d, op) \in GoodDoc
<1>. USE DEF GoodDoc, GoodOp, Numbering, Op
<1>1. CASE op.t = "uid"
  <2>. DEFINE e == ApplyUID(d, op)
  <2>1. Cardinality(Wanted(d, op) \ Accepted(d, op)) \in Nat
    BY UIDsAssumption, FS_Subset, FS_CardinalityType DEF Wanted
  <2>2. /\ NextAfter(d, op) \in Nat \ {0} /\ NextAfter(d, op) >= d.next
        /\ \A x \in Accepted(d, op) : NextAfter(d, op) > op.nums[x]
    BY NextAfterIs
  <2>3. e.uids = [x \in Mid |-> IF x \in Accepted(d, op) THEN op.nums[x] ELSE d.uids[x]]
          /\ e.next = NextAfter(d, op)
    BY DEF ApplyUID
  <2>4. e \in Numbering
    BY <2>1, <2>2 DEF ApplyUID
  <2>5. Sound(e)
    <3>1. ASSUME NEW x \in Mid PROVE e.uids[x] < e.next
      BY <2>2, <2>3, <3>1 DEF Sound
    <3>2. ASSUME NEW x \in Accepted(d, op), NEW y \in Mid, e.uids[x] = e.uids[y]
          PROVE  x = y
      BY <2>3, <3>2 DEF Accepted, Wanted, Taken, OneEach
    <3>3. ASSUME NEW x \in Mid \ Accepted(d, op), NEW y \in Mid \ Accepted(d, op),
                 e.uids[x] # 0, e.uids[x] = e.uids[y]
          PROVE  x = y
      BY <2>3, <3>3 DEF Sound
    <3>4. \A x, y \in Mid : e.uids[x] # 0 /\ e.uids[x] = e.uids[y] => x = y
      BY <3>2, <3>3
    <3>. QED  BY <3>1, <3>4 DEF Sound
  <2>. QED  BY <1>1, <2>4, <2>5 DEF Apply
<1>2. CASE op.t = "leave"
  <2>1. Retire(d, op) = [d EXCEPT !.uids = [x \in Mid |->
                           IF op.nums[x] # 0 THEN 0 ELSE d.uids[x]]]
    BY DEF Retire
  <2>. QED  BY <1>2, <2>1 DEF Apply, Sound
<1>. QED  BY <1>1, <1>2

LEMMA MergeGood ==
  ASSUME NEW d \in GoodDoc, NEW other \in GoodDoc
  PROVE  MergeMissing(d, other) \in GoodDoc
<1>. USE DEF GoodDoc, Numbering, Sound, Taken, Missing
<1>. DEFINE e == MergeMissing(d, other)
<1>1. e.uids = [x \in Mid |-> IF Missing(d, other, x) THEN other.uids[x] ELSE d.uids[x]]
  BY DEF MergeMissing, Merged
<1>2. e.next >= d.next /\ e.next >= other.next /\ e \in Numbering
  BY DEF MergeMissing, Merged
<1>3. \A x \in Mid : e.uids[x] < e.next
  BY <1>1, <1>2
<1>4. \A x, y \in Mid : e.uids[x] # 0 /\ e.uids[x] = e.uids[y] => x = y
  BY <1>1
<1>. QED  BY <1>2, <1>3, <1>4

\* Two messages that wait for a number get different ones.
LEMMA AssignGood ==
  ASSUME NEW d \in Numbering, NEW listing \in [Mid -> Nat], OneEach(listing)
  PROVE  AssignUIDs(d, listing) \in GoodOp
<1>. DEFINE B == Blank(d, listing)
            Before(x) == {y \in B : listing[y] < listing[x]}
<1>1. \A x \in Mid : IsFiniteSet(Before(x)) /\ Rank(B, listing, x) = Cardinality(Before(x))
                       /\ Rank(B, listing, x) \in Nat
  BY UIDsAssumption, FS_Subset, FS_CardinalityType DEF Blank, Rank
<1>2. ASSUME NEW x \in B, NEW y \in B, listing[x] < listing[y]
      PROVE  Rank(B, listing, x) # Rank(B, listing, y)
  <2>1. Before(x) \in SUBSET Before(y) /\ x \in Before(y) /\ x \notin Before(x)
    BY <1>2 DEF Blank
  <2>2. x \in Mid /\ y \in Mid
    BY DEF Blank
  <2>. QED  BY <1>1, <2>1, <2>2, FS_Subset
<1>3. ASSUME NEW x \in B, NEW y \in B, x # y
      PROVE  Rank(B, listing, x) # Rank(B, listing, y)
  <2>1. x \in Mid /\ y \in Mid /\ listing[x] # listing[y]
    BY <1>3 DEF OneEach, Blank
  <2>2. listing[x] < listing[y] \/ listing[y] < listing[x]
    BY <2>1
  <2>. QED  BY <1>2, <2>2
<1>4. d.next \in Nat \ {0}
  BY DEF Numbering
<1>. DEFINE nums == AssignUIDs(d, listing).nums
<1>5. nums = [x \in Mid |-> IF x \in B THEN d.next + Rank(B, listing, x) ELSE 0]
  BY DEF AssignUIDs, FirstNumber
<1>6. \A x \in Mid : Rank(B, listing, x) \in Nat
  BY <1>1
<1>. HIDE DEF B, nums, Before
<1>9. nums \in [Mid -> Nat]
  BY <1>4, <1>5, <1>6
<1>7. OneEach(nums)
  <2>. SUFFICES ASSUME NEW x \in Mid, NEW y \in Mid, nums[x] # 0, nums[x] = nums[y]
                PROVE  x = y
    BY DEF OneEach
  <2>1. x \in B /\ y \in B
    BY <1>5
  <2>2. Rank(B, listing, x) = Rank(B, listing, y)
    BY <1>4, <1>5, <1>6, <2>1
  <2>. QED  BY <1>3, <2>1, <2>2
<1>8. AssignUIDs(d, listing) = [t |-> "uid", nums |-> nums]
  BY DEF AssignUIDs, nums
<1>. QED  BY <1>7, <1>8, <1>9 DEF GoodOp, Op

-----------------------------------------------------------------------------
(* Every step leaves every document sound.                                   *)

LEMMA GoodTypes == GoodOp \subseteq Op /\ GoodDoc \subseteq Numbering
BY DEF GoodOp, GoodDoc

LEMMA InitSound == Init => SoundInv
BY NewGood, GoodTypes, EmptySeq, UIDsAssumption
   DEF Init, SoundInv, TypeOK, DocsGood, OpsGood, ListingsGood, OneEach

\* The op of a message that leaves.
LEMMA LeaveGood ==
  ASSUME NEW x \in Mid
  PROVE  [t |-> "leave", nums |-> [y \in Mid |-> IF y = x THEN 1 ELSE 0]] \in GoodOp
BY DEF GoodOp, Op, OneEach

LEMMA MutateSound ==
  ASSUME SoundInv, NEW m \in Machine, NEW op \in GoodOp, Mutate(m, op),
         met' \in {met, met \cup {"race"}}, OneEach(folder'), folder' \in [Mid -> Nat],
         index' \in [Machine -> [Mid -> Nat]], \A k \in Machine : OneEach(index'[k])
  PROVE  SoundInv'
<1>. USE DEF SoundInv, TypeOK, Mutate
<1>1. Apply(doc[m], op) \in GoodDoc
  BY ApplyGood DEF DocsGood
<1>2. pending[m] \in Seq(GoodOp) /\ Append(pending[m], op) \in Seq(GoodOp)
  BY DEF OpsGood
<1>3. Append(pending[m], op) \in Seq(Op)
  BY <1>2, GoodTypes, SeqMonotonic
<1>4. DocsGood' /\ base' \in [Machine -> Numbering]
  BY <1>1, GoodTypes DEF DocsGood
<1>5. OpsGood' /\ pending' \in [Machine -> Seq(Op)]
  BY <1>2, <1>3 DEF OpsGood
<1>6. ListingsGood'
  BY DEF ListingsGood
<1>7. pc' \in [Machine -> {"idle", "mutate", "reload", "load"}] /\ count' \in Nat
  OBVIOUS
<1>. QED  BY <1>4, <1>5, <1>6, <1>7

\* The document that is shown is a sound one, and so is what was given out.
LEMMA ShowSound ==
  ASSUME SoundInv, NEW m \in Machine, Show(m)
  PROVE  /\ doc' \in [Machine -> Numbering] /\ base' \in [Machine -> Numbering]
         /\ upto' \in [Machine -> Nat] /\ given' \subseteq (Nat \X Mid)
         /\ \A k \in Machine : doc'[k] \in GoodDoc /\ base'[k] \in GoodDoc
         /\ base[m] \in GoodDoc
<1>. USE DEF SoundInv, TypeOK, Show, DocsGood
<1>1. base[m] \in GoodDoc /\ New \in GoodDoc /\ GoodDoc \subseteq Numbering
  BY NewGood, GoodTypes
<1>2. base[m].uids \in [Mid -> Nat]
  BY DEF Numbering
<1>3. given' \subseteq (Nat \X Mid)
  BY <1>2
<1>4. doc' = [doc EXCEPT ![m] = base[m]] /\ base' = [base EXCEPT ![m] = New]
        /\ upto' = [upto EXCEPT ![m] = 0]
  OBVIOUS
<1>. QED  BY <1>1, <1>3, <1>4

LEMMA SaveSound ==
  ASSUME SoundInv, NEW m \in Machine, Saved(m) \/ SaveFails(m)
  PROVE  SoundInv'
<1>. USE DEF SoundInv, TypeOK
<1>1. /\ Show(m) /\ local' = [local EXCEPT ![m] = base[m]]
      /\ log' \in {log, log \o pending[m]}
      /\ pending' \in {pending, [pending EXCEPT ![m] = <<>>]}
      /\ UNCHANGED <<folder, snap, index, work>>
  BY DEF Saved, SaveFails
<1>2. /\ pc' \in [Machine -> {"idle", "mutate", "reload", "load"}] /\ count' \in Nat
      /\ openOps' \in [Machine -> Nat] /\ fresh' \subseteq Machine
      /\ met' \subseteq {"race", "put", "revived"}
  <2>1. CASE Saved(m)
    <3>1. pc' \in [Machine -> {"idle", "mutate", "reload", "load"}]
      BY <2>1 DEF Saved
    <3>2. openOps' \in [Machine -> Nat]
      BY <2>1 DEF Saved
    <3>. QED  BY <2>1, <3>1, <3>2 DEF Saved
  <2>2. CASE SaveFails(m)
    <3>1. pc' \in [Machine -> {"idle", "mutate", "reload", "load"}]
      BY <2>2 DEF SaveFails
    <3>. QED  BY <2>2, <3>1 DEF SaveFails
  <2>. QED  BY <2>1, <2>2
<1>3. log' \in Seq(GoodOp)
  <2>1. log \in Seq(GoodOp) /\ pending[m] \in Seq(GoodOp)
    BY DEF OpsGood
  <2>2. log \o pending[m] \in Seq(GoodOp)
    BY <2>1, ConcatProperties
  <2>. QED  BY <1>1, <2>1, <2>2
<1>4. log' \in Seq(Op)
  BY <1>3, GoodTypes, SeqMonotonic
<1>5. OpsGood' /\ pending' \in [Machine -> Seq(Op)]
  <2>1. <<>> \in Seq(GoodOp) /\ <<>> \in Seq(Op)
    BY EmptySeq
  <2>2. \A k \in Machine : pending'[k] \in Seq(GoodOp)
    BY <1>1, <2>1 DEF OpsGood
  <2>3. pending' \in [Machine -> Seq(Op)]
    BY <1>1, <2>1
  <2>. QED  BY <1>1, <1>3, <2>2, <2>3 DEF OpsGood
<1>6. DocsGood' /\ local' \in [Machine -> Numbering]
  BY <1>1, ShowSound, GoodTypes DEF DocsGood
<1>7. ListingsGood'
  BY <1>1 DEF ListingsGood
<1>. QED  BY <1>1, <1>2, <1>4, <1>5, <1>6, <1>7, ShowSound

LEMMA LoadSound ==
  ASSUME SoundInv, NEW m \in Machine, LoadBase(m) \/ ApplyNext(m)
  PROVE  SoundInv'
<1>. USE DEF SoundInv, TypeOK, bucket, machine, history
<1>1. CASE LoadBase(m)
  <2>1. MergeMissing(snap, local[m]) \in GoodDoc
    BY MergeGood DEF DocsGood
  <2>2. log \o pending[m] \in Seq(GoodOp)
    BY ConcatProperties DEF OpsGood
  <2>3. log \o pending[m] \in Seq(Op)
    BY <2>2, GoodTypes, SeqMonotonic
  <2>4. DocsGood' /\ base' \in [Machine -> Numbering]
    BY <1>1, <2>1, GoodTypes DEF LoadBase, DocsGood
  <2>5. OpsGood' /\ work' \in [Machine -> Seq(Op)]
    BY <1>1, <2>2, <2>3 DEF LoadBase, OpsGood
  <2>6. /\ pc' \in [Machine -> {"idle", "mutate", "reload", "load"}]
        /\ upto' \in [Machine -> Nat] /\ fresh' \subseteq Machine
        /\ met' \subseteq {"race", "put", "revived"}
        /\ UNCHANGED <<bucket, machine, given>>
    BY <1>1, LenProperties DEF LoadBase
  <2>. QED  BY <2>4, <2>5, <2>6 DEF ListingsGood
<1>2. CASE ApplyNext(m)
  <2>1. work[m] \in Seq(GoodOp) /\ work[m] # <<>>
    BY <1>2 DEF ApplyNext, OpsGood
  <2>2. Head(work[m]) \in GoodOp /\ Tail(work[m]) \in Seq(GoodOp)
    BY <2>1, HeadTailProperties
  <2>3. Apply(base[m], Head(work[m])) \in GoodDoc
    BY <2>2, ApplyGood DEF DocsGood
  <2>4. Tail(work[m]) \in Seq(Op)
    BY <2>2, GoodTypes, SeqMonotonic
  <2>5. DocsGood' /\ base' \in [Machine -> Numbering]
    BY <1>2, <2>3, GoodTypes DEF ApplyNext, DocsGood
  <2>6. OpsGood' /\ work' \in [Machine -> Seq(Op)]
    BY <1>2, <2>2, <2>4 DEF ApplyNext, OpsGood
  <2>7. UNCHANGED <<bucket, machine, pc, upto, history>>
    BY <1>2 DEF ApplyNext
  <2>. QED  BY <2>5, <2>6, <2>7 DEF ListingsGood
<1>. QED  BY <1>1, <1>2

LEMMA InstalledSound ==
  ASSUME SoundInv, NEW m \in Machine, Installed(m)
  PROVE  SoundInv'
<1>. USE DEF SoundInv, TypeOK
<1>1. /\ Show(m) /\ index' = [index EXCEPT ![m] = folder]
      /\ snap' \in {snap, base[m]}
      /\ log' \in {log, SubSeq(log, upto[m] + 1, Len(log))}
      /\ openOps' \in [Machine -> Nat]
      /\ pc' = [pc EXCEPT ![m] = "idle"]
      /\ UNCHANGED <<folder, count, local, pending, work, fresh, met>>
  <2>1. openOps' \in [Machine -> Nat]
    <3>1. \/ openOps' = [openOps EXCEPT ![m] = 0]
          \/ openOps' = [openOps EXCEPT ![m] = upto[m]]
      BY ONLY Installed(m) DEF Installed
    <3>2. openOps \in [Machine -> Nat] /\ upto[m] \in Nat
      OBVIOUS
    <3>. QED  BY ONLY <3>1, <3>2
  <2>. QED  BY ONLY <2>1, Installed(m) DEF Installed
<1>2. log' \in Seq(GoodOp)
  <2>1. log \in Seq(GoodOp)
    BY DEF OpsGood
  <2>2. \A i \in upto[m] + 1 .. Len(log) : log[i] \in GoodOp
    BY <2>1, LenProperties, ElementOfSeq
  <2>3. SubSeq(log, upto[m] + 1, Len(log)) \in Seq(GoodOp)
    BY <2>1, <2>2, LenProperties, SubSeqProperties
  <2>. QED  BY <1>1, <2>1, <2>3
<1>3. log' \in Seq(Op)
  BY <1>2, GoodTypes, SeqMonotonic
<1>4. OpsGood'
  BY <1>1, <1>2 DEF OpsGood
<1>5. DocsGood' /\ snap' \in Numbering
  BY <1>1, ShowSound, GoodTypes DEF DocsGood
<1>6. ListingsGood' /\ index' \in [Machine -> [Mid -> Nat]]
  BY <1>1 DEF ListingsGood
<1>7. pc' \in [Machine -> {"idle", "mutate", "reload", "load"}]
  BY <1>1
<1>. QED  BY <1>1, <1>3, <1>4, <1>5, <1>6, <1>7, ShowSound

LEMMA NextSound == SoundInv /\ [Next]_vars => SoundInv'
<1>. SUFFICES ASSUME SoundInv, [Next]_vars PROVE SoundInv'
  OBVIOUS
<1>. USE DEF SoundInv, TypeOK
<1>1. ASSUME NEW x \in Mid, Arrive(x) PROVE SoundInv'
  <2>1. PICK n \in {1} \cup {folder[y] + 1 : y \in Mid} :
          (\A y \in Mid : folder[y] < n) /\ folder' = [folder EXCEPT ![x] = n]
    BY <1>1 DEF Arrive
  <2>2. n \in Nat
    BY <2>1
  <2>3. folder' \in [Mid -> Nat] /\ OneEach(folder')
    BY <2>1, <2>2 DEF OneEach, ListingsGood
  <2>. QED  BY <1>1, <2>3 DEF Arrive, machine, loop, history, DocsGood, OpsGood, ListingsGood
<1>2. ASSUME NEW m \in Machine, EnsureUIDs(m) PROVE SoundInv'
  <2>1. AssignUIDs(doc[m], index[m]) \in GoodOp
    BY AssignGood DEF ListingsGood
  <2>. QED  BY <1>2, <2>1, MutateSound DEF EnsureUIDs, ListingsGood
<1>3. ASSUME NEW m \in Machine, NEW x \in Mid, Leave(m, x) PROVE SoundInv'
  <2>1. folder' \in [Mid -> Nat] /\ OneEach(folder')
    BY <1>3 DEF Leave, ListingsGood, OneEach
  <2>2. index' \in [Machine -> [Mid -> Nat]] /\ \A k \in Machine : OneEach(index'[k])
    BY <1>3 DEF Leave, ListingsGood, OneEach
  <2>. QED  BY <1>3, <2>1, <2>2, LeaveGood, MutateSound DEF Leave
<1>4. ASSUME NEW m \in Machine, Restart(m) PROVE SoundInv'
  BY SMTT(30), <1>4, NewGood, GoodTypes, EmptySeq
     DEF Restart, history, DocsGood, OpsGood, ListingsGood
<1>5. CASE UNCHANGED vars
  BY <1>5 DEF vars, bucket, machine, loop, history, DocsGood, OpsGood, ListingsGood
<1>. QED  BY <1>1, <1>2, <1>3, <1>4, <1>5, SaveSound, LoadSound, InstalledSound DEF Next

-----------------------------------------------------------------------------
(* One history.  What ops do that number only what has no number.            *)

LEMMA ApplyRetire ==
  ASSUME NEW d \in GoodDoc, NEW op \in GoodOp, op.t = "leave"
  PROVE  /\ Apply(d, op).validity = d.validity /\ Apply(d, op).next = d.next
         /\ Apply(d, op).uids = [x \in Mid |-> IF op.nums[x] # 0 THEN 0 ELSE d.uids[x]]
BY DEF Apply, Retire, GoodDoc, Numbering

LEMMA ApplyFollows ==
  ASSUME NEW d \in GoodDoc, NEW op \in GoodOp, op.t = "uid", Follows(op, d)
  PROVE  /\ Apply(d, op).validity = d.validity
         /\ Apply(d, op).uids =
              [x \in Mid |-> IF op.nums[x] # 0 THEN op.nums[x] ELSE d.uids[x]]
         /\ Apply(d, op).next >= d.next
         /\ \A x \in Mid : op.nums[x] # 0 => Apply(d, op).next > op.nums[x]
<1>. USE DEF GoodDoc, GoodOp, Numbering, Op
<1>1. Wanted(d, op) = {x \in Mid : op.nums[x] # 0}
  BY DEF Wanted, Follows
<1>2. Accepted(d, op) = {x \in Mid : op.nums[x] # 0}
  BY <1>1 DEF Accepted, Follows, Taken, Sound
<1>3. Cardinality(Wanted(d, op) \ Accepted(d, op)) = 0
  BY <1>1, <1>2, FS_EmptySet
<1>4. /\ NextAfter(d, op) \in Nat \ {0} /\ NextAfter(d, op) >= d.next
      /\ \A x \in Accepted(d, op) : NextAfter(d, op) > op.nums[x]
  BY NextAfterIs
<1>. QED  BY <1>2, <1>3, <1>4 DEF Apply, ApplyUID

\* Whatever an op does, it goes no further than the numbers it is about.
LEMMA ApplyBounded ==
  ASSUME NEW d \in GoodDoc, NEW op \in GoodOp
  PROVE  \/ Apply(d, op).next = d.next
         \/ op.t = "uid" /\ \E x \in Mid : op.nums[x] # 0 /\ Apply(d, op).next = op.nums[x] + 1
<1>. USE DEF GoodDoc, GoodOp, Numbering, Op
<1>1. CASE op.t = "leave"
  BY <1>1, ApplyRetire
<1>2. CASE op.t = "uid"
  <2>. DEFINE S == {d.next} \cup {op.nums[x] + 1 : x \in Accepted(d, op)}
  <2>1. d.next \in Nat /\ Accepted(d, op) \in SUBSET Mid /\ op.nums \in [Mid -> Nat]
    BY DEF Accepted, Wanted
  <2>2. PICK n \in Nat : IsNext(n, d.next, Accepted(d, op), op.nums)
    BY <2>1, NextExists
  <2>3. \E n1 \in S : n1 >= d.next /\ \A x \in Accepted(d, op) : n1 > op.nums[x]
    BY <2>2 DEF IsNext
  <2>4. NextAfter(d, op) \in S
    BY <2>3 DEF NextAfter
  <2>5. Apply(d, op).next = NextAfter(d, op)
    BY <1>2 DEF Apply, ApplyUID
  <2>. QED  BY <1>2, <2>4, <2>5 DEF Accepted, Wanted
<1>. QED  BY <1>1, <1>2

LEMMA LastIs ==
  ASSUME NEW states, NEW first, NEW ops \in Seq(GoodOp), IsHistory(states, first, ops)
  PROVE  /\ Len(ops) \in Nat
         /\ \A i \in 0 .. Len(ops) :
              /\ states[i] \in GoodDoc /\ states[i].validity = 1
              /\ states[i].next =< states[Len(ops)].next
         /\ \A i \in 1 .. Len(ops) :
              /\ ops[i] \in GoodOp /\ i - 1 \in 0 .. Len(ops)
              /\ ops[i].t = "uid" => \A x \in Mid : ops[i].nums[x] # 0 =>
                   /\ ops[i].nums[x] >= states[i - 1].next
                   /\ ops[i].nums[x] < states[i].next
<1>1. Len(ops) \in Nat /\ \A i \in 1 .. Len(ops) : ops[i] \in GoodOp
  BY LenProperties, ElementOfSeq
<1>2. \A i \in 0 .. Len(ops) :
              /\ states[i] \in GoodDoc /\ states[i].validity = 1
              /\ states[i].next =< states[Len(ops)].next
  BY <1>1 DEF IsHistory
<1>3. ASSUME NEW i \in 1 .. Len(ops), ops[i].t = "uid", NEW x \in Mid, ops[i].nums[x] # 0
      PROVE  ops[i].nums[x] >= states[i - 1].next /\ ops[i].nums[x] < states[i].next
  <2>1. i - 1 \in 0 .. Len(ops) /\ states[i - 1] \in GoodDoc
    BY <1>1, <1>2
  <2>2. Follows(ops[i], states[i - 1]) /\ states[i] = Apply(states[i - 1], ops[i])
    BY <1>3 DEF IsHistory
  <2>3. states[i].next > ops[i].nums[x]
    BY <1>1, <1>3, <2>1, <2>2, ApplyFollows
  <2>4. states[i].next \in Nat /\ ops[i].nums[x] \in Nat
    BY <1>1, <1>2 DEF GoodDoc, Numbering, GoodOp, Op
  <2>. QED  BY <1>3, <2>2, <2>3, <2>4 DEF Follows
<1>. QED  BY <1>1, <1>2, <1>3

\* The history with one more op.
Grown(states, n, op) == [i \in 0 .. n + 1 |-> IF i =< n THEN states[i] ELSE Apply(states[n], op)]

LEMMA ApplyRises ==
  ASSUME NEW d \in GoodDoc, NEW op \in GoodOp, op.t = "uid" => Follows(op, d)
  PROVE  Apply(d, op).next >= d.next /\ Apply(d, op).validity = d.validity
<1>1. op.t \in {"uid", "leave"} /\ d.next \in Nat
  BY DEF GoodOp, Op, GoodDoc, Numbering
<1>2. CASE op.t = "uid"
  BY <1>2, ApplyFollows
<1>3. CASE op.t = "leave"
  <2>1. Apply(d, op).validity = d.validity /\ Apply(d, op).next = d.next
    BY <1>3, ApplyRetire
  <2>. QED  BY <1>1, <2>1
<1>. QED  BY <1>1, <1>2, <1>3

LEMMA HistoryGrows ==
  ASSUME NEW states, NEW first, NEW ops \in Seq(GoodOp), IsHistory(states, first, ops),
         NEW op \in GoodOp, op.t = "uid" => Follows(op, states[Len(ops)])
  PROVE  IsHistory(Grown(states, Len(ops), op), first, Append(ops, op))
<1>. DEFINE n == Len(ops)
            more == Append(ops, op)
            s == Grown(states, n, op)
<1>1. /\ n \in Nat /\ Len(more) = n + 1
      /\ \A i \in 1 .. n : more[i] = ops[i]
      /\ more[n + 1] = op
  BY LenProperties, AppendProperties
<1>2. /\ \A i \in 0 .. n : s[i] = states[i]
      /\ s[n + 1] = Apply(states[n], op)
      /\ DOMAIN s = 0 .. n + 1 /\ s = [i \in 0 .. n + 1 |-> s[i]]
  BY <1>1 DEF Grown
<1>3. \A i \in 0 .. n : states[i] \in GoodDoc /\ states[i].validity = 1
                          /\ states[i].next =< states[n].next /\ states[i].next \in Nat
  BY LastIs DEF GoodDoc, Numbering
<1>4. /\ s[n + 1] \in GoodDoc /\ s[n + 1].validity = 1 /\ s[n + 1].next >= states[n].next
      /\ s[n + 1].next \in Nat
  <2>1. n \in 0 .. n /\ states[n] \in GoodDoc /\ states[n].validity = 1
    BY <1>1, <1>3
  <2>2. Apply(states[n], op) \in GoodDoc
    BY <2>1, ApplyGood
  <2>3. Apply(states[n], op).next >= states[n].next
          /\ Apply(states[n], op).validity = states[n].validity
    BY <2>1, ApplyRises
  <2>4. Apply(states[n], op).next \in Nat
    BY <2>2 DEF GoodDoc, Numbering
  <2>. QED  BY <1>2, <2>1, <2>2, <2>3, <2>4
<1>. HIDE DEF n, more, s
<1>5. \A i \in 0 .. n + 1 : i \in 0 .. n \/ i = n + 1
  BY <1>1
<1>6. s \in [0 .. n + 1 -> GoodDoc]
  BY <1>2, <1>3, <1>4, <1>5
<1>7. s[0] = first
  <2>1. 0 \in 0 .. n /\ states[0] = first
    BY <1>1 DEF IsHistory
  <2>. QED  BY <1>2, <2>1
<1>8. ASSUME NEW i \in 1 .. n + 1
      PROVE  s[i] = Apply(s[i - 1], more[i]) /\ (more[i].t = "uid" => Follows(more[i], s[i - 1]))
  <2>1. CASE i \in 1 .. n
    <3>1. i - 1 \in 0 .. n /\ i \in 0 .. n
      BY <1>1, <2>1
    <3>2. states[i] = Apply(states[i - 1], ops[i])
            /\ (ops[i].t = "uid" => Follows(ops[i], states[i - 1]))
      BY <2>1 DEF IsHistory, n
    <3>. QED  BY <1>1, <1>2, <2>1, <3>1, <3>2
  <2>2. CASE i = n + 1
    <3>1. i - 1 = n /\ n \in 0 .. n
      BY <1>1, <2>2
    <3>. QED  BY <1>1, <1>2, <2>2, <3>1 DEF n
  <2>. QED  BY <1>1, <2>1, <2>2
<1>9. ASSUME NEW i \in 0 .. n + 1
      PROVE  s[i].validity = 1 /\ \A j \in 0 .. n + 1 : i =< j => s[i].next =< s[j].next
  <2>1. s[i].validity = 1
    BY <1>2, <1>3, <1>4, <1>5
  <2>2. ASSUME NEW j \in 0 .. n + 1, i =< j PROVE s[i].next =< s[j].next
    <3>1. CASE j \in 0 .. n
      <4>1. i \in 0 .. n
        BY <1>1, <2>2, <3>1
      <4>2. states[i].next =< states[j].next
        BY <2>2, <3>1, <4>1 DEF IsHistory, n
      <4>. QED  BY <1>2, <3>1, <4>1, <4>2
    <3>2. CASE j = n + 1 /\ i \in 0 .. n
      <4>1. s[i] = states[i] /\ s[j] = s[n + 1]
        BY <1>2, <3>2
      <4>2. /\ states[i].next =< states[n].next /\ states[i].next \in Nat
            /\ states[n].next \in Nat
        <5>1. n \in 0 .. n
          BY <1>1
        <5>. QED  BY <1>3, <3>2, <5>1
      <4>. QED  BY <1>4, <4>1, <4>2
    <3>3. CASE j = n + 1 /\ i = n + 1
      BY <1>4, <3>3
    <3>. QED  BY <1>5, <3>1, <3>2, <3>3
  <2>. QED  BY <2>1, <2>2
<1>10. IsHistory(s, first, more)
  BY <1>1, <1>6, <1>7, <1>8, <1>9 DEF IsHistory
<1>. QED  BY <1>10 DEF n, more, s

\* The history without the ops that were merged.
Shrunk(states, n, u) == [i \in 0 .. n - u |-> states[i + u]]

LEMMA HistoryShrinks ==
  ASSUME NEW states, NEW first, NEW ops \in Seq(GoodOp), IsHistory(states, first, ops),
         NEW u \in 0 .. Len(ops)
  PROVE  /\ Len(SubSeq(ops, u + 1, Len(ops))) = Len(ops) - u
         /\ \A i \in 1 .. Len(ops) - u :
              i + u \in 1 .. Len(ops) /\ SubSeq(ops, u + 1, Len(ops))[i] = ops[i + u]
         /\ Shrunk(states, Len(ops), u)[Len(ops) - u] = states[Len(ops)]
         /\ IsHistory(Shrunk(states, Len(ops), u), states[u], SubSeq(ops, u + 1, Len(ops)))
<1>. DEFINE n == Len(ops)
            rest == SubSeq(ops, u + 1, n)
            s == Shrunk(states, n, u)
<1>1. n \in Nat /\ u \in Nat /\ u =< n /\ n - u \in Nat
  BY LenProperties
<1>2. \A i \in u + 1 .. n : ops[i] \in GoodOp
  BY <1>1, ElementOfSeq
<1>3. /\ rest \in Seq(GoodOp) /\ Len(rest) = n - u
      /\ \A i \in 1 .. n - u : rest[i] = ops[u + i]
  <2>1. /\ rest \in Seq(GoodOp)
        /\ Len(rest) = IF u + 1 =< n THEN n - (u + 1) + 1 ELSE 0
        /\ \A i \in 1 .. n - (u + 1) + 1 : rest[i] = ops[u + 1 + i - 1]
    BY <1>1, <1>2, SubSeqProperties
  <2>2. n - (u + 1) + 1 = n - u /\ \A i \in 1 .. n - u : u + 1 + i - 1 = u + i
    BY <1>1
  <2>3. Len(rest) = n - u
    BY <1>1, <2>1
  <2>. QED  BY <2>1, <2>2, <2>3
<1>4. \A i \in 1 .. n - u : i + u \in 1 .. n /\ rest[i] = ops[i + u] /\ i - 1 \in 0 .. n - u
                              /\ (i - 1) + u = (i + u) - 1
  BY <1>1, <1>3
<1>5. \A i \in 0 .. n - u : i + u \in 0 .. n /\ s[i] = states[i + u]
  BY <1>1 DEF Shrunk
<1>6. s \in [0 .. n - u -> GoodDoc]
  BY <1>5, LastIs DEF Shrunk
<1>. HIDE DEF rest, s
<1>7. s[0] = states[u] /\ s[n - u] = states[n]
  <2>1. 0 \in 0 .. n - u /\ n - u \in 0 .. n - u /\ 0 + u = u /\ (n - u) + u = n
    BY <1>1
  <2>. QED  BY <1>5, <2>1
<1>8. ASSUME NEW i \in 1 .. n - u
      PROVE  s[i] = Apply(s[i - 1], rest[i]) /\ (rest[i].t = "uid" => Follows(rest[i], s[i - 1]))
  <2>1. i \in 0 .. n - u /\ i - 1 \in 0 .. n - u /\ (i - 1) + u = (i + u) - 1
    BY <1>1, <1>4
  <2>4. s[i] = states[i + u] /\ s[i - 1] = states[(i - 1) + u]
    BY <1>5, <2>1
  <2>2. i + u \in 1 .. Len(ops)
    BY <1>4
  <2>3. states[i + u] = Apply(states[(i + u) - 1], ops[i + u])
          /\ (ops[i + u].t = "uid" => Follows(ops[i + u], states[(i + u) - 1]))
    BY <2>2 DEF IsHistory
  <2>. QED  BY <1>4, <2>1, <2>3, <2>4
<1>9. ASSUME NEW i \in 0 .. n - u
      PROVE  s[i].validity = 1 /\ \A j \in 0 .. n - u : i =< j => s[i].next =< s[j].next
  <2>1. i + u \in 0 .. Len(ops) /\ s[i] = states[i + u]
    BY <1>5
  <2>2. ASSUME NEW j \in 0 .. n - u, i =< j PROVE s[i].next =< s[j].next
    <3>1. j + u \in 0 .. Len(ops) /\ s[j] = states[j + u] /\ i + u =< j + u
      BY <1>1, <1>5, <2>2
    <3>. QED  BY <2>1, <3>1 DEF IsHistory
  <2>. QED  BY <2>1, <2>2 DEF IsHistory
<1>10. IsHistory(s, states[u], rest)
  BY <1>3, <1>6, <1>7, <1>8, <1>9 DEF IsHistory
<1>. QED  BY <1>3, <1>4, <1>7, <1>10 DEF rest, s

-----------------------------------------------------------------------------
(* A Load starts ahead of the snapshot, by what the local file adds, and     *)
(* ends level with the op it read last.                                      *)

LEMMA MergeAhead ==
  ASSUME NEW states, NEW d \in GoodDoc, NEW ops \in Seq(GoodOp), IsHistory(states, d, ops),
         NEW other \in GoodDoc, NEW owner, Accounted(other, states[Len(ops)], owner),
         Belong(d.uids, owner),
         \A x \in Mid : other.uids[x] # 0 /\ Missing(d, other, x) =>
           \E i \in 1 .. Len(ops) : ops[i].t # "leave" /\ ops[i].nums[x] = other.uids[x]
  PROVE  /\ MergeMissing(d, other).validity = 1
         /\ Belong(MergeMissing(d, other).uids, owner)
         /\ Ahead(MergeMissing(d, other), states, ops, 0, Len(ops))
<1>. DEFINE e == MergeMissing(d, other)
            n == Len(ops)
<1>1. n \in Nat /\ 0 \in 0 .. n /\ n \in 0 .. n
  BY LenProperties
<1>2. /\ states[0] = d /\ d.validity = 1 /\ d.next =< states[n].next
      /\ states[n].next \in Nat /\ d.next \in Nat /\ other.next \in Nat
  BY <1>1, LastIs DEF IsHistory, GoodDoc, Numbering
<1>3. e.validity = 1 /\ d.next =< e.next /\ e.next =< states[n].next
  BY <1>2 DEF MergeMissing, Accounted
<1>4. \A x \in Mid : e.uids[x] = IF Missing(d, other, x) THEN other.uids[x] ELSE d.uids[x]
  BY DEF MergeMissing, Merged
<1>5. Belong(e.uids, owner)
  BY <1>4 DEF Belong, Accounted
<1>6. ASSUME NEW x \in Mid
      PROVE  \/ e.uids[x] = states[0].uids[x]
             \/ /\ e.uids[x] # 0
                /\ \E i \in 0 + 1 .. n : ops[i].t = "uid" /\ ops[i].nums[x] = e.uids[x]
  <2>1. CASE Missing(d, other, x) /\ other.uids[x] # 0
    <3>1. PICK i \in 1 .. n : ops[i].t # "leave" /\ ops[i].nums[x] = other.uids[x]
      BY <2>1
    <3>2. ops[i] \in GoodOp
      BY LastIs
    <3>3. ops[i].t = "uid"
      BY <3>1, <3>2 DEF GoodOp, Op
    <3>. QED  BY <1>4, <2>1, <3>1, <3>3
  <2>2. CASE Missing(d, other, x) /\ other.uids[x] = 0
    BY <1>2, <1>4, <2>2 DEF Missing
  <2>3. CASE ~ Missing(d, other, x)
    BY <1>2, <1>4, <2>3
  <2>. QED  BY <2>1, <2>2, <2>3
<1>. HIDE DEF e
<1>7. Ahead(e, states, ops, 0, n)
  BY <1>2, <1>3, <1>6 DEF Ahead
<1>. QED  BY <1>3, <1>5, <1>7 DEF e

LEMMA AheadStep ==
  ASSUME NEW states, NEW first, NEW ops \in Seq(GoodOp), IsHistory(states, first, ops),
         NEW u \in 0 .. Len(ops), NEW j \in 0 .. u, j < u, NEW owner,
         \A i \in 1 .. Len(ops) : ops[i].t = "uid" => Belong(ops[i].nums, owner),
         NEW d \in GoodDoc, d.validity = 1, Belong(d.uids, owner),
         Ahead(d, states, ops, j, u)
  PROVE  /\ Apply(d, ops[j + 1]).validity = 1
         /\ Belong(Apply(d, ops[j + 1]).uids, owner)
         /\ Ahead(Apply(d, ops[j + 1]), states, ops, j + 1, u)
<1>. DEFINE p == ops[j + 1]
            e == Apply(d, p)
            s == states[j]
            t == states[j + 1]
<1>1. /\ Len(ops) \in Nat /\ u \in Nat /\ j \in Nat /\ j + 1 \in 1 .. Len(ops)
      /\ j \in 0 .. Len(ops) /\ j + 1 \in 0 .. Len(ops) /\ j + 1 =< u /\ (j + 1) - 1 = j
  BY LenProperties
<1>2. /\ p \in GoodOp /\ s \in GoodDoc /\ t \in GoodDoc /\ states[u] \in GoodDoc
      /\ t.next =< states[u].next /\ e \in GoodDoc /\ p.t \in {"uid", "leave"}
  <2>1. p \in GoodOp /\ s \in GoodDoc /\ t \in GoodDoc /\ states[u] \in GoodDoc
    BY <1>1, LastIs
  <2>2. e \in GoodDoc
    BY <2>1, ApplyGood
  <2>. QED  BY <1>1, <2>1, <2>2 DEF IsHistory, GoodOp, Op
<1>3. t = Apply(s, p) /\ (p.t = "uid" => Follows(p, s))
  BY <1>1 DEF IsHistory
<1>4. /\ p.nums \in [Mid -> Nat] /\ d.uids \in [Mid -> Nat] /\ s.uids \in [Mid -> Nat]
      /\ e.uids \in [Mid -> Nat] /\ t.uids \in [Mid -> Nat]
      /\ d.next \in Nat /\ s.next \in Nat /\ t.next \in Nat /\ e.next \in Nat
      /\ states[u].next \in Nat
  BY <1>2 DEF GoodOp, Op, GoodDoc, Numbering
<1>5. \A x \in Mid : d.uids[x] < d.next
  BY DEF GoodDoc, Sound
<1>6. /\ s.next =< d.next /\ d.next =< states[u].next
      /\ \A x \in Mid :
           \/ d.uids[x] = s.uids[x]
           \/ /\ d.uids[x] # 0
              /\ \E i \in j + 1 .. u : ops[i].t = "uid" /\ ops[i].nums[x] = d.uids[x]
  BY DEF Ahead
<1>7. CASE p.t = "leave"
  <2>1. /\ e.validity = d.validity /\ e.next = d.next
        /\ \A x \in Mid : e.uids[x] = IF p.nums[x] # 0 THEN 0 ELSE d.uids[x]
    <3>1. /\ e.validity = d.validity /\ e.next = d.next
          /\ e.uids = [x \in Mid |-> IF p.nums[x] # 0 THEN 0 ELSE d.uids[x]]
      BY <1>2, <1>7, ApplyRetire
    <3>. QED  BY <3>1
  <2>2. /\ t.next = s.next
        /\ \A x \in Mid : t.uids[x] = IF p.nums[x] # 0 THEN 0 ELSE s.uids[x]
    <3>1. /\ Apply(s, p).next = s.next
          /\ Apply(s, p).uids = [x \in Mid |-> IF p.nums[x] # 0 THEN 0 ELSE s.uids[x]]
      BY <1>2, <1>7, ApplyRetire
    <3>. QED  BY <1>3, <3>1
  <2>3. Belong(e.uids, owner)
    BY <2>1 DEF Belong
  <2>4. ASSUME NEW x \in Mid
        PROVE  \/ e.uids[x] = t.uids[x]
               \/ /\ e.uids[x] # 0
                  /\ \E i \in (j + 1) + 1 .. u : ops[i].t = "uid" /\ ops[i].nums[x] = e.uids[x]
    <3>1. CASE p.nums[x] # 0 \/ d.uids[x] = s.uids[x]
      BY <2>1, <2>2, <3>1
    <3>2. CASE p.nums[x] = 0 /\ d.uids[x] # s.uids[x]
      <4>1. d.uids[x] # 0
        BY <1>6, <3>2
      <4>2. PICK i \in j + 1 .. u : ops[i].t = "uid" /\ ops[i].nums[x] = d.uids[x]
        BY <1>6, <3>2
      <4>3. i \in (j + 1) + 1 .. u
        BY <1>1, <1>7, <4>2
      <4>. QED  BY <2>1, <3>2, <4>1, <4>2, <4>3
    <3>. QED  BY <3>1, <3>2
  <2>5. t.next =< e.next /\ e.next =< states[u].next
    BY <1>6, <2>1, <2>2
  <2>. HIDE DEF e, t
  <2>6. Ahead(e, states, ops, j + 1, u)
    BY <2>4, <2>5 DEF Ahead, t
  <2>. QED  BY <2>1, <2>3, <2>6 DEF e
<1>8. CASE p.t = "uid"
  <2>1. Belong(p.nums, owner) /\ Follows(p, s)
    BY <1>1, <1>3, <1>8
  <2>2. Wanted(d, p) = {x \in Mid : p.nums[x] # 0 /\ d.uids[x] = 0}
          /\ Accepted(d, p) = Wanted(d, p)
    <3>1. ASSUME NEW x \in Mid, p.nums[x] # 0, d.uids[x] = 0 PROVE ~ Taken(d, p.nums[x])
      BY <2>1, <3>1 DEF Taken, Belong
    <3>. QED  BY <3>1 DEF Wanted, Accepted
  <2>3. e = ApplyUID(d, p)
    BY <1>8 DEF Apply
  <2>4. e.validity = 1
    <3>1. Wanted(d, p) \ Accepted(d, p) = {}
      BY <2>2
    <3>2. Cardinality(Wanted(d, p) \ Accepted(d, p)) = 0
      BY <3>1, FS_EmptySet
    <3>. QED  BY <2>3, <3>2 DEF ApplyUID
  <2>5. \A x \in Mid : e.uids[x] = IF p.nums[x] # 0 /\ d.uids[x] = 0 THEN p.nums[x] ELSE d.uids[x]
    BY <2>2, <2>3 DEF ApplyUID
  <2>6. e.next >= d.next /\ \A x \in Mid : p.nums[x] # 0 /\ d.uids[x] = 0 => e.next > p.nums[x]
    <3>1. d \in Numbering /\ p \in Op
      BY <1>2, GoodTypes
    <3>. QED  BY <2>2, <2>3, <3>1, NextAfterIs DEF ApplyUID
  <2>15. /\ Apply(s, p).uids = [x \in Mid |-> IF p.nums[x] # 0 THEN p.nums[x] ELSE s.uids[x]]
         /\ \A x \in Mid : p.nums[x] # 0 => Apply(s, p).next > p.nums[x]
    BY <1>2, <1>8, <2>1, ApplyFollows
  <2>7. \A x \in Mid : p.nums[x] # 0 => s.uids[x] = 0 /\ p.nums[x] < t.next
                         /\ t.uids[x] = p.nums[x]
    <3>1. \A x \in Mid : p.nums[x] # 0 => t.uids[x] = p.nums[x] /\ t.next > p.nums[x]
      BY <1>3, <2>15
    <3>. QED  BY <1>4, <2>1, <3>1 DEF Follows
  <2>8. \A x \in Mid : p.nums[x] = 0 => t.uids[x] = s.uids[x]
    BY <1>3, <2>15
  <2>9. Belong(e.uids, owner)
    BY <2>1, <2>5 DEF Belong
  \* Where d has a number other than that of p, a later op gave it.
  <2>10. ASSUME NEW x \in Mid, p.nums[x] # 0, d.uids[x] # 0
         PROVE  \/ d.uids[x] = p.nums[x]
                \/ /\ \E i \in (j + 1) + 1 .. u : ops[i].t = "uid" /\ ops[i].nums[x] = d.uids[x]
                   /\ p.nums[x] < d.uids[x]
    <3>1. d.uids[x] # s.uids[x]
      BY <2>7, <2>10
    <3>2. PICK i \in j + 1 .. u : ops[i].t = "uid" /\ ops[i].nums[x] = d.uids[x]
      BY <1>6, <3>1
    <3>3. CASE i = j + 1
      BY <3>2, <3>3
    <3>4. CASE i # j + 1
      <4>1. i \in (j + 1) + 1 .. u /\ i \in 1 .. Len(ops) /\ i - 1 \in 0 .. Len(ops) /\ j + 1 =< i - 1
        BY <1>1, <3>4
      <4>2. ops[i].nums[x] >= states[i - 1].next
        BY <2>10, <3>2, <4>1, LastIs
      <4>3. t.next =< states[i - 1].next
        BY <1>1, <4>1 DEF IsHistory
      <4>4. states[i - 1].next \in Nat
        BY <4>1, LastIs DEF GoodDoc, Numbering
      <4>5. p.nums[x] < t.next /\ p.nums[x] \in Nat
        BY <1>4, <2>7, <2>10
      <4>6. p.nums[x] < d.uids[x]
        <5>1. d.uids[x] \in Nat /\ ops[i].nums[x] = d.uids[x] /\ t.next \in Nat
          BY <1>4, <3>2
        <5>. HIDE DEF p, t
        <5>. QED  BY SMTT(30), <5>1, <4>2, <4>3, <4>4, <4>5
      <4>. QED  BY <3>2, <4>1, <4>6
    <3>. QED  BY <3>3, <3>4
  <2>11. ASSUME NEW x \in Mid
         PROVE  \/ e.uids[x] = t.uids[x]
                \/ /\ e.uids[x] # 0
                   /\ \E i \in (j + 1) + 1 .. u : ops[i].t = "uid" /\ ops[i].nums[x] = e.uids[x]
    <3>1. CASE p.nums[x] # 0 /\ d.uids[x] = 0
      BY <2>5, <2>7, <3>1
    <3>2. CASE p.nums[x] # 0 /\ d.uids[x] # 0
      BY <2>5, <2>7, <2>10, <3>2
    <3>3. CASE p.nums[x] = 0 /\ d.uids[x] = s.uids[x]
      BY <2>5, <2>8, <3>3
    <3>4. CASE p.nums[x] = 0 /\ d.uids[x] # s.uids[x]
      <4>1. d.uids[x] # 0 /\ e.uids[x] = d.uids[x]
        BY <1>6, <2>5, <3>4
      <4>2. PICK i \in j + 1 .. u : ops[i].t = "uid" /\ ops[i].nums[x] = d.uids[x]
        BY <1>6, <3>4
      <4>3. i \in (j + 1) + 1 .. u
        BY <1>1, <3>4, <4>1, <4>2
      <4>. QED  BY <4>1, <4>2, <4>3
    <3>. QED  BY <3>1, <3>2, <3>3, <3>4
  <2>12. t.next =< e.next
    <3>1. \A x \in Mid : p.nums[x] # 0 => p.nums[x] < e.next
      <4>1. ASSUME NEW x \in Mid, p.nums[x] # 0, d.uids[x] # 0 PROVE p.nums[x] < e.next
        <5>1. d.uids[x] = p.nums[x] \/ p.nums[x] < d.uids[x]
          BY <2>10, <4>1
        <5>2. d.uids[x] < d.next /\ d.next =< e.next
          BY <1>4, <1>5, <2>6
        <5>3. p.nums[x] \in Nat /\ d.uids[x] \in Nat /\ d.next \in Nat /\ e.next \in Nat
          BY <1>4
        <5>. QED  BY <5>1, <5>2, <5>3
      <4>2. ASSUME NEW x \in Mid, p.nums[x] # 0, d.uids[x] = 0 PROVE p.nums[x] < e.next
        <5>1. p.nums[x] \in Nat /\ e.next \in Nat /\ e.next > p.nums[x]
          BY <1>4, <2>6, <4>2
        <5>. QED  BY <5>1
      <4>. QED  BY <4>1, <4>2
    <3>2. t.next = s.next \/ \E x \in Mid : p.nums[x] # 0 /\ t.next = p.nums[x] + 1
      BY <1>2, <1>3, ApplyBounded
    <3>. QED  BY SMTT(30), <1>4, <1>6, <2>6, <3>1, <3>2
  <2>13. e.next =< states[u].next
    <3>1. e.next = d.next \/ \E x \in Mid : p.nums[x] # 0 /\ e.next = p.nums[x] + 1
      BY <1>2, ApplyBounded
    <3>. QED  BY SMTT(30), <1>2, <1>4, <1>6, <2>7, <3>1
  <2>. HIDE DEF e, t
  <2>14. Ahead(e, states, ops, j + 1, u)
    BY <2>11, <2>12, <2>13 DEF Ahead, t
  <2>. QED  BY <2>4, <2>9, <2>14 DEF e
<1>. QED  BY <1>2, <1>7, <1>8

LEMMA AheadEnds ==
  ASSUME NEW states, NEW ops, NEW u \in Nat, NEW d \in GoodDoc, d.validity = 1,
         states[u] \in GoodDoc, states[u].validity = 1, Ahead(d, states, ops, u, u)
  PROVE  d = states[u]
<1>1. \A x \in Mid : d.uids[x] = states[u].uids[x]
  BY DEF Ahead
<1>2. d.next = states[u].next
  BY DEF Ahead, GoodDoc, Numbering
<1>3. d.uids = states[u].uids
  BY <1>1 DEF GoodDoc, Numbering
<1>. QED  BY <1>2, <1>3 DEF GoodDoc, Numbering

-----------------------------------------------------------------------------
(* Every step leaves the ops of the bucket one history.                      *)

\* The parts of SoundInv that the steps below rest on.
LEMMA SoundParts ==
  ASSUME SoundInv
  PROVE  /\ snap \in GoodDoc /\ log \in Seq(GoodOp) /\ Len(log) \in Nat
         /\ \A m \in Machine :
              /\ local[m] \in GoodDoc /\ doc[m] \in GoodDoc /\ base[m] \in GoodDoc
              /\ pending[m] \in Seq(GoodOp) /\ work[m] \in Seq(GoodOp)
BY LenProperties DEF SoundInv, DocsGood, OpsGood

LEMMA GoodFields ==
  ASSUME NEW d \in GoodDoc
  PROVE  /\ d.next \in Nat /\ d.uids \in [Mid -> Nat] /\ \A x \in Mid : d.uids[x] < d.next
BY DEF GoodDoc, Numbering, Sound

LEMMA NewBelongs == \A owner : New.validity = 1 /\ Belong(New.uids, owner)
BY DEF New, Belong

\* Where the log stays, so does its history.
LEMMA SameHistory ==
  ASSUME NEW states, NEW owner, Account(states, owner), UNCHANGED <<log, snap>>
  PROVE  IsHistory(states, snap, log)'
BY DEF Account

LEMMA InitHistory == Init => HistoryInv
<1>. SUFFICES ASSUME Init PROVE \E states, owner : Account(states, owner)
  BY DEF HistoryInv
<1>. DEFINE states == [i \in 0 .. 0 |-> New]
            owner == [n \in Nat |-> n]
<1>1. log = <<>> /\ Len(log) = 0 /\ snap = New /\ states[0] = New /\ states[Len(log)] = New
  BY DEF Init
<1>2. IsHistory(states, snap, log)
  <2>1. states \in [0 .. 0 -> GoodDoc]
    BY NewGood
  <2>2. \A i \in 0 .. 0 : i = 0
    OBVIOUS
  <2>3. New.validity = 1 /\ New.next = 1
    BY DEF New
  <2>. QED  BY <1>1, <2>1, <2>2, <2>3 DEF IsHistory
<1>3. OneOwner(states[Len(log)], owner)
  <2>1. \A d : d = New => Accounted(d, New, owner)
    BY NewBelongs DEF Accounted, New
  <2>. QED  BY <1>1, <2>1, NewBelongs DEF OneOwner, Init
<1>4. WritesApart(states[Len(log)], owner)
  BY DEF WritesApart, Init
<1>5. LoadsCatchUp(states)
  BY DEF LoadsCatchUp, Init
<1>6. FreshKnowsAll(states[Len(log)])
  BY <1>1 DEF FreshKnowsAll, Init
<1>. HIDE DEF states, owner
<1>. QED  BY <1>2, <1>3, <1>4, <1>5, <1>6 DEF Account

LEMMA ArriveHistory ==
  ASSUME NEW states, NEW owner, Account(states, owner),
         UNCHANGED <<log, snap, local, doc, pending, pc, base, work, upto, fresh, given>>
  PROVE  Account(states, owner)'
BY DEF Account, OneOwner, WritesApart, WritesOne, Queued, LoadsCatchUp, CatchesUp, FreshKnowsAll

LEMMA RestartHistory ==
  ASSUME SoundInv, NEW states, NEW owner, Account(states, owner), NEW m \in Machine, Restart(m)
  PROVE  Account(states, owner)'
<1>. USE DEF SoundInv, TypeOK
<1>1. /\ UNCHANGED <<log, snap, local, doc, fresh, given>>
      /\ pc[m] # "load" /\ pc'[m] = "reload" /\ pending'[m] = <<>> /\ base'[m] = New
      /\ work'[m] = <<>> /\ upto'[m] = 0
      /\ \A k \in Machine \ {m} : /\ pc'[k] = pc[k] /\ pending'[k] = pending[k]
                                  /\ base'[k] = base[k] /\ work'[k] = work[k]
                                  /\ upto'[k] = upto[k]
  BY DEF Restart, history
<1>2. IsHistory(states, snap, log)'
  BY <1>1, SameHistory
<1>3. OneOwner(states[Len(log)], owner)'
  BY ZenonT(30), <1>1, NewBelongs DEF Account, OneOwner
<1>4. WritesApart(states[Len(log)], owner)'
  <2>1. ASSUME NEW k \in Machine \ {m}, pc[k] = "mutate", WritesOne(k, states[Len(log)], owner)
        PROVE  WritesOne(k, states[Len(log)], owner)'
    <3>1. Queued(k)' = Queued(k) /\ Len(pending[k])' = Len(pending[k])
      BY <1>1 DEF Queued
    <3>2. \A k2 \in Machine \ {k} : pc'[k2] = "mutate" => k2 # m /\ pc[k2] = "mutate"
      BY <1>1
    <3>3. \A k2 \in Machine \ {m} : Queued(k2)' = Queued(k2)
      BY <1>1 DEF Queued
    <3>. QED  BY SMTT(30), <1>1, <2>1, <3>1, <3>2, <3>3 DEF WritesOne
  <2>2. ASSUME NEW k \in Machine \ {m}
        PROVE  IF pc'[k] = "mutate" THEN WritesOne(k, states[Len(log)], owner)' ELSE pending'[k] = <<>>
    BY <1>1, <2>1 DEF Account, WritesApart
  <2>. QED  BY <1>1, <2>2 DEF WritesApart
<1>5. LoadsCatchUp(states)'
  <2>1. ASSUME NEW k \in Machine \ {m}, pc[k] = "load", CatchesUp(k, states)
        PROVE  CatchesUp(k, states)'
    BY <1>1, <2>1 DEF CatchesUp
  <2>2. ASSUME NEW k \in Machine \ {m}
        PROVE  IF pc'[k] = "load" THEN CatchesUp(k, states)'
               ELSE work'[k] = <<>> /\ (pc'[k] # "mutate" => base'[k] = New)
    BY <1>1, <2>1 DEF Account, LoadsCatchUp
  <2>. QED  BY <1>1, <2>2 DEF LoadsCatchUp
<1>6. FreshKnowsAll(states[Len(log)])'
  BY <1>1 DEF Account, FreshKnowsAll
<1>. QED  BY <1>2, <1>3, <1>4, <1>5, <1>6 DEF Account

LEMMA ApplyNextHistory ==
  ASSUME SoundInv, NEW states, NEW owner, Account(states, owner), NEW m \in Machine, ApplyNext(m)
  PROVE  Account(states, owner)'
<1>. USE DEF SoundInv, TypeOK
<1>1. /\ UNCHANGED <<log, snap, local, doc, pending, pc, upto, fresh, given>>
      /\ work[m] # <<>> /\ work'[m] = Tail(work[m]) /\ base'[m] = Apply(base[m], Head(work[m]))
      /\ \A k \in Machine \ {m} : base'[k] = base[k] /\ work'[k] = work[k]
  BY DEF ApplyNext, bucket, machine, history
<1>2. pc[m] = "load" /\ upto[m] =< Len(log) /\ upto[m] \in Nat /\ Len(log) \in Nat
        /\ (\A k \in Machine : pc[k] = "load" => k = m)
        /\ (m \in fresh => upto[m] = Len(log))
  BY <1>1, SoundParts DEF Account, LoadsCatchUp, CatchesUp
<1>3. PICK j \in 0 .. upto[m] : /\ work[m] = SubSeq(log, j + 1, upto[m])
                                /\ Ahead(base[m], states, log, j, upto[m])
  BY <1>2 DEF Account, LoadsCatchUp, CatchesUp
<1>. DEFINE u == upto[m]
            n == Len(work[m])
<1>4. /\ j < u /\ Head(work[m]) = log[j + 1] /\ Tail(work[m]) = SubSeq(log, j + 1 + 1, u)
  <2>1. log \in Seq(GoodOp) /\ work[m] \in Seq(GoodOp)
    BY SoundParts
  <2>2. \A i \in j + 1 .. u : log[i] \in GoodOp
    BY <1>2, <2>1, ElementOfSeq
  <2>3. \A i \in j + 2 .. u : log[i] \in GoodOp
    BY <1>2, <2>1, ElementOfSeq
  <2>4. /\ n = IF j + 1 =< u THEN u - (j + 1) + 1 ELSE 0
        /\ \A i \in 1 .. u - (j + 1) + 1 : work[m][i] = log[j + 1 + i - 1]
    BY <1>2, <1>3, <2>2, SubSeqProperties
  <2>5. n # 0
    BY <1>1, <2>1, EmptySeq, LenProperties
  <2>6. j + 1 =< u
    BY <2>4, <2>5
  <2>7. Head(work[m]) = log[j + 1]
    <3>1. 1 \in 1 .. u - (j + 1) + 1 /\ j + 1 + 1 - 1 = j + 1
      BY <1>2, <2>6
    <3>2. work[m][1] = log[j + 1]
      BY <2>4, <3>1
    <3>. QED  BY <1>1, <2>1, <3>2, HeadTailProperties
  <2>8. Tail(work[m]) = SubSeq(log, j + 1 + 1, u)
    <3>. DEFINE rest == SubSeq(log, j + 2, u)
    <3>1. /\ rest \in Seq(GoodOp)
          /\ Len(rest) = IF j + 2 =< u THEN u - (j + 2) + 1 ELSE 0
          /\ \A i \in 1 .. u - (j + 2) + 1 : rest[i] = log[j + 2 + i - 1]
      BY SMTT(30), <1>2, <2>3, SubSeqProperties
    <3>2. /\ Tail(work[m]) \in Seq(GoodOp) /\ Len(Tail(work[m])) = n - 1
          /\ \A i \in 1 .. n - 1 : Tail(work[m])[i] = work[m][i + 1]
      BY <1>1, <2>1, HeadTailProperties
    <3>. HIDE DEF rest, n
    <3>3. Len(rest) = n - 1 /\ n = u - j /\ n - 1 \in Nat
      BY SMTT(30), <1>2, <2>4, <2>6, <3>1
    <3>4. ASSUME NEW i \in 1 .. n - 1 PROVE Tail(work[m])[i] = rest[i]
      <4>1. i \in 1 .. u - (j + 2) + 1 /\ i + 1 \in 1 .. u - (j + 1) + 1
              /\ j + 2 + i - 1 = j + 1 + (i + 1) - 1
        BY SMTT(30), <1>2, <3>3
      <4>. QED  BY <2>4, <3>1, <3>2, <4>1
    <3>5. Tail(work[m]) = rest
      BY <3>1, <3>2, <3>3, <3>4, SeqEqual
    <3>6. j + 1 + 1 = j + 2
      OBVIOUS
    <3>. QED  BY <3>5, <3>6 DEF rest
  <2>. QED  BY SMTT(30), <1>2, <2>6, <2>7, <2>8
<1>5. /\ base'[m].validity = 1 /\ Belong(base'[m].uids, owner)
      /\ Ahead(base'[m], states, log, j + 1, u)
  <2>1. /\ IsHistory(states, snap, log) /\ base[m].validity = 1 /\ Belong(base[m].uids, owner)
        /\ \A i \in 1 .. Len(log) : log[i].t = "uid" => Belong(log[i].nums, owner)
    BY DEF Account, OneOwner
  <2>2. log \in Seq(GoodOp) /\ base[m] \in GoodDoc /\ u \in 0 .. Len(log)
    BY <1>2, SoundParts
  <2>3. /\ Apply(base[m], log[j + 1]).validity = 1
        /\ Belong(Apply(base[m], log[j + 1]).uids, owner)
        /\ Ahead(Apply(base[m], log[j + 1]), states, log, j + 1, u)
    BY <1>3, <1>4, <2>1, <2>2, AheadStep
  <2>. QED  BY <1>1, <1>4, <2>3
<1>6. IsHistory(states, snap, log)'
  BY <1>1, SameHistory
<1>7. OneOwner(states[Len(log)], owner)'
  BY <1>1, <1>5 DEF Account, OneOwner
<1>8. WritesApart(states[Len(log)], owner)'
  BY ZenonT(30), <1>1, <1>2 DEF Account, WritesApart, WritesOne, Queued
<1>9. LoadsCatchUp(states)'
  <2>1. ASSUME NEW k \in Machine, pc[k] # "load"
        PROVE  work'[k] = <<>> /\ (pc'[k] # "mutate" => base'[k] = New)
    BY <1>1, <1>2, <2>1 DEF Account, LoadsCatchUp
  <2>2. \E i \in 0 .. u : /\ work'[m] = SubSeq(log, i + 1, u)
                          /\ Ahead(base'[m], states, log, i, u)
    <3>1. j + 1 \in 0 .. u
      BY <1>2, <1>4
    <3>. QED  BY <1>1, <1>4, <1>5, <3>1
  <2>. QED  BY ZenonT(30), <1>1, <1>2, <2>1, <2>2 DEF LoadsCatchUp, CatchesUp
<1>10. FreshKnowsAll(states[Len(log)])'
  BY <1>1 DEF Account, FreshKnowsAll
<1>. QED  BY <1>6, <1>7, <1>8, <1>9, <1>10 DEF Account

LEMMA LoadBaseHistory ==
  ASSUME SoundInv, NEW states, NEW owner, Account(states, owner), NEW m \in Machine, LoadBase(m),
         met' = {}
  PROVE  Account(states, owner)'
<1>. USE DEF SoundInv, TypeOK
<1>1. /\ UNCHANGED <<log, snap, local, doc, pending, given>>
      /\ pc[m] \notin {"load", "mutate"} /\ pc'[m] = "load"
      /\ base'[m] = MergeMissing(snap, local[m]) /\ work'[m] = log \o pending[m]
      /\ upto'[m] = Len(log)
      /\ \A k \in Machine \ {m} : /\ pc'[k] = pc[k] /\ base'[k] = base[k] /\ work'[k] = work[k]
                                  /\ pc[k] # "load" /\ (k \in fresh' <=> k \in fresh)
      /\ fresh' \subseteq Machine /\ ~ Revived(m)
  BY DEF LoadBase, bucket, machine
<1>2. pending[m] = <<>>
  BY <1>1 DEF Account, WritesApart
<1>3. work'[m] = log /\ log = SubSeq(log, 0 + 1, Len(log))
  <2>1. log \in Seq(GoodOp) /\ Len(log) \in Nat /\ \A i \in 1 .. Len(log) : log[i] \in GoodOp
    BY SoundParts, ElementOfSeq
  <2>2. log \o <<>> = log
    BY <2>1, ConcatEmptySeq
  <2>. DEFINE all == SubSeq(log, 1, Len(log))
  <2>3. /\ all \in Seq(GoodOp) /\ Len(all) = IF 1 =< Len(log) THEN Len(log) - 1 + 1 ELSE 0
        /\ \A i \in 1 .. Len(log) - 1 + 1 : all[i] = log[1 + i - 1]
    BY <2>1, SubSeqProperties
  <2>. HIDE DEF all
  <2>4. Len(all) = Len(log) /\ \A i \in 1 .. Len(log) : all[i] = log[i]
    BY <2>1, <2>3
  <2>5. all = log
    BY <2>1, <2>3, <2>4, SeqEqual
  <2>. QED  BY <1>1, <1>2, <2>2, <2>5 DEF all
<1>4. /\ base'[m].validity = 1 /\ Belong(base'[m].uids, owner)
      /\ Ahead(base'[m], states, log, 0, Len(log))
  <2>1. /\ IsHistory(states, snap, log) /\ Accounted(local[m], states[Len(log)], owner)
        /\ Belong(snap.uids, owner)
    BY DEF Account, OneOwner
  <2>2. snap \in GoodDoc /\ local[m] \in GoodDoc /\ log \in Seq(GoodOp)
    BY SoundParts
  <2>3. log \o pending[m] = log
    BY <1>1, <1>3
  <2>4. \A x \in Mid : local[m].uids[x] # 0 /\ Missing(snap, local[m], x) =>
          \E i \in 1 .. Len(log) : log[i].t # "leave" /\ log[i].nums[x] = local[m].uids[x]
    <3>1. Revived(m) <=> \E x \in Mid :
            /\ local[m].uids[x] # 0 /\ Missing(snap, local[m], x)
            /\ \A i \in 1 .. Len(log) :
                 log[i].t = "leave" \/ log[i].nums[x] # local[m].uids[x]
      BY <2>3 DEF Revived
    <3>. QED  BY <1>1, <3>1
  <2>5. /\ MergeMissing(snap, local[m]).validity = 1
        /\ Belong(MergeMissing(snap, local[m]).uids, owner)
        /\ Ahead(MergeMissing(snap, local[m]), states, log, 0, Len(log))
    BY <2>1, <2>2, <2>4, MergeAhead
  <2>. QED  BY <1>1, <2>5
<1>5. IsHistory(states, snap, log)'
  BY <1>1, SameHistory
<1>6. OneOwner(states[Len(log)], owner)'
  BY ZenonT(30), <1>1, <1>4 DEF Account, OneOwner
<1>7. WritesApart(states[Len(log)], owner)'
  <2>1. ASSUME NEW k \in Machine \ {m}, pc[k] = "mutate", WritesOne(k, states[Len(log)], owner)
        PROVE  WritesOne(k, states[Len(log)], owner)'
    <3>1. \A k2 \in Machine : Queued(k2)' = Queued(k2) /\ (pc'[k2] = "mutate" => pc[k2] = "mutate")
      BY <1>1 DEF Queued
    <3>. QED  BY SMTT(30), <1>1, <2>1, <3>1 DEF WritesOne
  <2>2. ASSUME NEW k \in Machine \ {m}
        PROVE  IF pc'[k] = "mutate" THEN WritesOne(k, states[Len(log)], owner)' ELSE pending'[k] = <<>>
    BY <1>1, <2>1 DEF Account, WritesApart
  <2>. QED  BY <1>1, <1>2, <2>2 DEF WritesApart
<1>8. LoadsCatchUp(states)'
  <2>1. CatchesUp(m, states)'
    <3>1. Len(log) \in Nat /\ 0 \in 0 .. Len(log)
      BY SoundParts
    <3>2. \A k \in Machine : pc'[k] = "load" => k = m
      BY <1>1
    <3>. QED  BY <1>1, <1>3, <1>4, <3>1, <3>2 DEF CatchesUp
  <2>2. ASSUME NEW k \in Machine \ {m}
        PROVE  pc'[k] # "load" /\ work'[k] = <<>> /\ (pc'[k] # "mutate" => base'[k] = New)
    BY <1>1 DEF Account, LoadsCatchUp
  <2>. QED  BY <1>1, <2>1, <2>2 DEF LoadsCatchUp
<1>9. FreshKnowsAll(states[Len(log)])'
  BY <1>1 DEF Account, FreshKnowsAll
<1>. QED  BY <1>5, <1>6, <1>7, <1>8, <1>9 DEF Account

\* What Show does when no race and no failed write has happened.
LEMMA ShowIs ==
  ASSUME SoundInv, NEW m \in Machine, Show(m), met = {}
  PROVE  /\ doc'[m] = base[m] /\ base'[m] = New
         /\ \A k \in Machine \ {m} : doc'[k] = doc[k] /\ base'[k] = base[k] /\ upto'[k] = upto[k]
         /\ \A p \in given' : p \in given \/ \E x \in Mid : base[m].uids[x] # 0 /\ p = <<base[m].uids[x], x>>
BY DEF Show, SoundInv, TypeOK

\* Numbers shown from a document that is accounted for have their owner.
LEMMA GivenBelong ==
  ASSUME SoundInv, NEW m \in Machine, NEW last \in GoodDoc, NEW next \in GoodDoc, NEW owner,
         \A p \in given : p[1] < last.next /\ owner[p[1]] = p[2],
         last.next =< next.next, Accounted(base[m], next, owner),
         \A p \in given' : p \in given \/ \E x \in Mid : base[m].uids[x] # 0 /\ p = <<base[m].uids[x], x>>
  PROVE  \A p \in given' : p[1] < next.next /\ owner[p[1]] = p[2]
<1>. TAKE p \in given'
<1>1. last.next \in Nat /\ next.next \in Nat /\ base[m] \in GoodDoc
  BY SoundParts, GoodFields
<1>2. CASE p \in given
  <2>1. p[1] \in Nat
    BY <1>2 DEF SoundInv, TypeOK
  <2>. QED  BY <1>1, <1>2, <2>1
<1>3. CASE \E x \in Mid : base[m].uids[x] # 0 /\ p = <<base[m].uids[x], x>>
  <2>1. PICK x \in Mid : base[m].uids[x] # 0 /\ p = <<base[m].uids[x], x>>
    BY <1>3
  <2>2. base[m].uids[x] < base[m].next /\ base[m].uids[x] \in Nat /\ base[m].next \in Nat
    BY <1>1, GoodFields
  <2>. QED  BY <1>1, <2>1, <2>2 DEF Accounted, Belong
<1>. QED  BY <1>2, <1>3

LEMMA InstalledHistory ==
  ASSUME SoundInv, NEW states, NEW owner, Account(states, owner), NEW m \in Machine, Installed(m),
         met = {}
  PROVE  \E s : Account(s, owner)'
<1>. DEFINE n == Len(log)
            u == upto[m]
            last == states[n]
<1>1. /\ UNCHANGED <<local, pending, work, fresh, met>>
      /\ pc[m] = "load" /\ pc'[m] = "idle" /\ work[m] = <<>>
      /\ doc'[m] = base[m] /\ base'[m] = New
      /\ \A k \in Machine \ {m} : /\ pc'[k] = pc[k] /\ doc'[k] = doc[k] /\ base'[k] = base[k]
                                  /\ upto'[k] = upto[k]
      /\ \A p \in given' : p \in given \/ \E x \in Mid : base[m].uids[x] # 0 /\ p = <<base[m].uids[x], x>>
  BY ShowIs DEF Installed, SoundInv, TypeOK
<1>2. /\ log \in Seq(GoodOp) /\ n \in Nat /\ u \in Nat /\ u =< n /\ (m \in fresh => u = n)
      /\ \A k \in Machine : pc[k] = "load" => k = m
  BY <1>1, SoundParts DEF Account, LoadsCatchUp, CatchesUp, SoundInv, TypeOK
<1>3. PICK j \in 0 .. u : <<>> = SubSeq(log, j + 1, u) /\ Ahead(base[m], states, log, j, u)
  BY <1>1 DEF Account, LoadsCatchUp, CatchesUp
<1>4. j = u
  <2>1. \A i \in j + 1 .. u : log[i] \in GoodOp
    BY <1>2, ElementOfSeq
  <2>2. Len(SubSeq(log, j + 1, u)) = IF j + 1 =< u THEN u - (j + 1) + 1 ELSE 0
    BY <1>2, <2>1, SubSeqProperties
  <2>3. Len(SubSeq(log, j + 1, u)) = 0
    BY <1>3, EmptySeq
  <2>4. ~ (j + 1 =< u)
    BY <1>2, <2>2, <2>3
  <2>. QED  BY <1>2, <2>4
<1>5. /\ IsHistory(states, snap, log) /\ OneOwner(last, owner) /\ WritesApart(last, owner)
      /\ LoadsCatchUp(states) /\ FreshKnowsAll(last)
  BY DEF Account
<1>6. /\ \A i \in 0 .. n : states[i] \in GoodDoc /\ states[i].validity = 1 /\ states[i].next =< last.next
      /\ u \in 0 .. n /\ n \in 0 .. n
  BY <1>2, <1>5, LastIs
<1>7. base[m] = states[u]
  <2>1. base[m].validity = 1 /\ base[m] \in GoodDoc
    BY <1>5, SoundParts DEF OneOwner
  <2>. QED  BY <1>2, <1>3, <1>4, <1>6, <2>1, AheadEnds
<1>8. Accounted(base[m], last, owner)
  BY <1>5, <1>6, <1>7 DEF OneOwner, Accounted
<1>. HIDE DEF last
<1>9. \A p \in given' : p[1] < last.next /\ owner[p[1]] = p[2]
  <2>1. last \in GoodDoc /\ last.next =< last.next
    BY <1>6, GoodFields DEF last
  <2>2. \A p \in given : p[1] < last.next /\ owner[p[1]] = p[2]
    BY <1>5 DEF OneOwner
  <2>. QED  BY <1>1, <1>8, <2>1, <2>2, GivenBelong
\* Whichever ops are merged away, the folder after the last one is the same.
<1>10. PICK s : /\ IsHistory(s, snap', log') /\ s[Len(log')] = last
                /\ \A i \in 1 .. Len(log') : log'[i].t = "uid" => Belong(log'[i].nums, owner)
                /\ Belong(snap'.uids, owner)
  <2>1. CASE UNCHANGED <<snap, log>>
    BY <1>5, <2>1 DEF OneOwner, last
  <2>2. CASE snap' = base[m] /\ log' = SubSeq(log, u + 1, n)
    <3>. DEFINE s0 == Shrunk(states, n, u)
                rest == SubSeq(log, u + 1, n)
    <3>1. /\ Len(rest) = n - u /\ s0[n - u] = states[n] /\ IsHistory(s0, states[u], rest)
          /\ \A i \in 1 .. n - u : i + u \in 1 .. n /\ rest[i] = log[i + u]
      BY ZenonT(30), <1>2, <1>5, <1>6, HistoryShrinks
    <3>2. \A i \in 1 .. Len(rest) : rest[i].t = "uid" => Belong(rest[i].nums, owner)
      BY <1>5, <3>1 DEF OneOwner
    <3>3. Belong(base[m].uids, owner)
      BY <1>8 DEF Accounted
    <3>. HIDE DEF s0, rest
    <3>. QED  BY <1>7, <2>2, <3>1, <3>2, <3>3 DEF last, rest
  <2>. QED  BY <2>1, <2>2 DEF Installed
<1>11. OneOwner(s[Len(log)], owner)'
  BY <1>1, <1>5, <1>8, <1>9, <1>10, NewBelongs DEF OneOwner
<1>12. WritesApart(s[Len(log)], owner)'
  <2>1. ASSUME NEW k \in Machine \ {m}, pc[k] = "mutate", WritesOne(k, last, owner)
        PROVE  WritesOne(k, s[Len(log)], owner)'
    <3>1. \A k2 \in Machine : Queued(k2)' = Queued(k2) /\ (pc'[k2] = "mutate" => pc[k2] = "mutate")
      BY <1>1 DEF Queued
    <3>. QED  BY <1>1, <1>10, <2>1, <3>1 DEF WritesOne
  <2>2. ASSUME NEW k \in Machine \ {m}
        PROVE  IF pc'[k] = "mutate" THEN WritesOne(k, s[Len(log)], owner)' ELSE pending'[k] = <<>>
    BY <1>1, <1>5, <2>1 DEF WritesApart
  <2>. QED  BY <1>1, <1>5, <2>2 DEF WritesApart
<1>13. LoadsCatchUp(s)'
  <2>1. ASSUME NEW k \in Machine
        PROVE  pc'[k] # "load" /\ work'[k] = <<>> /\ (pc'[k] # "mutate" => base'[k] = New)
    BY <1>1, <1>2, <1>5 DEF LoadsCatchUp
  <2>. QED  BY <2>1 DEF LoadsCatchUp
<1>14. FreshKnowsAll(s[Len(log)])'
  <2>1. m \in fresh => base[m] = last
    BY <1>2, <1>7 DEF last
  <2>. QED  BY <1>1, <1>2, <1>5, <1>10, <2>1 DEF FreshKnowsAll, SoundInv, TypeOK
<1>15. Account(s, owner)'
  BY <1>10, <1>11, <1>12, <1>13, <1>14 DEF Account
<1>. QED  BY <1>15

\* While nobody writes, numbers at or above Next can get any owner.
LEMMA OwnerExtends ==
  ASSUME SoundInv, NEW states, NEW owner, Account(states, owner), NEW owner2,
         \A k \in Machine : pc[k] # "mutate",
         \A n \in Nat : n < states[Len(log)].next => owner2[n] = owner[n]
  PROVE  Account(states, owner2)
<1>. DEFINE last == states[Len(log)]
<1>1. /\ log \in Seq(GoodOp) /\ snap \in GoodDoc /\ Len(log) \in Nat
      /\ \A m \in Machine : local[m] \in GoodDoc /\ doc[m] \in GoodDoc /\ base[m] \in GoodDoc
  BY SoundParts
<1>2. /\ IsHistory(states, snap, log) /\ OneOwner(last, owner) /\ WritesApart(last, owner)
      /\ LoadsCatchUp(states) /\ FreshKnowsAll(last)
  BY DEF Account
<1>3. /\ last \in GoodDoc /\ last.next \in Nat
      /\ \A i \in 0 .. Len(log) : states[i] \in GoodDoc /\ states[i].next =< last.next
                                    /\ states[i].next \in Nat
  BY <1>1, <1>2, LastIs, GoodFields
<1>4. \A n \in Nat : n < last.next => owner2[n] = owner[n]
  OBVIOUS
<1>. HIDE DEF last
<1>5. ASSUME NEW d \in GoodDoc, d.next =< last.next, Belong(d.uids, owner)
      PROVE  Belong(d.uids, owner2)
  <2>1. d.uids \in [Mid -> Nat] /\ d.next \in Nat /\ \A x \in Mid : d.uids[x] < d.next
    BY GoodFields
  <2>2. \A x \in Mid : d.uids[x] # 0 => d.uids[x] < last.next
    BY <1>3, <1>5, <2>1
  <2>. QED  BY <1>4, <1>5, <2>1, <2>2 DEF Belong
<1>6. ASSUME NEW i \in 1 .. Len(log), log[i].t = "uid"
      PROVE  Belong(log[i].nums, owner2)
  <2>1. log[i].nums \in [Mid -> Nat] /\ Belong(log[i].nums, owner)
    BY <1>1, <1>2, <1>6, ElementOfSeq DEF OneOwner, GoodOp, Op
  <2>2. i \in 0 .. Len(log)
    BY <1>1
  <2>3. \A x \in Mid : log[i].nums[x] # 0 => log[i].nums[x] < states[i].next
    BY <1>1, <1>2, <1>6, LastIs
  <2>4. \A x \in Mid : log[i].nums[x] # 0 => log[i].nums[x] < last.next
    BY <1>3, <2>1, <2>2, <2>3
  <2>. QED  BY <1>4, <2>1, <2>4 DEF Belong
<1>7. ASSUME NEW m \in Machine PROVE Belong(base[m].uids, owner2)
  <2>1. CASE pc[m] = "load"
    <3>1. PICK j \in 0 .. upto[m] : Ahead(base[m], states, log, j, upto[m])
      BY <1>2, <2>1 DEF LoadsCatchUp, CatchesUp
    <3>2. upto[m] \in 0 .. Len(log)
      BY <1>2, <2>1 DEF LoadsCatchUp, CatchesUp, SoundInv, TypeOK
    <3>3. base[m].next =< states[upto[m]].next /\ base[m].next \in Nat
      BY <1>1, <3>1, GoodFields DEF Ahead
    <3>4. base[m].next =< last.next
      BY <1>3, <3>2, <3>3
    <3>. QED  BY <1>1, <1>2, <1>5, <3>4 DEF OneOwner
  <2>2. CASE pc[m] # "load"
    BY <1>2, <2>2, NewBelongs DEF LoadsCatchUp
  <2>. QED  BY <2>1, <2>2
<1>8. snap.next =< last.next
  <2>1. 0 \in 0 .. Len(log) /\ states[0] = snap
    BY <1>1, <1>2 DEF IsHistory
  <2>. QED  BY <1>3, <2>1
<1>9. \A p \in given : p[1] < last.next /\ owner2[p[1]] = p[2]
  <2>1. \A p \in given : p[1] \in Nat
    BY DEF SoundInv, TypeOK
  <2>. QED  BY <1>2, <1>4, <2>1 DEF OneOwner
<1>10. OneOwner(last, owner2)
  <2>1. Belong(snap.uids, owner2)
    BY <1>1, <1>2, <1>5, <1>8 DEF OneOwner
  <2>2. \A m \in Machine : Accounted(local[m], last, owner2) /\ Accounted(doc[m], last, owner2)
    BY <1>1, <1>2, <1>5 DEF OneOwner, Accounted
  <2>3. \A m \in Machine : base[m].validity = 1
    BY <1>2 DEF OneOwner
  <2>. QED  BY <1>6, <1>7, <1>9, <2>1, <2>2, <2>3 DEF OneOwner
<1>11. WritesApart(last, owner2)
  BY <1>2 DEF WritesApart
<1>. QED  BY <1>2, <1>10, <1>11 DEF Account, last

\* An op is queued: a numbering one by a machine that knows all, alone.
LEMMA MutateHistory ==
  ASSUME SoundInv, NEW states, NEW owner, Account(states, owner), NEW m \in Machine,
         NEW op \in GoodOp, Mutate(m, op),
         op.t = "uid" => /\ m \in fresh /\ Follows(op, doc[m]) /\ Belong(op.nums, owner)
                         /\ \A k \in Machine \ {m} : pc[k] # "mutate"
  PROVE  Account(states, owner)'
<1>. DEFINE last == states[Len(log)]
<1>1. /\ UNCHANGED <<log, snap, local, doc, work, upto, fresh, given>>
      /\ pc[m] = "idle" /\ pc'[m] = "mutate" /\ base'[m] = Apply(doc[m], op)
      /\ pending'[m] = Append(pending[m], op)
      /\ \A k \in Machine \ {m} : pc'[k] = pc[k] /\ base'[k] = base[k] /\ pending'[k] = pending[k]
  BY DEF Mutate, SoundInv, TypeOK
<1>2. /\ IsHistory(states, snap, log) /\ OneOwner(last, owner) /\ WritesApart(last, owner)
      /\ LoadsCatchUp(states) /\ FreshKnowsAll(last)
  BY DEF Account
<1>3. Queued(m)' = op /\ Len(pending'[m]) = 1
  <2>1. pending[m] = <<>>
    BY <1>1, <1>2 DEF WritesApart
  <2>. QED  BY <1>1, <2>1 DEF Queued
<1>4. doc[m] \in GoodDoc /\ Accounted(doc[m], last, owner) /\ (m \in fresh => doc[m] = last)
  BY <1>1, <1>2, SoundParts DEF OneOwner, FreshKnowsAll
<1>. HIDE DEF last
<1>5. base'[m].validity = 1
  BY <1>1, <1>4, ApplyRises DEF Accounted
<1>6. Belong(base'[m].uids, owner)
  <2>1. CASE op.t = "uid"
    <3>1. Apply(doc[m], op).uids =
            [x \in Mid |-> IF op.nums[x] # 0 THEN op.nums[x] ELSE doc[m].uids[x]]
      BY <1>4, <2>1, ApplyFollows
    <3>. QED  BY <1>1, <1>4, <2>1, <3>1 DEF Belong, Accounted
  <2>2. CASE op.t = "leave"
    <3>1. Apply(doc[m], op).uids = [x \in Mid |-> IF op.nums[x] # 0 THEN 0 ELSE doc[m].uids[x]]
      BY <1>4, <2>2, ApplyRetire
    <3>. QED  BY <1>1, <1>4, <3>1 DEF Belong, Accounted
  <2>. QED  BY <2>1, <2>2 DEF GoodOp, Op
<1>7. \/ base'[m].next =< last.next
      \/ op.t = "uid" /\ \E x \in Mid : op.nums[x] # 0 /\ base'[m].next =< op.nums[x] + 1
  <2>1. \/ base'[m].next = doc[m].next
        \/ op.t = "uid" /\ \E x \in Mid : op.nums[x] # 0 /\ base'[m].next = op.nums[x] + 1
    BY <1>1, <1>4, ApplyBounded
  <2>2. \A x \in Mid : op.nums[x] \in Nat
    BY DEF GoodOp, Op
  <2>. QED  BY <1>4, <2>1, <2>2 DEF Accounted
<1>8. IsHistory(states, snap, log)' /\ last' = last
  BY <1>1, SameHistory DEF last
<1>9. OneOwner(states[Len(log)], owner)'
  BY <1>1, <1>2, <1>5, <1>6 DEF OneOwner, last
<1>10. WritesApart(states[Len(log)], owner)'
  <2>1. WritesOne(m, states[Len(log)], owner)'
    <3>1. m \in fresh' => base'[m] = Apply(last, op)
      BY <1>1, <1>4
    <3>2. op.t = "uid" =>
            /\ Belong(op.nums, owner) /\ Follows(op, last)
            /\ \A k \in Machine \ {m} : pc'[k] = "mutate" => Queued(k)'.t = "leave"
      BY <1>1, <1>4
    <3>. QED  BY <1>1, <1>3, <1>7, <3>1, <3>2 DEF WritesOne, last
  <2>2. ASSUME NEW k \in Machine \ {m}, pc[k] = "mutate", WritesOne(k, last, owner)
        PROVE  WritesOne(k, states[Len(log)], owner)'
    <3>1. op.t = "leave"
      BY <2>2 DEF GoodOp, Op
    <3>2. \A k2 \in Machine \ {m} : Queued(k2)' = Queued(k2) /\ pc'[k2] = pc[k2]
      BY <1>1 DEF Queued
    <3>. QED  BY <1>1, <1>3, <2>2, <3>1, <3>2 DEF WritesOne, last
  <2>3. ASSUME NEW k \in Machine \ {m}
        PROVE  IF pc'[k] = "mutate" THEN WritesOne(k, states[Len(log)], owner)' ELSE pending'[k] = <<>>
    BY <1>1, <1>2, <2>2 DEF WritesApart
  <2>. QED  BY <1>1, <2>1, <2>3 DEF WritesApart
<1>11. LoadsCatchUp(states)'
  <2>1. ASSUME NEW k \in Machine, pc[k] = "load", CatchesUp(k, states)
        PROVE  CatchesUp(k, states)'
    <3>1. k # m /\ \A k2 \in Machine : pc'[k2] = "load" => pc[k2] = "load"
      BY <1>1, <2>1
    <3>. QED  BY <1>1, <2>1, <3>1 DEF CatchesUp
  <2>. QED  BY <1>1, <1>2, <2>1 DEF LoadsCatchUp
<1>12. FreshKnowsAll(states[Len(log)])'
  <2>1. ASSUME NEW k \in fresh', pc'[k] # "load" PROVE doc'[k] = last
    <3>1. k \in fresh /\ k \in Machine
      BY <1>1 DEF SoundInv, TypeOK
    <3>. QED  BY <1>1, <1>2, <1>4, <2>1, <3>1 DEF FreshKnowsAll
  <2>. QED  BY <1>1, <2>1 DEF FreshKnowsAll, last
<1>. QED  BY <1>8, <1>9, <1>10, <1>11, <1>12 DEF Account

LEMMA EnsureHistory ==
  ASSUME SoundInv, NEW states, NEW owner, Account(states, owner), NEW m \in Machine, EnsureUIDs(m),
         met' = {}
  PROVE  \E o : Account(states, o)'
<1>. DEFINE op == AssignUIDs(doc[m], index[m])
            last == states[Len(log)]
            owner2 == [n \in Nat |-> IF \E x \in Mid : op.nums[x] = n /\ n # 0
                                     THEN CHOOSE x \in Mid : op.nums[x] = n ELSE owner[n]]
<1>1. /\ m \in fresh /\ Mutate(m, op) /\ pc[m] = "idle"
      /\ \A k \in Machine : pc[k] # "mutate"
  <2>1. m \in fresh /\ \A k \in Machine \ {m} : pc[k] # "mutate"
    BY DEF EnsureUIDs
  <2>2. Mutate(m, op) /\ pc[m] = "idle"
    BY DEF EnsureUIDs, Mutate
  <2>. QED  BY <2>1, <2>2
<1>2. op \in GoodOp
  BY AssignGood DEF SoundInv, TypeOK, ListingsGood
<1>3. doc[m] = last /\ doc[m] \in GoodDoc
  BY <1>1, SoundParts DEF Account, FreshKnowsAll
<1>4. op.t = "uid" /\ Follows(op, doc[m])
  <2>1. \A x \in Mid : x \in Blank(doc[m], index[m]) =>
          doc[m].uids[x] = 0 /\ Rank(Blank(doc[m], index[m]), index[m], x) \in Nat
    BY UIDsAssumption, FS_Subset, FS_CardinalityType DEF Blank, Rank
  <2>2. doc[m].next \in Nat
    BY <1>3, GoodFields
  <2>. QED  BY <2>1, <2>2 DEF AssignUIDs, FirstNumber, Follows
<1>5. op.nums \in [Mid -> Nat] /\ OneEach(op.nums)
  BY <1>2 DEF GoodOp, Op
<1>. HIDE DEF op
<1>6. Belong(op.nums, owner2)
  BY <1>5 DEF Belong, OneEach
<1>7. \A n \in Nat : n < last.next => owner2[n] = owner[n]
  <2>1. last.next \in Nat
    BY <1>3, GoodFields
  <2>. QED  BY <1>3, <1>4, <1>5, <2>1 DEF Follows
<1>. HIDE DEF owner2
<1>8. Account(states, owner2)
  BY <1>1, <1>7, OwnerExtends
<1>9. PICK o : Account(states, o) /\ Belong(op.nums, o)
  BY <1>6, <1>8
<1>10. Account(states, o)'
  BY <1>1, <1>2, <1>4, <1>9, MutateHistory
<1>. QED  BY <1>10

LEMMA SavedHistory ==
  ASSUME SoundInv, NEW states, NEW owner, Account(states, owner), NEW m \in Machine, Saved(m),
         met = {}
  PROVE  \E s : Account(s, owner)'
<1>. DEFINE n == Len(log)
            last == states[n]
            op == Queued(m)
            next == Apply(last, op)
<1>1. /\ UNCHANGED <<snap, work>>
      /\ pc[m] = "mutate" /\ pc'[m] \notin {"mutate", "load"} /\ pending'[m] = <<>>
      /\ local'[m] = base[m] /\ doc'[m] = base[m] /\ base'[m] = New
      /\ log' = log \o pending[m] /\ fresh' = fresh \cap {m}
      /\ \A k \in Machine \ {m} :
           /\ pc'[k] = pc[k] /\ pending'[k] = pending[k] /\ local'[k] = local[k]
           /\ doc'[k] = doc[k] /\ base'[k] = base[k] /\ upto'[k] = upto[k]
      /\ \A p \in given' : p \in given \/ \E x \in Mid : base[m].uids[x] # 0 /\ p = <<base[m].uids[x], x>>
  BY SMTT(30), ShowIs DEF Saved, SoundInv, TypeOK
<1>2. /\ IsHistory(states, snap, log) /\ OneOwner(last, owner) /\ WritesApart(last, owner)
      /\ LoadsCatchUp(states) /\ FreshKnowsAll(last)
  BY DEF Account
<1>3. WritesOne(m, last, owner)
  BY <1>1, <1>2 DEF WritesApart
<1>4. /\ log \in Seq(GoodOp) /\ n \in Nat /\ op \in GoodOp /\ log' = Append(log, op)
      /\ op.t \in {"uid", "leave"} /\ op.nums \in [Mid -> Nat]
  <2>1. log \in Seq(GoodOp) /\ n \in Nat /\ pending[m] \in Seq(GoodOp) /\ Len(pending[m]) = 1
    BY <1>3, SoundParts DEF WritesOne
  <2>2. op \in GoodOp
    BY <2>1, ElementOfSeq DEF Queued
  <2>3. pending[m] = <<op>>
    BY <2>1 DEF Queued
  <2>4. log \o <<op>> = Append(log, op)
    BY <2>1, <2>2, AppendIsConcat
  <2>. QED  BY <1>1, <2>1, <2>2, <2>3, <2>4 DEF GoodOp, Op
<1>5. /\ last \in GoodDoc /\ last.validity = 1 /\ last.next \in Nat
      /\ \A i \in 0 .. n : states[i] \in GoodDoc /\ states[i].next \in Nat
  <2>1. n \in 0 .. n
    BY <1>4
  <2>. QED  BY <1>2, <1>4, <2>1, LastIs, GoodFields
<1>6. op.t = "uid" => Belong(op.nums, owner) /\ Follows(op, last)
  BY <1>3 DEF WritesOne
<1>. HIDE DEF last, op
<1>7. /\ next \in GoodDoc /\ next.validity = 1 /\ next.next >= last.next /\ next.next \in Nat
  BY <1>4, <1>5, <1>6, ApplyGood, ApplyRises, GoodFields
<1>. HIDE DEF next
\* The new document is no further than the log is now.
<1>8. base[m] \in GoodDoc /\ Accounted(base[m], next, owner)
  <2>1. base[m] \in GoodDoc /\ base[m].validity = 1 /\ Belong(base[m].uids, owner)
    BY <1>2, SoundParts DEF OneOwner
  <2>2. base[m].next \in Nat
    BY <2>1, GoodFields
  <2>3. CASE base[m].next =< last.next
    BY <1>5, <1>7, <2>1, <2>2, <2>3 DEF Accounted
  <2>4. CASE op.t = "uid" /\ \E x \in Mid : op.nums[x] # 0 /\ base[m].next =< op.nums[x] + 1
    <3>1. PICK x \in Mid : op.nums[x] # 0 /\ base[m].next =< op.nums[x] + 1
      BY <2>4
    <3>2. next.next > op.nums[x] /\ op.nums[x] \in Nat
      BY <1>4, <1>5, <1>6, <2>4, <3>1, ApplyFollows DEF next
    <3>3. base[m].next =< next.next
      BY <1>7, <2>2, <3>1, <3>2
    <3>. QED  BY <2>1, <3>3 DEF Accounted
  <2>. QED  BY <1>3, <2>3, <2>4 DEF WritesOne, op
<1>9. PICK s : /\ IsHistory(s, snap, log') /\ Len(log') = n + 1 /\ s[n + 1] = next
               /\ \A i \in 0 .. n : s[i] = states[i]
  <2>1. IsHistory(Grown(states, n, op), snap, log')
    BY <1>2, <1>4, <1>6, HistoryGrows DEF last
  <2>2. Len(log') = n + 1
    BY <1>4, AppendProperties
  <2>3. Grown(states, n, op)[n + 1] = next /\ \A i \in 0 .. n : Grown(states, n, op)[i] = states[i]
    BY <1>4 DEF Grown, next, last
  <2>. QED  BY <2>1, <2>2, <2>3
<1>10. \A i \in 1 .. n : log'[i] = log[i]
  BY <1>4, AppendProperties
<1>11. IsHistory(s, snap, log)'
  BY <1>1, <1>9
<1>12. OneOwner(s[Len(log)], owner)'
  <2>1. ASSUME NEW d, Accounted(d, last, owner), d.next \in Nat PROVE Accounted(d, next, owner)
    BY <1>5, <1>7, <2>1 DEF Accounted
  <2>2. ASSUME NEW k \in Machine
        PROVE  Accounted(local'[k], next, owner) /\ Accounted(doc'[k], next, owner)
    <3>1. local[k].next \in Nat /\ doc[k].next \in Nat
      BY SoundParts, GoodFields
    <3>2. Accounted(local[k], next, owner) /\ Accounted(doc[k], next, owner)
      BY <1>2, <2>1, <3>1 DEF OneOwner
    <3>. QED  BY <1>1, <1>8, <3>2
  <2>3. ASSUME NEW i \in 1 .. n + 1, log'[i].t = "uid" PROVE Belong(log'[i].nums, owner)
    <3>1. log'[n + 1] = op
      BY <1>4, AppendProperties
    <3>2. i \in 1 .. n \/ i = n + 1
      BY <1>4
    <3>. QED  BY <1>2, <1>6, <1>10, <2>3, <3>1, <3>2 DEF OneOwner
  <2>4. \A k \in Machine : base'[k].validity = 1 /\ Belong(base'[k].uids, owner)
    BY <1>1, <1>2, NewBelongs DEF OneOwner
  <2>5. \A p \in given' : p[1] < next.next /\ owner[p[1]] = p[2]
    <3>1. \A p \in given : p[1] < last.next /\ owner[p[1]] = p[2]
      BY <1>2 DEF OneOwner
    <3>2. last.next =< next.next
      BY <1>5, <1>7
    <3>. QED  BY <1>1, <1>5, <1>7, <1>8, <3>1, <3>2, GivenBelong
  <2>6. Belong(snap'.uids, owner)
    BY <1>1, <1>2 DEF OneOwner
  <2>. QED  BY <1>9, <2>2, <2>3, <2>4, <2>5, <2>6 DEF OneOwner
<1>13. WritesApart(s[Len(log)], owner)'
  <2>1. ASSUME NEW k \in Machine \ {m}, pc[k] = "mutate", WritesOne(k, last, owner)
        PROVE  WritesOne(k, s[Len(log)], owner)'
    <3>1. /\ Queued(k)' = Queued(k) /\ base'[k] = base[k] /\ pending'[k] = pending[k] /\ k \notin fresh'
      BY <1>1 DEF Queued
    <3>2. ASSUME Queued(k).t = "uid" PROVE Follows(Queued(k), next)
      <4>1. op.t = "leave"
        BY <1>1, <2>1, <3>2 DEF WritesOne, op
      <4>2. next.next = last.next /\ next.uids = [x \in Mid |-> IF op.nums[x] # 0 THEN 0 ELSE last.uids[x]]
        BY <1>4, <1>5, <4>1, ApplyRetire DEF next
      <4>. QED  BY <2>1, <3>2, <4>2 DEF WritesOne, Follows
    <3>3. ASSUME Queued(k).t = "uid"
          PROVE  \A k2 \in Machine \ {k} : pc'[k2] = "mutate" => Queued(k2)'.t = "leave"
      <4>1. ASSUME NEW k2 \in Machine \ {k}, pc'[k2] = "mutate" PROVE Queued(k2)'.t = "leave"
        <5>1. k2 # m /\ pc[k2] = "mutate" /\ Queued(k2)' = Queued(k2)
          BY <1>1, <4>1 DEF Queued
        <5>. QED  BY <2>1, <3>3, <5>1 DEF WritesOne
      <4>. QED  BY <4>1
    <3>4. base[k].next =< last.next => base[k].next =< next.next
      <4>1. base[k].next \in Nat
        BY SoundParts, GoodFields
      <4>. QED  BY <1>5, <1>7, <4>1
    <3>. QED  BY <1>9, <2>1, <3>1, <3>2, <3>3, <3>4 DEF WritesOne
  <2>2. ASSUME NEW k \in Machine \ {m}
        PROVE  IF pc'[k] = "mutate" THEN WritesOne(k, s[Len(log)], owner)' ELSE pending'[k] = <<>>
    BY <1>1, <1>2, <2>1 DEF WritesApart
  <2>. QED  BY <1>1, <2>2 DEF WritesApart
<1>14. LoadsCatchUp(s)'
  <2>1. ASSUME NEW k \in Machine \ {m}, pc[k] = "load", CatchesUp(k, states)
        PROVE  CatchesUp(k, s)'
    <3>1. /\ upto'[k] = upto[k] /\ work'[k] = work[k] /\ base'[k] = base[k] /\ k \notin fresh'
          /\ upto[k] \in Nat /\ upto[k] =< n
      BY <1>1, <2>1 DEF CatchesUp, SoundInv, TypeOK
    <3>2. PICK j \in 0 .. upto[k] : /\ work[k] = SubSeq(log, j + 1, upto[k])
                                    /\ Ahead(base[k], states, log, j, upto[k])
      BY <2>1 DEF CatchesUp
    <3>3. j \in 0 .. n /\ upto[k] \in 0 .. n /\ \A i \in j + 1 .. upto[k] : log'[i] = log[i]
      BY <1>4, <1>10, <3>1
    <3>4. SubSeq(log', j + 1, upto[k]) = SubSeq(log, j + 1, upto[k])
      <4>. DEFINE old == SubSeq(log, j + 1, upto[k])
                  new == SubSeq(log', j + 1, upto[k])
      <4>1. \A i \in j + 1 .. upto[k] : log[i] \in GoodOp
        BY <1>4, <3>1, ElementOfSeq
      <4>2. /\ old \in Seq(GoodOp)
            /\ Len(old) = IF j + 1 =< upto[k] THEN upto[k] - (j + 1) + 1 ELSE 0
            /\ \A i \in 1 .. upto[k] - (j + 1) + 1 : old[i] = log[j + 1 + i - 1]
        BY <1>4, <3>1, <4>1, SubSeqProperties
      <4>3. /\ new \in Seq(GoodOp)
            /\ Len(new) = IF j + 1 =< upto[k] THEN upto[k] - (j + 1) + 1 ELSE 0
            /\ \A i \in 1 .. upto[k] - (j + 1) + 1 : new[i] = log'[j + 1 + i - 1]
        BY <1>4, <3>1, <3>3, <4>1, SubSeqProperties, AppendProperties
      <4>. HIDE DEF old, new
      <4>4. ASSUME NEW i \in 1 .. Len(new) PROVE new[i] = old[i]
        <5>1. i \in 1 .. upto[k] - (j + 1) + 1 /\ j + 1 + i - 1 \in j + 1 .. upto[k]
          BY <3>1, <4>3
        <5>. QED  BY <3>3, <4>2, <4>3, <5>1
      <4>5. new = old
        BY <4>2, <4>3, <4>4, SeqEqual
      <4>. QED  BY <4>5 DEF old, new
    <3>5. Ahead(base[k], s, log', j, upto[k])
      BY ZenonT(30), <1>9, <3>2, <3>3 DEF Ahead
    <3>6. \A k2 \in Machine : pc'[k2] = "load" => k2 = k
      BY <1>1, <2>1 DEF CatchesUp
    <3>7. upto[k] =< Len(log')
      BY <1>4, <1>9, <3>1
    <3>. QED  BY <3>1, <3>2, <3>4, <3>5, <3>6, <3>7 DEF CatchesUp
  <2>2. ASSUME NEW k \in Machine \ {m}
        PROVE  IF pc'[k] = "load" THEN CatchesUp(k, s)'
               ELSE work'[k] = <<>> /\ (pc'[k] # "mutate" => base'[k] = New)
    BY <1>1, <1>2, <2>1 DEF LoadsCatchUp
  <2>3. work'[m] = <<>>
    BY <1>1, <1>2 DEF LoadsCatchUp
  <2>. QED  BY <1>1, <2>2, <2>3 DEF LoadsCatchUp
<1>15. FreshKnowsAll(s[Len(log)])'
  <2>1. m \in fresh => base[m] = next
    BY <1>3 DEF WritesOne, next, op
  <2>. QED  BY <1>1, <1>9, <2>1 DEF FreshKnowsAll
<1>16. Account(s, owner)'
  BY <1>11, <1>12, <1>13, <1>14, <1>15 DEF Account
<1>. QED  BY <1>16

LEMMA NextHistory == SoundInv /\ HistoryInv /\ [Next]_vars => HistoryInv'
<1>. SUFFICES ASSUME SoundInv, HistoryInv, [Next]_vars, met' = {}
              PROVE  \E states, owner : Account(states, owner)'
  BY DEF HistoryInv
<1>1. met = {}
  BY DEF Next, vars, history, Arrive, EnsureUIDs, Leave, Saved, SaveFails, LoadBase, ApplyNext,
         Installed, Restart
<1>2. PICK states, owner : Account(states, owner)
  BY <1>1 DEF HistoryInv
<1>3. ASSUME NEW x \in Mid, Arrive(x) PROVE Account(states, owner)'
  BY <1>2, <1>3, ArriveHistory DEF Arrive, machine, loop, history
<1>4. ASSUME NEW m \in Machine, NEW x \in Mid, Leave(m, x) PROVE Account(states, owner)'
  <2>. DEFINE op == [t |-> "leave", nums |-> [y \in Mid |-> IF y = x THEN 1 ELSE 0]]
  <2>1. op \in GoodOp /\ op.t # "uid" /\ Mutate(m, op)
    BY <1>4, LeaveGood DEF Leave
  <2>. HIDE DEF op
  <2>. QED  BY <1>2, <2>1, MutateHistory
<1>5. ASSUME NEW m \in Machine, SaveFails(m) PROVE FALSE
  BY <1>5 DEF SaveFails
<1>6. CASE UNCHANGED vars
  BY <1>2, <1>6, ArriveHistory DEF vars, bucket, machine, loop, history
<1>. QED  BY <1>1, <1>2, <1>3, <1>4, <1>5, <1>6, EnsureHistory, SavedHistory, LoadBaseHistory,
             ApplyNextHistory, InstalledHistory, RestartHistory DEF Next

\* Every variable keeps its type; in particular no message gets number 0 from an
\* op, and UIDVALIDITY and UIDNEXT are never 0 (RFC 3501, core/uid.go normalize).
THEOREM TypeCorrect == Spec => []TypeOK
<1>1. SoundInv => TypeOK
  BY DEF SoundInv
<1>. QED  BY InitSound, NextSound, <1>1, PTL DEF Spec

\* In every document that exists anywhere - in memory, half built, in a local file,
\* in the snapshot - a number belongs to one message, below UIDNEXT: through races
\* of numbering passes, failed writes, merges of local files, and restarts.
THEOREM NumbersAreUnique == Spec => []OneMessagePerNumber
<1>1. SoundInv => OneMessagePerNumber
  BY DEF SoundInv, DocsGood, GoodDoc, OneMessagePerNumber
<1>. QED  BY InitSound, NextSound, <1>1, PTL DEF Spec

\* A number handed out belongs to its message for good, whichever machine gives
\* out the next ones and however often ops are merged, machines die and reload:
\* AssignUIDs and retireUID never let UIDNEXT fall behind (core/uid.go).
THEOREM NumbersAreForGood == Spec => []NumberNeverReused
<1>1. SoundInv /\ HistoryInv => NumberNeverReused
  <2>. SUFFICES ASSUME SoundInv, HistoryInv, met = {}, NEW p \in given, NEW q \in given, p[1] = q[1]
                PROVE  p = q
    BY DEF NumberNeverReused
  <2>1. PICK states, owner : Account(states, owner)
    BY DEF HistoryInv
  <2>2. p[2] = q[2]
    BY <2>1 DEF Account, OneOwner
  <2>3. p \in Nat \X Mid /\ q \in Nat \X Mid
    BY DEF SoundInv, TypeOK
  <2>. QED  BY <2>2, <2>3
<1>. QED  BY InitSound, NextSound, InitHistory, NextHistory, <1>1, PTL DEF Spec

\* Two machines that have loaded everything and have nothing half done show the
\* same numbering, however their loads, merges and local files lay before.
THEOREM MachinesConverge == Spec => []Converged
<1>1. SoundInv /\ HistoryInv => Converged
  <2>. SUFFICES ASSUME HistoryInv, met = {}, NEW m \in fresh, NEW k \in fresh,
                       pc[m] = "idle", pc[k] = "idle"
                PROVE  doc[m] = doc[k]
    BY DEF Converged
  <2>1. PICK states, owner : Account(states, owner)
    BY DEF HistoryInv
  <2>. QED  BY <2>1 DEF Account, FreshKnowsAll
<1>. QED  BY InitSound, NextSound, InitHistory, NextHistory, <1>1, PTL DEF Spec

=============================================================================
