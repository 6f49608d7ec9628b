------------------------------ MODULE DeskProofs ------------------------------
(***************************************************************************)
(* Theorems about one machine's document, rules and pages (Desk) and about *)
(* the documents several machines make of one log (Document), for every    *)
(* value of their constants.  The inductive invariants are in DeskInv.     *)
(***************************************************************************)

EXTENDS DeskInv, FiniteSetTheorems, WellFoundedInduction, TLAPS

-----------------------------------------------------------------------------
(* Numbers.                                                                  *)

LEMMA LeastNumber ==
  ASSUME NEW T \in SUBSET Nat, T # {}
  PROVE  \E n \in T : \A k \in T : n <= k
<1>1. IsWellFoundedOn(LessThan, Nat)
  BY Zenon, NatLessThanWellFounded DEF OpToRel, LessThan
<1>2. PICK n \in T : \A k \in T : ~ (<<k, n>> \in LessThan)
  BY <1>1, WFMin
<1>3. \A k \in T : ~ (k < n)
  BY <1>2 DEF LessThan
<1>. QED  BY <1>3

-----------------------------------------------------------------------------
(* Folds, step by step.                                                      *)

LEMMA ByCounting ==
  ASSUME NEW n \in Nat, NEW T, 0 \in T, \A k \in 1 .. n : k - 1 \in T => k \in T
  PROVE  \A k \in 0 .. n : k \in T
<1>. DEFINE Bad == {k \in 0 .. n : k \notin T}
<1>. SUFFICES ASSUME Bad # {} PROVE FALSE
  OBVIOUS
<1>1. Bad \in SUBSET Nat
  OBVIOUS
<1>2. PICK k \in Bad : \A j \in Bad : k <= j
  BY <1>1, LeastNumber
<1>3. k \in 1 .. n /\ k - 1 \in 0 .. n /\ ~ (k <= k - 1)
  BY <1>2
<1>4. k - 1 \in T
  BY <1>2, <1>3
<1>. QED  BY <1>2, <1>3, <1>4

\* Places of a list have a greatest one, and a set of them is finite.
LEMMA GreatestPlace ==
  ASSUME NEW n \in Nat, NEW s \in SUBSET (1 .. n), s # {}
  PROVE  Max(s) \in s
<1>. DEFINE T == {j \in Nat : \E k \in s : j = n - k}
<1>1. \A k \in s : k \in 1 .. n /\ n - k \in T
  OBVIOUS
<1>2. T \in SUBSET Nat /\ T # {}
  BY <1>1
<1>3. PICK j \in T : \A k \in T : j <= k
  BY <1>2, LeastNumber
<1>4. PICK x \in s : j = n - x
  BY <1>3
<1>. HIDE DEF T
<1>5. ASSUME NEW y \in s PROVE x >= y
  <2>1. j <= n - y /\ x \in 1 .. n /\ y \in 1 .. n
    BY <1>1, <1>3
  <2>. QED  BY <2>1, <1>4
<1>. QED  BY <1>5 DEF Max

LEMMA GreatestOfFirst == ASSUME NEW k \in Nat, k > 0 PROVE Max(1 .. k) = k
<1>1. k \in 1 .. k /\ \A y \in 1 .. k : k >= y
  OBVIOUS
<1>2. \A x \in 1 .. k : (\A y \in 1 .. k : x >= y) => x = k
  BY <1>1
<1>. QED  BY <1>1, <1>2 DEF Max

LEMMA PlacesBefore == ASSUME NEW k \in Nat, k > 0 PROVE (1 .. k) \ {k} = 1 .. (k - 1) /\ 1 .. k # {}
<1>1. \A x : x \in (1 .. k) \ {k} <=> x \in 1 .. (k - 1)
  OBVIOUS
<1>2. k \in 1 .. k
  OBVIOUS
<1>. QED  BY <1>1, <1>2

LEMMA PlacesAreFinite ==
  ASSUME NEW n \in Nat, NEW s \in SUBSET (1 .. n)
  PROVE  IsFiniteSet(s) /\ Cardinality(s) \in Nat /\ Cardinality(s) <= n
<1>1. IsFiniteSet(1 .. n) /\ Cardinality(1 .. n) = n
  BY FS_Interval
<1>. QED  BY <1>1, FS_Subset, FS_CardinalityType

\* By the size of the sets: there is such a fold.
LEMMA FoldExists ==
  ASSUME NEW how, NEW base, NEW S, NEW list \in Seq(S)
  PROVE  \E g : IsFold(how, base, list, g)
<1>. DEFINE n == Len(list)
            Sub(k) == {s \in SUBSET DOMAIN list : Cardinality(s) <= k}
            Has(k) == \E g : g = [s \in Sub(k) |-> Onto(how, base, list, g, s)]
            T == {k \in 0 .. n : Has(k)}
<1>1. n \in Nat /\ DOMAIN list = 1 .. n
  OBVIOUS
<1>2. \A s \in SUBSET DOMAIN list :
        /\ IsFiniteSet(s) /\ Cardinality(s) \in Nat /\ Cardinality(s) <= n
        /\ s # {} => /\ s \ {Max(s)} \in SUBSET DOMAIN list
                     /\ Cardinality(s \ {Max(s)}) = Cardinality(s) - 1
  <2>. SUFFICES ASSUME NEW s \in SUBSET DOMAIN list
                PROVE  /\ IsFiniteSet(s) /\ Cardinality(s) \in Nat /\ Cardinality(s) <= n
                       /\ s # {} => /\ s \ {Max(s)} \in SUBSET DOMAIN list
                                    /\ Cardinality(s \ {Max(s)}) = Cardinality(s) - 1
    OBVIOUS
  <2>2. IsFiniteSet(s) /\ Cardinality(s) \in Nat /\ Cardinality(s) <= n
    BY <1>1, PlacesAreFinite
  <2>3. s # {} => Max(s) \in s
    BY <1>1, GreatestPlace
  <2>4. s # {} => Cardinality(s \ {Max(s)}) = Cardinality(s) - 1
    BY <2>2, <2>3, FS_RemoveElement
  <2>. QED  BY <2>2, <2>3, <2>4
<1>3. Has(0)
  <2>1. ASSUME NEW s \in Sub(0) PROVE s = {}
    <3>1. s \in SUBSET DOMAIN list /\ Cardinality(s) <= 0
      OBVIOUS
    <3>2. IsFiniteSet(s) /\ Cardinality(s) \in Nat
      BY <3>1, <1>2
    <3>3. Cardinality(s) = 0
      BY <3>1, <3>2
    <3>. QED  BY <3>2, <3>3, FS_EmptySet
  <2>. DEFINE g == [t \in Sub(0) |-> base]
  <2>2. g = [s \in Sub(0) |-> Onto(how, base, list, g, s)]
    BY <2>1 DEF Onto
  <2>. HIDE DEF g
  <2>. QED  BY <2>2
<1>4. ASSUME NEW k \in 1 .. n, Has(k - 1) PROVE Has(k)
  <2>1. PICK g : g = [s \in Sub(k - 1) |-> Onto(how, base, list, g, s)]
    BY <1>4
  <2>. DEFINE h == [s \in Sub(k) |-> Onto(how, base, list, g, s)]
  <2>2. \A s \in Sub(k) : Onto(how, base, list, g, s) = Onto(how, base, list, h, s)
    <3>. SUFFICES ASSUME NEW s \in Sub(k), s # {}
                  PROVE  g[s \ {Max(s)}] = h[s \ {Max(s)}]
      BY DEF Onto
    <3>. DEFINE t == s \ {Max(s)}
    <3>1. t \in Sub(k - 1) /\ t \in Sub(k)
      <4>1. /\ s \in SUBSET DOMAIN list /\ Cardinality(s) <= k /\ Cardinality(s) \in Nat
            /\ t \in SUBSET DOMAIN list /\ Cardinality(t) = Cardinality(s) - 1
        BY <1>2
      <4>2. Cardinality(t) <= k - 1 /\ Cardinality(t) <= k
        BY <1>1, <4>1
      <4>. QED  BY <4>1, <4>2
    <3>2. g[t] = Onto(how, base, list, g, t)
      BY <2>1, <3>1
    <3>3. h[t] = Onto(how, base, list, g, t)
      BY <3>1
    <3>. QED  BY <3>2, <3>3
  <2>3. h = [s \in Sub(k) |-> Onto(how, base, list, h, s)]
    BY <2>2
  <2>. HIDE DEF h
  <2>. QED  BY <2>3
<1>5. Has(n)
  <2>. HIDE DEF Has
  <2>1. 0 \in T /\ \A k \in 1 .. n : k - 1 \in T => k \in T
    BY <1>1, <1>3, <1>4
  <2>. HIDE DEF T
  <2>2. n \in T
    <3>1. n \in Nat /\ n \in 0 .. n
      BY <1>1
    <3>. HIDE DEF n
    <3>. QED  BY <2>1, <3>1, ByCounting
  <2>. QED  BY <2>2 DEF T
<1>6. Sub(n) = SUBSET DOMAIN list
  BY <1>2
<1>. QED  BY <1>5, <1>6 DEF IsFold

\* Over the first places: what the last element makes of what those before it left.
LEMMA FoldSteps ==
  ASSUME NEW how, NEW base, NEW S, NEW list \in Seq(S),
         NEW F, IsFold(how, base, list, F)
  PROVE  \E g : Folding(how, base, list, g) /\ F[DOMAIN list] = g[Len(list)]
<1>. DEFINE n == Len(list)
            g == [k \in 0 .. n |-> F[1 .. k]]
<1>1. DOMAIN list = 1 .. n /\ n \in Nat
  OBVIOUS
<1>2. \A s \in SUBSET DOMAIN list : F[s] = Onto(how, base, list, F, s)
  BY DEF IsFold
<1>3. g[0] = base
  <2>1. 1 .. 0 = {} /\ {} \in SUBSET DOMAIN list /\ 0 \in 0 .. n
    BY <1>1
  <2>2. F[{}] = base
    BY <1>2, <2>1 DEF Onto
  <2>. QED  BY <2>1, <2>2
<1>4. ASSUME NEW k \in 1 .. n PROVE g[k] = Fold(how, g[k - 1], list[k])
  <2>1. k \in Nat /\ k > 0 /\ k - 1 \in 0 .. n /\ k \in 0 .. n /\ 1 .. k \in SUBSET DOMAIN list
    BY <1>1
  <2>2. Max(1 .. k) = k
    BY <2>1, GreatestOfFirst
  <2>3. (1 .. k) \ {k} = 1 .. (k - 1) /\ 1 .. k # {}
    BY <2>1, PlacesBefore
  <2>4. F[1 .. k] = Fold(how, F[1 .. (k - 1)], list[k])
    BY <1>2, <2>1, <2>2, <2>3 DEF Onto
  <2>. QED  BY <2>1, <2>4
<1>5. F[DOMAIN list] = g[n]
  BY <1>1
<1>. HIDE DEF g, n
<1>. QED  BY <1>3, <1>4, <1>5 DEF n, Folding

LEMMA StripSteps ==
  ASSUME NEW S, NEW list \in Seq(S), NEW gone
  PROVE  \E g : Stripping(g, list, gone)
<1>. DEFINE how == <<"strip", gone>>
            P(g) == g = [s \in SUBSET DOMAIN list |->
                          IF s = {} THEN <<>>
                          ELSE IF list[Max(s)] \in gone THEN g[s \ {Max(s)}]
                               ELSE Append(g[s \ {Max(s)}], list[Max(s)])]
<1>0. \A x, y : Fold(how, x, y) = IF y \in gone THEN x ELSE Append(x, y)
  BY DEF Fold
<1>. HIDE DEF how
<1>1. ASSUME NEW g PROVE P(g) <=> IsFold(how, <<>>, list, g)
  <2>1. \A s \in SUBSET DOMAIN list :
          Onto(how, <<>>, list, g, s) = 
            IF s = {} THEN <<>>
            ELSE IF list[Max(s)] \in gone THEN g[s \ {Max(s)}]
                 ELSE Append(g[s \ {Max(s)}], list[Max(s)])
    BY <1>0 DEF Onto
  <2>. QED  BY <2>1 DEF IsFold
<1>2. Strip(list, gone) = (CHOOSE g : P(g))[DOMAIN list]
  BY DEF Strip, FoldLeft, MapThenFoldSet
<1>3. \E g : P(g)
  BY <1>1, FoldExists
<1>. HIDE DEF P
<1>4. PICK F : P(F) /\ Strip(list, gone) = F[DOMAIN list]
  BY <1>2, <1>3
<1>5. IsFold(how, <<>>, list, F)
  BY <1>1, <1>4
<1>6. PICK g : Folding(how, <<>>, list, g) /\ F[DOMAIN list] = g[Len(list)]
  BY <1>5, FoldSteps
<1>. QED  BY <1>0, <1>4, <1>6 DEF Folding, Stripping

LEMMA EnlistSteps ==
  ASSUME NEW base, NEW S, NEW list \in Seq(S)
  PROVE  \E g : Enlisting(g, base, list)
<1>. DEFINE how == <<"enlist">>
            P(g) == g = [s \in SUBSET DOMAIN list |->
                          IF s = {} THEN base ELSE Enlist(g[s \ {Max(s)}], list[Max(s)])]
<1>0. \A x, y : Fold(how, x, y) = Enlist(x, y)
  BY DEF Fold
<1>. HIDE DEF how
<1>1. ASSUME NEW g PROVE P(g) <=> IsFold(how, base, list, g)
  <2>1. \A s \in SUBSET DOMAIN list :
          Onto(how, base, list, g, s) = IF s = {} THEN base ELSE Enlist(g[s \ {Max(s)}], list[Max(s)])
    BY <1>0 DEF Onto
  <2>. QED  BY <2>1 DEF IsFold
<1>2. FoldLeft(Enlist, base, list) = (CHOOSE g : P(g))[DOMAIN list]
  BY DEF FoldLeft, MapThenFoldSet
<1>3. \E g : P(g)
  BY <1>1, FoldExists
<1>. HIDE DEF P
<1>4. PICK F : P(F) /\ FoldLeft(Enlist, base, list) = F[DOMAIN list]
  BY <1>2, <1>3
<1>5. IsFold(how, base, list, F)
  BY <1>1, <1>4
<1>6. PICK g : Folding(how, base, list, g) /\ F[DOMAIN list] = g[Len(list)]
  BY <1>5, FoldSteps
<1>. QED  BY <1>0, <1>4, <1>6 DEF Folding, Enlisting

LEMMA NamedSteps ==
  ASSUME NEW base, NEW S, NEW list \in Seq(S)
  PROVE  \E g : Naming(g, base, list)
<1>. DEFINE how == <<"named">>
            P(g) == g = [s \in SUBSET DOMAIN list |->
                          IF s = {} THEN base ELSE Named(g[s \ {Max(s)}], list[Max(s)])]
<1>0. \A x, y : Fold(how, x, y) = Named(x, y)
  BY DEF Fold
<1>. HIDE DEF how
<1>1. ASSUME NEW g PROVE P(g) <=> IsFold(how, base, list, g)
  <2>1. \A s \in SUBSET DOMAIN list :
          Onto(how, base, list, g, s) = IF s = {} THEN base ELSE Named(g[s \ {Max(s)}], list[Max(s)])
    BY <1>0 DEF Onto
  <2>. QED  BY <2>1 DEF IsFold
<1>2. FoldLeft(Named, base, list) = (CHOOSE g : P(g))[DOMAIN list]
  BY DEF FoldLeft, MapThenFoldSet
<1>3. \E g : P(g)
  BY <1>1, FoldExists
<1>. HIDE DEF P
<1>4. PICK F : P(F) /\ FoldLeft(Named, base, list) = F[DOMAIN list]
  BY <1>2, <1>3
<1>5. IsFold(how, base, list, F)
  BY <1>1, <1>4
<1>6. PICK g : Folding(how, base, list, g) /\ F[DOMAIN list] = g[Len(list)]
  BY <1>5, FoldSteps
<1>. QED  BY <1>0, <1>4, <1>6 DEF Folding, Naming

LEMMA ReplaySteps ==
  ASSUME NEW base, NEW S, NEW list \in Seq(S)
  PROVE  \E g : Replaying(g, base, list)
<1>. DEFINE how == <<"apply">>
            P(g) == g = [s \in SUBSET DOMAIN list |->
                          IF s = {} THEN base ELSE Apply(g[s \ {Max(s)}], list[Max(s)])]
<1>0. \A x, y : Fold(how, x, y) = Apply(x, y)
  BY DEF Fold
<1>. HIDE DEF how
<1>1. ASSUME NEW g PROVE P(g) <=> IsFold(how, base, list, g)
  <2>1. \A s \in SUBSET DOMAIN list :
          Onto(how, base, list, g, s) = IF s = {} THEN base ELSE Apply(g[s \ {Max(s)}], list[Max(s)])
    BY <1>0 DEF Onto
  <2>. QED  BY <2>1 DEF IsFold
<1>2. Replay(base, list) = (CHOOSE g : P(g))[DOMAIN list]
  BY DEF Replay, FoldLeft, MapThenFoldSet
<1>3. \E g : P(g)
  BY <1>1, FoldExists
<1>. HIDE DEF P
<1>4. PICK F : P(F) /\ Replay(base, list) = F[DOMAIN list]
  BY <1>2, <1>3
<1>5. IsFold(how, base, list, F)
  BY <1>1, <1>4
<1>6. PICK g : Folding(how, base, list, g) /\ F[DOMAIN list] = g[Len(list)]
  BY <1>5, FoldSteps
<1>. QED  BY <1>0, <1>4, <1>6 DEF Folding, Replaying

-----------------------------------------------------------------------------
(* Lists of tags.                                                            *)

LEMMA AppendRange ==
  ASSUME NEW S, NEW s \in Seq(S), NEW e
  PROVE  Range(Append(s, e)) = Range(s) \cup {e}
<1>1. /\ Len(s) \in Nat /\ DOMAIN s = 1 .. Len(s) /\ DOMAIN Append(s, e) = 1 .. Len(s) + 1
      /\ Append(s, e)[Len(s) + 1] = e /\ \A i \in 1 .. Len(s) : Append(s, e)[i] = s[i]
  OBVIOUS
<1>. QED  BY <1>1 DEF Range

LEMMA ContainsIs == ASSUME NEW s, NEW e PROVE Contains(s, e) <=> e \in Range(s)
BY DEF Contains, Range

\* The elements of the first places, one by one.
LEMMA FirstPlaces ==
  ASSUME NEW S, NEW s \in Seq(S)
  PROVE  /\ {s[j] : j \in 1 .. 0} = {}
         /\ \A k \in 1 .. Len(s) : /\ s[k] \in S
              /\ {s[j] : j \in 1 .. k} = {s[j] : j \in 1 .. k - 1} \cup {s[k]}
         /\ Range(s) = {s[j] : j \in 1 .. Len(s)}
<1>1. Len(s) \in Nat /\ DOMAIN s = 1 .. Len(s)
  OBVIOUS
<1>2. ASSUME NEW k \in 1 .. Len(s)
      PROVE  s[k] \in S /\ {s[j] : j \in 1 .. k} = {s[j] : j \in 1 .. k - 1} \cup {s[k]}
  <2>1. \A j : j \in 1 .. k <=> j \in 1 .. k - 1 \/ j = k
    BY <1>1
  <2>. QED  BY <1>1, <2>1
<1>3. {s[j] : j \in 1 .. 0} = {}
  OBVIOUS
<1>4. Range(s) = {s[j] : j \in 1 .. Len(s)}
  BY <1>1 DEF Range
<1>. QED  BY <1>2, <1>3, <1>4

LEMMA StripOf ==
  ASSUME NEW S, NEW s \in Seq(S), NEW gone
  PROVE  Strip(s, gone) \in Seq(S) /\ Range(Strip(s, gone)) = Range(s) \ gone
<1>1a. PICK g : Stripping(g, s, gone)
  BY StripSteps
<1>1. /\ g[0] = <<>>
      /\ \A k \in 1 .. Len(s) :
           g[k] = IF s[k] \in gone THEN g[k - 1] ELSE Append(g[k - 1], s[k])
      /\ Strip(s, gone) = g[Len(s)]
  BY <1>1a DEF Stripping
<1>. DEFINE n == Len(s)
            Upto(k) == {s[j] : j \in 1 .. k}
            Good(k) == g[k] \in Seq(S) /\ Range(g[k]) = Upto(k) \ gone
            T == {k \in 0 .. n : Good(k)}
<1>2. n \in Nat /\ n \in 0 .. n /\ 0 \in 0 .. n /\ \A k \in 1 .. n : k \in 0 .. n
  OBVIOUS
<1>3. /\ Upto(0) = {} /\ Range(s) = Upto(n)
      /\ \A k \in 1 .. n : s[k] \in S /\ Upto(k) = Upto(k - 1) \cup {s[k]}
  BY FirstPlaces
<1>. HIDE DEF Upto
<1>4. Good(0)
  <2>1. Range(<<>>) = {}
    BY DEF Range
  <2>. QED  BY <1>1, <1>3, <2>1
<1>5. ASSUME NEW k \in 1 .. n, Good(k - 1) PROVE Good(k)
  <2>1. Range(Append(g[k - 1], s[k])) = Range(g[k - 1]) \cup {s[k]}
    BY <1>5, AppendRange
  <2>2. Append(g[k - 1], s[k]) \in Seq(S)
    BY <1>3, <1>5
  <2>3. CASE s[k] \in gone
    <3>1. g[k] = g[k - 1] /\ Upto(k) \ gone = Upto(k - 1) \ gone
      BY <1>1, <1>3, <2>3
    <3>. QED  BY <1>5, <3>1
  <2>4. CASE s[k] \notin gone
    <3>1. g[k] = Append(g[k - 1], s[k]) /\ Upto(k) \ gone = (Upto(k - 1) \ gone) \cup {s[k]}
      BY <1>1, <1>3, <2>4
    <3>. QED  BY <1>5, <2>1, <2>2, <3>1
  <2>. QED  BY <2>3, <2>4
<1>. HIDE DEF Good, n
<1>6. 0 \in T /\ \A k \in 1 .. n : k - 1 \in T => k \in T
  BY <1>2, <1>4, <1>5
<1>. HIDE DEF T
<1>7. n \in T
  BY <1>2, <1>6, ByCounting
<1>8. Good(n)
  BY <1>7 DEF T
<1>. QED  BY <1>1, <1>3, <1>8 DEF Good, n

LEMMA StripNothing ==
  ASSUME NEW S, NEW s \in Seq(S), NEW gone, Range(s) \cap gone = {}
  PROVE  Strip(s, gone) = s
<1>1a. PICK g : Stripping(g, s, gone)
  BY StripSteps
<1>1. /\ g[0] = <<>>
      /\ \A k \in 1 .. Len(s) :
           g[k] = IF s[k] \in gone THEN g[k - 1] ELSE Append(g[k - 1], s[k])
      /\ Strip(s, gone) = g[Len(s)]
  BY <1>1a DEF Stripping
<1>. DEFINE n == Len(s)
            Good(k) == /\ g[k] \in Seq(S) /\ Len(g[k]) = k
                       /\ \A j \in 1 .. k : g[k][j] = s[j]
            T == {k \in 0 .. n : Good(k)}
<1>2. n \in Nat /\ n \in 0 .. n /\ 0 \in 0 .. n /\ \A k \in 1 .. n : k \in 0 .. n
  OBVIOUS
<1>3. \A k \in 1 .. n : s[k] \in S /\ s[k] \notin gone
  BY DEF Range
<1>4. Good(0)
  BY <1>1
<1>5. ASSUME NEW k \in 1 .. n, Good(k - 1) PROVE Good(k)
  <2>1. s[k] \notin gone /\ k \in Nat
    BY <1>3
  <2>2. g[k] = Append(g[k - 1], s[k])
    BY <1>1, <2>1
  <2>. QED  BY <1>3, <1>5, <2>1, <2>2
<1>. HIDE DEF Good, n
<1>6. 0 \in T /\ \A k \in 1 .. n : k - 1 \in T => k \in T
  BY <1>2, <1>4, <1>5
<1>. HIDE DEF T
<1>7. n \in T
  BY <1>2, <1>6, ByCounting
<1>8. Good(n)
  BY <1>7 DEF T
<1>. QED  BY <1>1, <1>8 DEF Good, n

LEMMA EnlistOf ==
  ASSUME NEW S, NEW base \in Seq(S), NEW s \in Seq(S)
  PROVE  /\ FoldLeft(Enlist, base, s) \in Seq(S)
         /\ Range(FoldLeft(Enlist, base, s)) = Range(base) \cup Range(s)
         /\ Range(s) \subseteq Range(base) => FoldLeft(Enlist, base, s) = base
<1>1a. PICK g : Enlisting(g, base, s)
  BY EnlistSteps
<1>1. /\ g[0] = base
      /\ \A k \in 1 .. Len(s) : g[k] = Enlist(g[k - 1], s[k])
      /\ FoldLeft(Enlist, base, s) = g[Len(s)]
  BY <1>1a DEF Enlisting
<1>. DEFINE n == Len(s)
            Upto(k) == {s[j] : j \in 1 .. k}
            Good(k) == /\ g[k] \in Seq(S) /\ Range(g[k]) = Range(base) \cup Upto(k)
                       /\ Range(s) \subseteq Range(base) => g[k] = base
            T == {k \in 0 .. n : Good(k)}
<1>2. n \in Nat /\ n \in 0 .. n /\ 0 \in 0 .. n /\ \A k \in 1 .. n : k \in 0 .. n
  OBVIOUS
<1>3. /\ Upto(0) = {} /\ Range(s) = Upto(n)
      /\ \A k \in 1 .. n : s[k] \in S /\ Upto(k) = Upto(k - 1) \cup {s[k]}
  BY FirstPlaces
<1>4. \A k \in 1 .. n : s[k] \in Range(s)
  BY DEF Range
<1>. HIDE DEF Upto
<1>5. Good(0)
  BY <1>1, <1>3
<1>6. ASSUME NEW k \in 1 .. n, Good(k - 1) PROVE Good(k)
  <2>1. g[k] = IF s[k] \in Range(g[k - 1]) THEN g[k - 1] ELSE Append(g[k - 1], s[k])
    BY <1>1, ContainsIs DEF Enlist
  <2>2. Range(Append(g[k - 1], s[k])) = Range(g[k - 1]) \cup {s[k]}
    BY <1>6, AppendRange
  <2>3. Append(g[k - 1], s[k]) \in Seq(S)
    BY <1>3, <1>6
  <2>. QED  BY <1>3, <1>4, <1>6, <2>1, <2>2, <2>3
<1>. HIDE DEF Good, n
<1>7. 0 \in T /\ \A k \in 1 .. n : k - 1 \in T => k \in T
  BY <1>2, <1>5, <1>6
<1>. HIDE DEF T
<1>8. n \in T
  BY <1>2, <1>7, ByCounting
<1>9. Good(n)
  BY <1>8 DEF T
<1>. QED  BY <1>1, <1>3, <1>9 DEF Good, n

LEMMA NextColorIs ==
  ASSUME NEW W, IsFiniteSet(W), NEW tags, IsTags(tags, W)
  PROVE  NextColor(tags) \in Hue
<1>1. Cardinality(DOMAIN tags) \in Nat
  BY FS_Subset, FS_CardinalityType DEF IsTags
<1>. QED  BY <1>1, ColorsAssumption DEF NextColor, Hue

LEMMA PutTag ==
  ASSUME NEW W, NEW tags, IsTags(tags, W), NEW t \in W, NEW c \in Hue
  PROVE  IsTags(Put(tags, t, c), W)
BY DEF IsTags, Put

LEMMA PutIs ==
  ASSUME NEW f, NEW x, NEW v
  PROVE  DOMAIN Put(f, x, v) = DOMAIN f \cup {x} /\ Put(f, x, v)[x] = v
BY DEF Put

LEMMA NamedOf ==
  ASSUME NEW W, IsFiniteSet(W), NEW base, IsTags(base, W), NEW s \in Seq(W)
  PROVE  /\ IsTags(FoldLeft(Named, base, s), W)
         /\ DOMAIN FoldLeft(Named, base, s) = DOMAIN base \cup Range(s)
         /\ Range(s) \subseteq DOMAIN base => FoldLeft(Named, base, s) = base
<1>1a. PICK g : Naming(g, base, s)
  BY NamedSteps
<1>1. /\ g[0] = base
      /\ \A k \in 1 .. Len(s) : g[k] = Named(g[k - 1], s[k])
      /\ FoldLeft(Named, base, s) = g[Len(s)]
  BY <1>1a DEF Naming
<1>. DEFINE n == Len(s)
            Upto(k) == {s[j] : j \in 1 .. k}
            Good(k) == /\ IsTags(g[k], W) /\ DOMAIN g[k] = DOMAIN base \cup Upto(k)
                       /\ Range(s) \subseteq DOMAIN base => g[k] = base
            T == {k \in 0 .. n : Good(k)}
<1>2. n \in Nat /\ n \in 0 .. n /\ 0 \in 0 .. n /\ \A k \in 1 .. n : k \in 0 .. n
  OBVIOUS
<1>3. /\ Upto(0) = {} /\ Range(s) = Upto(n)
      /\ \A k \in 1 .. n : s[k] \in W /\ Upto(k) = Upto(k - 1) \cup {s[k]}
  BY FirstPlaces
<1>4. \A k \in 1 .. n : s[k] \in Range(s)
  BY DEF Range
<1>. HIDE DEF Upto
<1>5. Good(0)
  BY <1>1, <1>3
<1>6. ASSUME NEW k \in 1 .. n, Good(k - 1) PROVE Good(k)
  <2>1. g[k] = IF s[k] \in DOMAIN g[k - 1] THEN g[k - 1]
                                           ELSE Put(g[k - 1], s[k], NextColor(g[k - 1]))
    BY <1>1 DEF Named
  <2>2. NextColor(g[k - 1]) \in Hue
    BY <1>6, NextColorIs
  <2>3. /\ IsTags(Put(g[k - 1], s[k], NextColor(g[k - 1])), W)
        /\ DOMAIN Put(g[k - 1], s[k], NextColor(g[k - 1])) = DOMAIN g[k - 1] \cup {s[k]}
    <3>. DEFINE h == g[k - 1]
                t == s[k]
                c == NextColor(h)
    <3>1. IsTags(h, W) /\ t \in W /\ c \in Hue
      BY <1>3, <1>6, <2>2
    <3>. HIDE DEF h, t, c
    <3>2. IsTags(Put(h, t, c), W) /\ DOMAIN Put(h, t, c) = DOMAIN h \cup {t}
      BY <3>1, PutTag, PutIs
    <3>. QED  BY <3>2 DEF h, t, c
  <2>. QED  BY <1>3, <1>4, <1>6, <2>1, <2>3
<1>. HIDE DEF Good, n
<1>7. 0 \in T /\ \A k \in 1 .. n : k - 1 \in T => k \in T
  BY <1>2, <1>5, <1>6
<1>. HIDE DEF T
<1>8. n \in T
  BY <1>2, <1>7, ByCounting
<1>9. Good(n)
  BY <1>8 DEF T
<1>. QED  BY <1>1, <1>3, <1>9 DEF Good, n

-----------------------------------------------------------------------------
(* What an operation makes of a document.                                    *)

LEMMA FreshIs == ASSUME NEW W PROVE Fresh \in Marks(W) /\ Range(Fresh.tags) = {}
<1>1. <<>> \in Seq(W) /\ Range(<<>>) = {}
  BY DEF Range
<1>. QED  BY <1>1 DEF Fresh, Marks

LEMMA NewIs == ASSUME NEW M, NEW W PROVE IsData(NewData, M, W) /\ DOMAIN NewData.msgs = {}
BY DEF NewData, IsData, IsTags

LEMMA EntryIs ==
  ASSUME NEW M, NEW W, NEW d, IsData(d, M, W), NEW x
  PROVE  Entry(d, x) \in Marks(W)
BY FreshIs DEF Entry, IsData

LEMMA OverOf ==
  ASSUME NEW M, NEW W, NEW d, IsData(d, M, W), NEW ms \in SUBSET M,
         NEW new, new \in [ms -> Marks(W)], NEW a, a = [d EXCEPT !.msgs = Over(new, @)]
  PROVE  Overlaid(a, d, M, W, ms, new)
<1>1. /\ a.msgs = Over(new, d.msgs) /\ a.tags = d.tags /\ a.rules = d.rules /\ a.filters = d.filters
      /\ a = [msgs |-> a.msgs, tags |-> a.tags, rules |-> a.rules, filters |-> a.filters]
  BY DEF IsData
<1>2. /\ DOMAIN a.msgs = ms \cup DOMAIN d.msgs
      /\ \A x \in ms \cup DOMAIN d.msgs : a.msgs[x] = IF x \in ms THEN new[x] ELSE d.msgs[x]
      /\ a.msgs \in [DOMAIN a.msgs -> Marks(W)]
  BY <1>1 DEF Over, IsData
<1>3. IsData(a, M, W)
  BY <1>1, <1>2 DEF IsData
<1>4. \A x : Entry(a, x) = IF x \in ms THEN new[x] ELSE Entry(d, x)
  BY <1>2 DEF Entry
<1>. QED  BY <1>1, <1>2, <1>3, <1>4 DEF Overlaid

LEMMA SetIs == ASSUME NEW b \in BOOLEAN, NEW to PROVE Set(b, to) \in BOOLEAN
<1>1. (TRUE \in to) \in BOOLEAN
  OBVIOUS
<1>2. CASE to = {}
  BY <1>2 DEF Set
<1>3. CASE to # {}
  <2>1. Set(b, to) = (TRUE \in to)
    BY <1>3 DEF Set
  <2>. QED  BY <1>1, <2>1
<1>. QED  BY <1>2, <1>3

LEMMA FlagsOf ==
  ASSUME NEW M, NEW W, NEW d, IsData(d, M, W), NEW op, IsStep(op, M, W), op.t = "flags"
  PROVE  AfterFlags(Apply(d, op), d, M, W, op)
<1>. DEFINE a == Apply(d, op)
<1>. DEFINE new == [m \in op.mids |-> Flagged(Entry(d, m), op)]
<1>1. op.mids \in SUBSET M
  BY DEF IsStep
<1>2. new \in [op.mids -> Marks(W)]
  <2>1. ASSUME NEW m \in op.mids PROVE Flagged(Entry(d, m), op) \in Marks(W)
    <3>1. Entry(d, m) \in Marks(W)
      BY EntryIs
    <3>. QED  BY <3>1, SetIs DEF Flagged, Marks
  <2>. QED  BY <2>1
<1>3. a = [d EXCEPT !.msgs = Over(new, @)]
  BY DEF Apply, Flags, Each, Flagged
<1>4. \A x \in op.mids : new[x] = Flagged(Entry(d, x), op)
  OBVIOUS
<1>. HIDE DEF new
<1>5. Overlaid(a, d, M, W, op.mids, new)
  BY <1>1, <1>2, <1>3, OverOf
<1>. QED  BY <1>4, <1>5 DEF Overlaid, AfterFlags

LEMMA RuledOf ==
  ASSUME NEW M, NEW W, NEW d, IsData(d, M, W), NEW op, IsStep(op, M, W), op.t = "ruled"
  PROVE  AfterRuled(Apply(d, op), d, M, W, op)
<1>. DEFINE a == Apply(d, op)
<1>. DEFINE new == [m \in op.mids |-> Seen(Entry(d, m))]
<1>1. op.mids \in SUBSET M
  BY DEF IsStep
<1>2. new \in [op.mids -> Marks(W)]
  <2>1. ASSUME NEW m \in op.mids PROVE Seen(Entry(d, m)) \in Marks(W)
    <3>1. Entry(d, m) \in Marks(W)
      BY EntryIs
    <3>. QED  BY <3>1 DEF Seen, Marks
  <2>. QED  BY <2>1
<1>3. a = [d EXCEPT !.msgs = Over(new, @)]
  BY DEF Apply, Each, Seen
<1>4. \A x \in op.mids : new[x] = Seen(Entry(d, x))
  OBVIOUS
<1>. HIDE DEF new
<1>5. Overlaid(a, d, M, W, op.mids, new)
  BY <1>1, <1>2, <1>3, OverOf
<1>. QED  BY <1>4, <1>5 DEF Overlaid, AfterRuled

LEMMA TagsOf ==
  ASSUME NEW M, NEW W, IsFiniteSet(W), NEW d, IsData(d, M, W),
         NEW op, IsStep(op, M, W), op.t = "tags"
  PROVE  AfterTags(Apply(d, op), d, M, W, op)
<1>. DEFINE a == Apply(d, op)
<1>. DEFINE c == [d EXCEPT !.tags = FoldLeft(Named, @, op.add)]
            new == [m \in op.mids |-> Tagged(Entry(c, m), op)]
<1>1. op.mids \in SUBSET M /\ op.add \in Seq(W)
  BY DEF IsStep
<1>2. /\ IsTags(FoldLeft(Named, d.tags, op.add), W)
      /\ DOMAIN FoldLeft(Named, d.tags, op.add) = DOMAIN d.tags \cup Range(op.add)
  <2>. DEFINE tags == d.tags
              add  == op.add
  <2>1. IsTags(tags, W) /\ add \in Seq(W)
    BY <1>1 DEF IsData
  <2>. HIDE DEF tags, add
  <2>2. /\ IsTags(FoldLeft(Named, tags, add), W)
        /\ DOMAIN FoldLeft(Named, tags, add) = DOMAIN tags \cup Range(add)
    BY <2>1, NamedOf
  <2>. QED  BY <2>2 DEF tags, add
<1>3. /\ c.msgs = d.msgs /\ c.rules = d.rules /\ c.filters = d.filters
      /\ c.tags = FoldLeft(Named, d.tags, op.add)
      /\ c = [msgs |-> c.msgs, tags |-> c.tags, rules |-> c.rules, filters |-> c.filters]
  BY DEF IsData
<1>4. a = [c EXCEPT !.msgs = Over(new, @)]
  BY DEF Apply, Tags, Each, Tagged
<1>. HIDE DEF c
<1>5. IsData(c, M, W) /\ \A x : Entry(c, x) = Entry(d, x)
  BY <1>2, <1>3 DEF IsData, Entry
<1>6. new \in [op.mids -> Marks(W)]
  <2>1. ASSUME NEW m \in op.mids PROVE Tagged(Entry(c, m), op) \in Marks(W)
    <3>1. Entry(c, m) \in Marks(W)
      BY <1>5, EntryIs
    <3>2. Entry(c, m).tags \in Seq(W)
      BY <3>1 DEF Marks
    <3>3. Strip(Entry(c, m).tags, op.remove) \in Seq(W)
      BY <3>2, StripOf
    <3>4. FoldLeft(Enlist, Strip(Entry(c, m).tags, op.remove), op.add) \in Seq(W)
      BY <1>1, <3>3, EnlistOf
    <3>. QED  BY <3>1, <3>4 DEF Tagged, Marks
  <2>. QED  BY <2>1
<1>7. \A x \in op.mids : new[x] = Tagged(Entry(d, x), op)
  BY <1>5
<1>. HIDE DEF new
<1>8. Overlaid(a, c, M, W, op.mids, new)
  BY <1>1, <1>4, <1>5, <1>6, OverOf
<1>. QED  BY <1>2, <1>3, <1>5, <1>7, <1>8 DEF Overlaid, AfterTags

LEMMA DropOf ==
  ASSUME NEW M, NEW W, NEW d, IsData(d, M, W), NEW op, op.t = "drop"
  PROVE  AfterDrop(Apply(d, op), d, M, W, op)
<1>. DEFINE a == Apply(d, op)
<1>1. a = [d EXCEPT !.msgs = Less(@, op.mids)]
  BY DEF Apply
<1>2. /\ a.msgs = Less(d.msgs, op.mids) /\ a.tags = d.tags /\ a.rules = d.rules /\ a.filters = d.filters
      /\ a = [msgs |-> a.msgs, tags |-> a.tags, rules |-> a.rules, filters |-> a.filters]
  BY <1>1 DEF IsData
<1>3. /\ DOMAIN a.msgs = DOMAIN d.msgs \ op.mids
      /\ \A x \in DOMAIN a.msgs : a.msgs[x] = d.msgs[x]
      /\ a.msgs \in [DOMAIN a.msgs -> Marks(W)]
  BY <1>2 DEF Less, IsData
<1>4. IsData(a, M, W)
  BY <1>2, <1>3 DEF IsData
<1>. QED  BY <1>2, <1>3, <1>4 DEF Entry, AfterDrop

LEMMA RekeyOf ==
  ASSUME NEW M, NEW W, NEW d, IsData(d, M, W), NEW op, IsStep(op, M, W), op.t = "rekey"
  PROVE  AfterRekey(Apply(d, op), d, M, W, op)
<1>. DEFINE a == Apply(d, op)
<1>1. a = Rekey(d, op) /\ op.new \in M
  BY DEF Apply, IsStep
<1>2. CASE op.old \notin DOMAIN d.msgs
  BY <1>1, <1>2 DEF Rekey, AfterRekey
<1>3. CASE op.old \in DOMAIN d.msgs
  <2>1. a = [d EXCEPT !.msgs = Put(@, op.new, d.msgs[op.old])]
    BY <1>1, <1>3 DEF Rekey
  <2>2. /\ a.msgs = Put(d.msgs, op.new, d.msgs[op.old])
        /\ a.tags = d.tags /\ a.rules = d.rules /\ a.filters = d.filters
        /\ a = [msgs |-> a.msgs, tags |-> a.tags, rules |-> a.rules, filters |-> a.filters]
    BY <2>1 DEF IsData
  <2>3. d.msgs[op.old] \in Marks(W)
    BY <1>3 DEF IsData
  <2>4. /\ DOMAIN a.msgs = DOMAIN d.msgs \cup {op.new}
        /\ \A x \in DOMAIN a.msgs : a.msgs[x] = IF x = op.new THEN d.msgs[op.old] ELSE d.msgs[x]
        /\ a.msgs \in [DOMAIN a.msgs -> Marks(W)]
    BY <2>2, <2>3 DEF Put, IsData
  <2>5. IsData(a, M, W)
    BY <1>1, <2>2, <2>4 DEF IsData
  <2>. QED  BY <1>3, <2>2, <2>4, <2>5 DEF Entry, AfterRekey
<1>. QED  BY <1>2, <1>3

LEMMA KnownOf ==
  ASSUME NEW M, NEW W, NEW d, IsData(d, M, W), NEW tags, IsTags(tags, W),
         NEW new, new \in [DOMAIN d.msgs -> Marks(W)],
         NEW a, a = [msgs |-> new, tags |-> tags, rules |-> d.rules, filters |-> d.filters]
  PROVE  KnownAs(a, d, M, W, tags, new)
BY DEF KnownAs, IsData, Entry

LEMMA TagdelOf ==
  ASSUME NEW M, NEW W, NEW d, IsData(d, M, W), NEW op, op.t = "tagdel"
  PROVE  AfterTagdel(Apply(d, op), d, M, W, op)
<1>. DEFINE a == Apply(d, op)
<1>. DEFINE tags == Less(d.tags, {op.name})
            new  == [x \in DOMAIN d.msgs |-> Untagged(d.msgs[x], op.name)]
<1>1. a = [msgs |-> new, tags |-> tags, rules |-> d.rules, filters |-> d.filters]
  <2>1. a = Known([d EXCEPT !.tags = tags], LAMBDA e : Untagged(e, op.name))
    BY DEF Apply, Tagdel, Untagged
  <2>. HIDE DEF tags
  <2>. DEFINE c == [d EXCEPT !.tags = tags]
  <2>2. /\ c.msgs = d.msgs
        /\ c = [msgs |-> d.msgs, tags |-> tags, rules |-> d.rules, filters |-> d.filters]
    BY DEF IsData
  <2>3. a = [c EXCEPT !.msgs = [m \in DOMAIN @ |-> Untagged(@[m], op.name)]]
    BY <2>1 DEF Known
  <2>. HIDE DEF c
  <2>4. a = [msgs |-> [m \in DOMAIN c.msgs |-> Untagged(c.msgs[m], op.name)], tags |-> c.tags, rules |-> c.rules, filters |-> c.filters]
    BY <2>2, <2>3
  <2>. QED  BY <2>2, <2>4
<1>2. IsTags(tags, W)
  BY DEF IsTags, IsData, Less
<1>3. new \in [DOMAIN d.msgs -> Marks(W)]
  <2>1. ASSUME NEW x \in DOMAIN d.msgs PROVE Untagged(d.msgs[x], op.name) \in Marks(W)
    <3>1. d.msgs[x] \in Marks(W)
      BY DEF IsData
    <3>2. d.msgs[x].tags \in Seq(W)
      BY <3>1 DEF Marks
    <3>3. Strip(d.msgs[x].tags, {op.name}) \in Seq(W)
      BY <3>2, StripOf
    <3>. QED  BY <3>1, <3>3 DEF Untagged, Marks
  <2>. QED  BY <2>1
<1>4. \A x \in DOMAIN d.msgs : new[x] = Untagged(d.msgs[x], op.name)
  OBVIOUS
<1>. HIDE DEF new, tags
<1>5. KnownAs(a, d, M, W, tags, new)
  BY <1>1, <1>2, <1>3, KnownOf
<1>. QED  BY <1>4, <1>5 DEF KnownAs, tags, AfterTagdel

LEMMA RenamedOf ==
  ASSUME NEW W, NEW s \in Seq(W), NEW op, op.new \in W
  PROVE  /\ RenamedList(s, op) \in Seq(W)
         /\ Range(RenamedList(s, op)) =
              (Range(s) \ {op.old}) \cup (IF op.old \in Range(s) THEN {op.new} ELSE {})
         /\ op.old \notin Range(s) => RenamedList(s, op) = s
<1>1. RenamedList(s, op) \in Seq(W)
  BY DEF RenamedList
<1>2. /\ DOMAIN RenamedList(s, op) = DOMAIN s
      /\ \A i \in DOMAIN s : RenamedList(s, op)[i] = IF s[i] = op.old THEN op.new ELSE s[i]
  BY DEF RenamedList
<1>3. op.old \notin Range(s) => RenamedList(s, op) = s
  BY <1>1, <1>2 DEF Range
<1>. QED  BY <1>1, <1>2, <1>3 DEF Range

LEMMA RenColorIs ==
  ASSUME NEW M, NEW W, IsFiniteSet(W), NEW d, IsData(d, M, W), NEW op, IsStep(op, M, W), op.t = "tagren"
  PROVE  RenColor(d, op) \in Hue
<1>1. NextColor(d.tags) \in Hue
  BY NextColorIs DEF IsData
<1>2. op.color \subseteq Hue /\ \A t \in DOMAIN d.tags : d.tags[t] \in Hue
  BY DEF IsStep, IsData, IsTags
<1>. QED  BY <1>1, <1>2 DEF RenColor, ColorOr

LEMMA TagrenOf ==
  ASSUME NEW M, NEW W, IsFiniteSet(W), NEW d, IsData(d, M, W),
         NEW op, IsStep(op, M, W), op.t = "tagren"
  PROVE  AfterTagren(Apply(d, op), d, M, W, op)
<1>. DEFINE a == Apply(d, op)
<1>. DEFINE tags == Put(IF op.old = op.new THEN d.tags ELSE Less(d.tags, {op.old}), op.new, RenColor(d, op))
            new  == [x \in DOMAIN d.msgs |-> Renamed(d.msgs[x], op)]
<1>1. \A x \in DOMAIN d.msgs : d.msgs[x] \in Marks(W) /\ d.msgs[x].tags \in Seq(W)
  BY DEF IsData, Marks
<1>2. op.new \in W /\ RenColor(d, op) \in Hue
  BY RenColorIs DEF IsStep
<1>3. a = [msgs |-> new, tags |-> tags, rules |-> d.rules, filters |-> d.filters]
  <2>1. a = Tagren(d, op)
    BY DEF Apply
  <2>2. CASE op.old = op.new
    <3>1. a = [d EXCEPT !.tags = tags]
      BY <2>1, <2>2 DEF Tagren, RenColor
    <3>2. new = d.msgs
      <4>1. ASSUME NEW x \in DOMAIN d.msgs PROVE Renamed(d.msgs[x], op) = d.msgs[x]
        <5>1. RenamedList(d.msgs[x].tags, op) = d.msgs[x].tags
          BY <1>1, <2>2 DEF RenamedList
        <5>. QED  BY <1>1, <5>1 DEF Renamed, Marks
      <4>. QED  BY <4>1 DEF IsData
    <3>. HIDE DEF tags, new
    <3>. QED  BY <3>1, <3>2 DEF IsData
  <2>3. CASE op.old # op.new
    <3>1. a = Known([d EXCEPT !.tags = tags], LAMBDA e : Renamed(e, op))
      BY <2>1, <2>3 DEF Tagren, RenColor, Renamed, RenamedList
    <3>. HIDE DEF tags
    <3>. DEFINE c == [d EXCEPT !.tags = tags]
    <3>2. /\ c.msgs = d.msgs
          /\ c = [msgs |-> d.msgs, tags |-> tags, rules |-> d.rules, filters |-> d.filters]
      BY DEF IsData
    <3>3. a = [c EXCEPT !.msgs = [m \in DOMAIN @ |-> Renamed(@[m], op)]]
      BY <3>1 DEF Known
    <3>. HIDE DEF c
    <3>4. a = [msgs |-> [m \in DOMAIN c.msgs |-> Renamed(c.msgs[m], op)], tags |-> c.tags, rules |-> c.rules, filters |-> c.filters]
      BY <3>2, <3>3
    <3>. QED  BY <3>2, <3>4
  <2>. QED  BY <2>2, <2>3
<1>4. IsTags(tags, W)
  BY <1>2 DEF IsTags, IsData, Less, Put
<1>5. new \in [DOMAIN d.msgs -> Marks(W)]
  <2>1. ASSUME NEW x \in DOMAIN d.msgs PROVE Renamed(d.msgs[x], op) \in Marks(W)
    <3>1. RenamedList(d.msgs[x].tags, op) \in Seq(W)
      BY <1>1, <1>2, RenamedOf
    <3>. QED  BY <1>1, <3>1 DEF Renamed, Marks
  <2>. QED  BY <2>1
<1>6. \A x \in DOMAIN d.msgs : new[x] = Renamed(d.msgs[x], op)
  OBVIOUS
<1>. HIDE DEF new, tags
<1>7. KnownAs(a, d, M, W, tags, new)
  BY <1>3, <1>4, <1>5, KnownOf
<1>. QED  BY <1>6, <1>7 DEF KnownAs, tags, AfterTagren

LEMMA RulesOf ==
  ASSUME NEW M, NEW W, NEW d, IsData(d, M, W), NEW op, op.t \in {"rules", "filters"}
  PROVE  AfterRules(Apply(d, op), d, M, W, op)
<1>. DEFINE a == Apply(d, op)
<1>1. a = IF op.t = "rules" THEN [d EXCEPT !.rules = op.rules] ELSE [d EXCEPT !.filters = op.filters]
  BY DEF Apply
<1>. QED  BY <1>1 DEF IsData, AfterRules

LEMMA KindsAre ==
  ASSUME NEW M, NEW W, NEW op, IsStep(op, M, W)
  PROVE  \/ op.t = "flags" \/ op.t = "tags" \/ op.t = "ruled" \/ op.t = "drop" \/ op.t = "rekey"
         \/ op.t = "tagdel" \/ op.t = "tagren" \/ op.t \in {"rules", "filters"}
BY DEF IsStep, Kind

LEMMA ApplyData ==
  ASSUME NEW M, NEW W, IsFiniteSet(W), NEW d, IsData(d, M, W), NEW op, IsStep(op, M, W)
  PROVE  IsData(Apply(d, op), M, W)
<1>1. CASE op.t = "flags"
  BY <1>1, FlagsOf DEF AfterFlags
<1>2. CASE op.t = "tags"
  BY <1>2, TagsOf DEF AfterTags
<1>3. CASE op.t = "ruled"
  BY <1>3, RuledOf DEF AfterRuled
<1>4. CASE op.t = "drop"
  BY <1>4, DropOf DEF AfterDrop
<1>5. CASE op.t = "rekey"
  BY <1>5, RekeyOf DEF AfterRekey
<1>6. CASE op.t = "tagdel"
  BY <1>6, TagdelOf DEF AfterTagdel
<1>7. CASE op.t = "tagren"
  BY <1>7, TagrenOf DEF AfterTagren
<1>8. CASE op.t \in {"rules", "filters"}
  BY <1>8, RulesOf DEF AfterRules
<1>. QED  BY <1>1, <1>2, <1>3, <1>4, <1>5, <1>6, <1>7, <1>8, KindsAre

LEMMA TaggedOf ==
  ASSUME NEW W, NEW e \in Marks(W), NEW op, op.add \in Seq(W)
  PROVE  /\ Tagged(e, op) \in Marks(W)
         /\ Range(Tagged(e, op).tags) = (Range(e.tags) \ op.remove) \cup Range(op.add)
         /\ Tagged(e, op).read = e.read /\ Tagged(e, op).star = e.star /\ Tagged(e, op).ruled = e.ruled
<1>. DEFINE s == Strip(e.tags, op.remove)
            a == FoldLeft(Enlist, s, op.add)
<1>1. e.tags \in Seq(W)
  BY DEF Marks
<1>2. s \in Seq(W) /\ Range(s) = Range(e.tags) \ op.remove
  BY <1>1, StripOf
<1>3. a \in Seq(W) /\ Range(a) = Range(s) \cup Range(op.add)
  BY <1>2, EnlistOf
<1>4. Tagged(e, op) = [e EXCEPT !.tags = a]
  BY DEF Tagged
<1>. HIDE DEF a, s
<1>5. Tagged(e, op) \in Marks(W) /\ Tagged(e, op).tags = a
  BY <1>3, <1>4 DEF Marks
<1>6. Tagged(e, op).read = e.read /\ Tagged(e, op).star = e.star /\ Tagged(e, op).ruled = e.ruled
  BY <1>4 DEF Marks
<1>. QED  BY <1>2, <1>3, <1>5, <1>6

LEMMA FlaggedOf ==
  ASSUME NEW W, NEW e \in Marks(W), NEW op, NEW k, NEW t
  PROVE  On(Flagged(e, op), k, t) <=>
           IF k = "read" /\ op.read # {} THEN TRUE \in op.read
           ELSE IF k = "star" /\ op.star # {} THEN TRUE \in op.star ELSE On(e, k, t)
<1>1. /\ Flagged(e, op).read = Set(e.read, op.read) /\ Flagged(e, op).star = Set(e.star, op.star)
      /\ Flagged(e, op).ruled = e.ruled /\ Flagged(e, op).tags = e.tags
  BY DEF Flagged, Marks
<1>2. ASSUME NEW b \in BOOLEAN, NEW to
      PROVE  Set(b, to) = TRUE <=> IF to = {} THEN b = TRUE ELSE TRUE \in to
  <2>1. CASE to = {}
    BY <2>1 DEF Set
  <2>2. CASE to # {}
    <3>1. Set(b, to) = (TRUE \in to)
      BY <2>2 DEF Set
    <3>. QED  BY <2>2, <3>1
  <2>. QED  BY <2>1, <2>2
<1>3. /\ Set(e.read, op.read) = TRUE <=> IF op.read = {} THEN e.read = TRUE ELSE TRUE \in op.read
      /\ Set(e.star, op.star) = TRUE <=> IF op.star = {} THEN e.star = TRUE ELSE TRUE \in op.star
  BY <1>2 DEF Marks
<1>. QED  BY <1>1, <1>3 DEF On

\* On a message it does not drop or copy, and for a tag it does not delete or rename:
\* an operation writes a mark, or leaves it.
LEMMA ApplyMark ==
  ASSUME NEW M, NEW W, IsFiniteSet(W), NEW d, IsData(d, M, W), NEW op, IsStep(op, M, W),
         NEW x, x \notin Moves(op), NEW k, NEW t, k = "tag" => t \notin Recasts(op)
  PROVE  On(Entry(Apply(d, op), x), k, t) <=>
           IF Writes(op, x, k, t) THEN Gives(op, k, t) ELSE On(Entry(d, x), k, t)
<1>. DEFINE a == Apply(d, op)
            e == Entry(d, x)
<1>0. e \in Marks(W)
  BY EntryIs
<1>1. CASE op.t = "flags"
  <2>1. Entry(a, x) = IF x \in op.mids THEN Flagged(e, op) ELSE e
    BY <1>1, FlagsOf DEF AfterFlags
  <2>. HIDE DEF a, e
  <2>2. On(Flagged(e, op), k, t) <=>
          IF k = "read" /\ op.read # {} THEN TRUE \in op.read
          ELSE IF k = "star" /\ op.star # {} THEN TRUE \in op.star ELSE On(e, k, t)
    BY <1>0, FlaggedOf
  <2>. QED  BY <1>1, <2>1, <2>2 DEF Writes, Gives, a, e
<1>2. CASE op.t = "tags"
  <2>1. Entry(a, x) = IF x \in op.mids THEN Tagged(e, op) ELSE e
    BY <1>2, TagsOf DEF AfterTags
  <2>2. op.add \in Seq(W)
    BY <1>2 DEF IsStep
  <2>. HIDE DEF a, e
  <2>3. /\ Range(Tagged(e, op).tags) = (Range(e.tags) \ op.remove) \cup Range(op.add)
        /\ Tagged(e, op).read = e.read /\ Tagged(e, op).star = e.star /\ Tagged(e, op).ruled = e.ruled
    BY <1>0, <2>2, TaggedOf
  <2>4. x \in op.mids =>
          (On(Entry(a, x), k, t) <=> IF Writes(op, x, k, t) THEN Gives(op, k, t) ELSE On(e, k, t))
    BY <1>2, <2>1, <2>3 DEF On, Writes, Gives
  <2>5. x \notin op.mids => Entry(a, x) = e /\ ~Writes(op, x, k, t)
    BY <1>2, <2>1 DEF Writes
  <2>. QED  BY <2>4, <2>5 DEF a, e
<1>3. CASE op.t = "ruled"
  <2>1. Entry(a, x) = IF x \in op.mids THEN Seen(e) ELSE e
    BY <1>3, RuledOf DEF AfterRuled
  <2>2. Seen(e).read = e.read /\ Seen(e).star = e.star /\ Seen(e).ruled = TRUE /\ Seen(e).tags = e.tags
    BY <1>0 DEF Seen, Marks
  <2>. HIDE DEF a, e
  <2>. QED  BY <1>3, <2>1, <2>2 DEF On, Writes, Gives, a, e
<1>4. CASE op.t = "drop"
  <2>1. Entry(a, x) = e
    BY <1>4, DropOf DEF Moves, AfterDrop
  <2>. HIDE DEF a, e
  <2>. QED  BY <1>4, <2>1 DEF Writes, a, e
<1>5. CASE op.t = "rekey"
  <2>1. Entry(a, x) = e
    BY <1>5, RekeyOf DEF Moves, AfterRekey
  <2>. HIDE DEF a, e
  <2>. QED  BY <1>5, <2>1 DEF Writes, a, e
<1>6. CASE op.t = "tagdel"
  <2>1. Entry(a, x) = IF x \in DOMAIN d.msgs THEN Untagged(d.msgs[x], op.name) ELSE Fresh
    <3>1. AfterTagdel(a, d, M, W, op)
      BY <1>6, TagdelOf
    <3>. HIDE DEF a
    <3>. QED  BY <3>1 DEF AfterTagdel
  <2>2. e = IF x \in DOMAIN d.msgs THEN d.msgs[x] ELSE Fresh
    BY DEF Entry
  <2>3. k = "tag" => t # op.name
    BY <1>6 DEF Recasts
  <2>. HIDE DEF a, e
  <2>4. /\ Untagged(e, op.name).read = e.read /\ Untagged(e, op.name).star = e.star
        /\ Untagged(e, op.name).ruled = e.ruled
        /\ Untagged(e, op.name).tags = Strip(e.tags, {op.name})
    BY <1>0 DEF Untagged, Marks
  <2>5. Range(Strip(e.tags, {op.name})) = Range(e.tags) \ {op.name}
    <3>1. e.tags \in Seq(W)
      BY <1>0 DEF Marks
    <3>. QED  BY <3>1, StripOf
  <2>6. On(Untagged(e, op.name), k, t) <=> On(e, k, t)
    BY <2>3, <2>4, <2>5 DEF On
  <2>7. ~Writes(op, x, k, t)
    BY <1>6 DEF Writes
  <2>. QED  BY <2>1, <2>2, <2>6, <2>7 DEF a, e
<1>7. CASE op.t = "tagren"
  <2>1. Entry(a, x) = IF x \in DOMAIN d.msgs THEN Renamed(d.msgs[x], op) ELSE Fresh
    <3>1. AfterTagren(a, d, M, W, op)
      BY <1>7, TagrenOf
    <3>. HIDE DEF a
    <3>. QED  BY <3>1 DEF AfterTagren
  <2>2. e = IF x \in DOMAIN d.msgs THEN d.msgs[x] ELSE Fresh
    BY DEF Entry
  <2>3. (k = "tag" => t # op.old /\ t # op.new) /\ op.new \in W
    BY <1>7 DEF Recasts, IsStep
  <2>. HIDE DEF a, e
  <2>4. /\ Renamed(e, op).read = e.read /\ Renamed(e, op).star = e.star
        /\ Renamed(e, op).ruled = e.ruled
        /\ Renamed(e, op).tags = RenamedList(e.tags, op)
    BY <1>0 DEF Renamed, Marks
  <2>5. Range(RenamedList(e.tags, op)) =
          (Range(e.tags) \ {op.old}) \cup (IF op.old \in Range(e.tags) THEN {op.new} ELSE {})
    <3>1. e.tags \in Seq(W)
      BY <1>0 DEF Marks
    <3>. QED  BY <2>3, <3>1, RenamedOf
  <2>6. On(Renamed(e, op), k, t) <=> On(e, k, t)
    BY <2>3, <2>4, <2>5 DEF On
  <2>7. ~Writes(op, x, k, t)
    BY <1>7 DEF Writes
  <2>. QED  BY <2>1, <2>2, <2>6, <2>7 DEF a, e
<1>8. CASE op.t \in {"rules", "filters"}
  <2>1. Entry(a, x) = e
    BY <1>8, RulesOf DEF Entry, AfterRules
  <2>. HIDE DEF a, e
  <2>. QED  BY <1>8, <2>1 DEF Writes, a, e
<1>. QED  BY <1>1, <1>2, <1>3, <1>4, <1>5, <1>6, <1>7, <1>8, KindsAre

LEMMA ApplyKnown ==
  ASSUME NEW M, NEW W, IsFiniteSet(W), NEW d, IsData(d, M, W), NEW op, IsStep(op, M, W),
         NEW x, x \notin Moves(op)
  PROVE  x \in DOMAIN Apply(d, op).msgs <=> x \in DOMAIN d.msgs \/ x \in Mentions(op)
<1>. DEFINE a == Apply(d, op)
<1>1. CASE op.t = "flags"
  <2>1. AfterFlags(a, d, M, W, op)
    BY <1>1, FlagsOf
  <2>. HIDE DEF a
  <2>. QED  BY <1>1, <2>1 DEF AfterFlags, Mentions, a
<1>2. CASE op.t = "tags"
  <2>1. AfterTags(a, d, M, W, op)
    BY <1>2, TagsOf
  <2>. HIDE DEF a
  <2>. QED  BY <1>2, <2>1 DEF AfterTags, Mentions, a
<1>3. CASE op.t = "ruled"
  <2>1. AfterRuled(a, d, M, W, op)
    BY <1>3, RuledOf
  <2>. HIDE DEF a
  <2>. QED  BY <1>3, <2>1 DEF AfterRuled, Mentions, a
<1>4. CASE op.t = "drop"
  <2>1. AfterDrop(a, d, M, W, op)
    BY <1>4, DropOf
  <2>. HIDE DEF a
  <2>. QED  BY <1>4, <2>1 DEF AfterDrop, Mentions, Moves, a
<1>5. CASE op.t = "rekey"
  <2>1. AfterRekey(a, d, M, W, op)
    BY <1>5, RekeyOf
  <2>. HIDE DEF a
  <2>. QED  BY <1>5, <2>1 DEF AfterRekey, Mentions, Moves, a
<1>6. CASE op.t = "tagdel"
  <2>1. AfterTagdel(a, d, M, W, op)
    BY <1>6, TagdelOf
  <2>. HIDE DEF a
  <2>. QED  BY <1>6, <2>1 DEF AfterTagdel, Mentions, a
<1>7. CASE op.t = "tagren"
  <2>1. AfterTagren(a, d, M, W, op)
    BY <1>7, TagrenOf
  <2>. HIDE DEF a
  <2>. QED  BY <1>7, <2>1 DEF AfterTagren, Mentions, a
<1>8. CASE op.t \in {"rules", "filters"}
  <2>1. AfterRules(a, d, M, W, op)
    BY <1>8, RulesOf
  <2>. HIDE DEF a
  <2>. QED  BY <1>8, <2>1 DEF AfterRules, Mentions, a
<1>. QED  BY <1>1, <1>2, <1>3, <1>4, <1>5, <1>6, <1>7, <1>8, KindsAre

LEMMA ApplyRest ==
  ASSUME NEW M, NEW W, IsFiniteSet(W), NEW d, IsData(d, M, W), NEW op, IsStep(op, M, W)
  PROVE  AfterAny(Apply(d, op), d, op)
<1>. DEFINE a == Apply(d, op)
<1>1. CASE op.t = "flags"
  <2>1. AfterFlags(a, d, M, W, op)
    BY <1>1, FlagsOf
  <2>. HIDE DEF a
  <2>. QED  BY <1>1, <2>1 DEF AfterFlags, AfterAny, a
<1>2. CASE op.t = "tags"
  <2>1. AfterTags(a, d, M, W, op)
    BY <1>2, TagsOf
  <2>. HIDE DEF a
  <2>. QED  BY <1>2, <2>1 DEF AfterTags, AfterAny, a
<1>3. CASE op.t = "ruled"
  <2>1. AfterRuled(a, d, M, W, op)
    BY <1>3, RuledOf
  <2>. HIDE DEF a
  <2>. QED  BY <1>3, <2>1 DEF AfterRuled, AfterAny, a
<1>4. CASE op.t = "drop"
  <2>1. AfterDrop(a, d, M, W, op)
    BY <1>4, DropOf
  <2>. HIDE DEF a
  <2>. QED  BY <1>4, <2>1 DEF AfterDrop, AfterAny, a
<1>5. CASE op.t = "rekey"
  <2>1. AfterRekey(a, d, M, W, op)
    BY <1>5, RekeyOf
  <2>. HIDE DEF a
  <2>. QED  BY <1>5, <2>1 DEF AfterRekey, AfterAny, a
<1>6. CASE op.t = "tagdel"
  <2>1. AfterTagdel(a, d, M, W, op)
    BY <1>6, TagdelOf
  <2>. HIDE DEF a
  <2>. QED  BY <1>6, <2>1 DEF AfterTagdel, AfterAny, Less, Recasts, a
<1>7. CASE op.t = "tagren"
  <2>1. AfterTagren(a, d, M, W, op)
    BY <1>7, TagrenOf
  <2>. HIDE DEF a
  <2>. QED  BY <1>7, <2>1 DEF AfterTagren, AfterAny, Less, Put, Recasts, a
<1>8. CASE op.t \in {"rules", "filters"}
  <2>1. AfterRules(a, d, M, W, op)
    BY <1>8, RulesOf
  <2>. HIDE DEF a
  <2>. QED  BY <1>8, <2>1 DEF AfterRules, AfterAny, a
<1>. QED  BY <1>1, <1>2, <1>3, <1>4, <1>5, <1>6, <1>7, <1>8, KindsAre

LEMMA ApplyListed ==
  ASSUME NEW M, NEW W, IsFiniteSet(W), NEW d, IsData(d, M, W), NEW op, IsStep(op, M, W),
         NEW rc, Recasts(op) \subseteq rc, Listed(d, rc)
  PROVE  Listed(Apply(d, op), rc)
<1>. DEFINE a == Apply(d, op)
<1>0. \A x : Entry(d, x) \in Marks(W) /\ Range(Entry(d, x).tags) \subseteq DOMAIN d.tags \cup rc
  BY EntryIs DEF Listed
<1>1. CASE op.t = "flags"
  <2>1. AfterFlags(a, d, M, W, op)
    BY <1>1, FlagsOf
  <2>2. \A e \in Marks(W) : Flagged(e, op).tags = e.tags
    BY DEF Flagged, Marks
  <2>. HIDE DEF a
  <2>. QED  BY <1>0, <2>1, <2>2 DEF AfterFlags, Listed, a
<1>2. CASE op.t = "tags"
  <2>1. AfterTags(a, d, M, W, op)
    BY <1>2, TagsOf
  <2>2. op.add \in Seq(W)
    BY <1>2 DEF IsStep
  <2>3. \A e \in Marks(W) : Range(Tagged(e, op).tags) = (Range(e.tags) \ op.remove) \cup Range(op.add)
    BY <2>2, TaggedOf
  <2>. HIDE DEF a
  <2>4. ASSUME NEW x PROVE Range(Entry(a, x).tags) \subseteq DOMAIN a.tags \cup rc
    <3>1. /\ DOMAIN a.tags = DOMAIN d.tags \cup Range(op.add)
          /\ Entry(a, x) = IF x \in op.mids THEN Tagged(Entry(d, x), op) ELSE Entry(d, x)
      BY <2>1 DEF AfterTags
    <3>. QED  BY <1>0, <2>3, <3>1
  <2>. QED  BY <2>4 DEF Listed, a
<1>3. CASE op.t = "ruled"
  <2>1. AfterRuled(a, d, M, W, op)
    BY <1>3, RuledOf
  <2>2. \A e \in Marks(W) : Seen(e).tags = e.tags
    BY DEF Seen, Marks
  <2>. HIDE DEF a
  <2>. QED  BY <1>0, <2>1, <2>2 DEF AfterRuled, Listed, a
<1>4. CASE op.t = "drop"
  <2>1. AfterDrop(a, d, M, W, op)
    BY <1>4, DropOf
  <2>. HIDE DEF a
  <2>. QED  BY <1>0, <2>1, FreshIs DEF AfterDrop, Listed, a
<1>5. CASE op.t = "rekey"
  <2>1. AfterRekey(a, d, M, W, op)
    BY <1>5, RekeyOf
  <2>2. op.old \in DOMAIN d.msgs => d.msgs[op.old] = Entry(d, op.old)
    BY DEF Entry
  <2>. HIDE DEF a
  <2>. QED  BY <1>0, <2>1, <2>2 DEF AfterRekey, Listed, a
<1>6. CASE op.t = "tagdel"
  <2>1. AfterTagdel(a, d, M, W, op)
    BY <1>6, TagdelOf
  <2>2. ASSUME NEW e \in Marks(W) PROVE Range(Untagged(e, op.name).tags) = Range(e.tags) \ {op.name}
    <3>1. e.tags \in Seq(W) /\ Untagged(e, op.name).tags = Strip(e.tags, {op.name})
      BY DEF Untagged, Marks
    <3>. QED  BY <3>1, StripOf
  <2>3. op.name \in rc
    BY <1>6 DEF Recasts
  <2>. HIDE DEF a
  <2>4. ASSUME NEW x PROVE Range(Entry(a, x).tags) \subseteq DOMAIN a.tags \cup rc
    <3>1. /\ DOMAIN a.tags = DOMAIN d.tags \ {op.name}
          /\ Entry(a, x) = IF x \in DOMAIN d.msgs THEN Untagged(Entry(d, x), op.name) ELSE Fresh
      BY <2>1 DEF AfterTagdel, Less, Entry
    <3>. QED  BY <1>0, <2>2, <2>3, <3>1, FreshIs
  <2>. QED  BY <2>4 DEF Listed, a
<1>7. CASE op.t = "tagren"
  <2>1. AfterTagren(a, d, M, W, op)
    BY <1>7, TagrenOf
  <2>2. op.new \in W /\ op.old \in rc /\ op.new \in rc
    BY <1>7 DEF Recasts, IsStep
  <2>3. ASSUME NEW e \in Marks(W) PROVE Range(Renamed(e, op).tags) \subseteq Range(e.tags) \cup {op.new}
    <3>1. e.tags \in Seq(W) /\ Renamed(e, op).tags = RenamedList(e.tags, op)
      BY DEF Renamed, Marks
    <3>. QED  BY <2>2, <3>1, RenamedOf
  <2>. HIDE DEF a
  <2>4. ASSUME NEW x PROVE Range(Entry(a, x).tags) \subseteq DOMAIN a.tags \cup rc
    <3>1. /\ DOMAIN d.tags \ {op.old} \subseteq DOMAIN a.tags
          /\ Entry(a, x) = IF x \in DOMAIN d.msgs THEN Renamed(Entry(d, x), op) ELSE Fresh
      BY <2>1 DEF AfterTagren, Less, Put, Entry
    <3>. QED  BY <1>0, <2>2, <2>3, <3>1, FreshIs
  <2>. QED  BY <2>4 DEF Listed, a
<1>8. CASE op.t \in {"rules", "filters"}
  <2>1. AfterRules(a, d, M, W, op)
    BY <1>8, RulesOf
  <2>. HIDE DEF a
  <2>. QED  BY <1>0, <2>1 DEF AfterRules, Listed, Entry, a
<1>. QED  BY <1>1, <1>2, <1>3, <1>4, <1>5, <1>6, <1>7, <1>8, KindsAre

-----------------------------------------------------------------------------
(* What a list of operations makes of a document.                            *)

LEMMA MakesNothing ==
  ASSUME NEW d, NEW e, NEW l, NEW M, NEW W, NEW mv, NEW rc, IsData(d, M, W), IsData(e, M, W)
  PROVE  Makes(d, e, d, e, l, 0, M, W, mv, rc)
<1>1. 1 .. 0 = {}
  OBVIOUS
<1>. QED  BY <1>1 DEF Makes, Wrote, Touched, Lists, Sets

\* One operation more.
LEMMA MakesMore ==
  ASSUME NEW M, NEW W, IsFiniteSet(W), NEW d, NEW e, NEW l, NEW mv, NEW rc,
         NEW n \in Nat, n > 0, NEW g, NEW h, Makes(g, h, d, e, l, n - 1, M, W, mv, rc),
         IsStep(l[n], M, W), Moves(l[n]) \subseteq mv, Recasts(l[n]) \subseteq rc
  PROVE  Makes(Apply(g, l[n]), Apply(h, l[n]), d, e, l, n, M, W, mv, rc)
<1>. DEFINE op == l[n]
            a == Apply(g, op)
            b == Apply(h, op)
<1>1. \A j : j \in 1 .. n <=> j \in 1 .. n - 1 \/ j = n
  OBVIOUS
<1>2. IsStep(op, M, W) /\ Moves(op) \subseteq mv /\ Recasts(op) \subseteq rc
  OBVIOUS
<1>3. IsData(g, M, W) /\ IsData(h, M, W)
  BY DEF Makes
<1>4. IsData(a, M, W) /\ IsData(b, M, W)
  BY <1>2, <1>3, ApplyData
<1>5. ASSUME NEW x, x \notin mv
      PROVE  x \in DOMAIN a.msgs <=> x \in DOMAIN d.msgs \/ Touched(l, n, x)
  <2>1. x \in DOMAIN a.msgs <=> x \in DOMAIN g.msgs \/ x \in Mentions(op)
    BY <1>2, <1>3, <1>5, ApplyKnown
  <2>2. x \in DOMAIN g.msgs <=> x \in DOMAIN d.msgs \/ Touched(l, n - 1, x)
    BY <1>5 DEF Makes
  <2>3. Touched(l, n, x) <=> Touched(l, n - 1, x) \/ x \in Mentions(op)
    BY <1>1 DEF Touched
  <2>. QED  BY <2>1, <2>2, <2>3
<1>6. ASSUME NEW x, NEW k, NEW t, x \notin mv, k = "tag" => t \notin rc
      PROVE  IF Wrote(l, n, x, k, t) THEN On(Entry(a, x), k, t) <=> On(Entry(b, x), k, t)
                                     ELSE On(Entry(a, x), k, t) <=> On(Entry(d, x), k, t)
  <2>1. x \notin Moves(op) /\ (k = "tag" => t \notin Recasts(op))
    BY <1>2, <1>6
  <2>2. On(Entry(a, x), k, t) <=> IF Writes(op, x, k, t) THEN Gives(op, k, t) ELSE On(Entry(g, x), k, t)
    BY <1>2, <1>3, <2>1, ApplyMark
  <2>3. On(Entry(b, x), k, t) <=> IF Writes(op, x, k, t) THEN Gives(op, k, t) ELSE On(Entry(h, x), k, t)
    BY <1>2, <1>3, <2>1, ApplyMark
  <2>4. IF Wrote(l, n - 1, x, k, t) THEN On(Entry(g, x), k, t) <=> On(Entry(h, x), k, t)
                                    ELSE On(Entry(g, x), k, t) <=> On(Entry(d, x), k, t)
    BY <1>6 DEF Makes
  <2>5. Wrote(l, n, x, k, t) <=> Wrote(l, n - 1, x, k, t) \/ Writes(op, x, k, t)
    BY <1>1 DEF Wrote
  <2>. QED  BY <2>2, <2>3, <2>4, <2>5
<1>7. AfterAny(a, g, op) /\ AfterAny(b, h, op)
  BY <1>2, <1>3, ApplyRest
<1>. HIDE DEF a, b
<1>9. ASSUME NEW t, t \notin rc PROVE t \in DOMAIN a.tags <=> t \in DOMAIN d.tags \/ Lists(l, n, t)
  <2>1. t \in DOMAIN a.tags <=> t \in DOMAIN g.tags \/ (op.t = "tags" /\ t \in Range(op.add))
    BY <1>2, <1>7, <1>9 DEF AfterAny
  <2>2. t \in DOMAIN g.tags <=> t \in DOMAIN d.tags \/ Lists(l, n - 1, t)
    BY <1>9 DEF Makes
  <2>3. Lists(l, n, t) <=> Lists(l, n - 1, t) \/ (op.t = "tags" /\ t \in Range(op.add))
    BY <1>1 DEF Lists
  <2>. QED  BY <2>1, <2>2, <2>3
<1>10. \A kind : Sets(l, n, kind) <=> Sets(l, n - 1, kind) \/ op.t = kind
  BY <1>1 DEF Sets
<1>11. Listed(d, rc) => Listed(a, rc)
  <2>1. Listed(d, rc) => Listed(g, rc)
    BY DEF Makes
  <2>2. Listed(g, rc) => Listed(Apply(g, op), rc)
    BY <1>2, <1>3, ApplyListed
  <2>. QED  BY <2>1, <2>2 DEF a
<1>12. /\ g.rules = IF Sets(l, n - 1, "rules") THEN h.rules ELSE d.rules
       /\ g.filters = IF Sets(l, n - 1, "filters") THEN h.filters ELSE d.filters
  BY DEF Makes
<1>. HIDE DEF op
<1>13. /\ a.rules = IF Sets(l, n, "rules") THEN b.rules ELSE d.rules
       /\ a.filters = IF Sets(l, n, "filters") THEN b.filters ELSE d.filters
  BY <1>7, <1>10, <1>12 DEF AfterAny
<1>14. Makes(a, b, d, e, l, n, M, W, mv, rc)
  BY <1>4, <1>5, <1>6, <1>9, <1>11, <1>13 DEF Makes
<1>. QED  BY <1>14 DEF a, b, op

LEMMA ReplayMakes ==
  ASSUME NEW M, NEW W, IsFiniteSet(W), NEW d, IsData(d, M, W), NEW e, IsData(e, M, W),
         NEW mv, NEW rc, NEW S, NEW l \in Seq(S), Orderly(l, M, W, mv, rc)
  PROVE  Makes(Replay(d, l), Replay(e, l), d, e, l, Len(l), M, W, mv, rc)
<1>1a. PICK g : Replaying(g, d, l)
  BY ReplaySteps
<1>1. /\ g[0] = d
      /\ \A k \in 1 .. Len(l) : g[k] = Apply(g[k - 1], l[k])
      /\ Replay(d, l) = g[Len(l)]
  BY <1>1a DEF Replaying
<1>2a. PICK h : Replaying(h, e, l)
  BY ReplaySteps
<1>2. /\ h[0] = e
      /\ \A k \in 1 .. Len(l) : h[k] = Apply(h[k - 1], l[k])
      /\ Replay(e, l) = h[Len(l)]
  BY <1>2a DEF Replaying
<1>. DEFINE n == Len(l)
            Good(k) == Makes(g[k], h[k], d, e, l, k, M, W, mv, rc)
            T == {k \in 0 .. n : Good(k)}
<1>3. n \in Nat /\ n \in 0 .. n /\ 0 \in 0 .. n
      /\ \A k \in 1 .. n : k \in 0 .. n /\ k \in Nat /\ k > 0
  OBVIOUS
<1>4. Good(0)
  BY <1>1, <1>2, MakesNothing
<1>5. ASSUME NEW k \in 1 .. n, Good(k - 1) PROVE Good(k)
  <2>1. IsStep(l[k], M, W) /\ Moves(l[k]) \subseteq mv /\ Recasts(l[k]) \subseteq rc
    BY DEF Orderly
  <2>2. g[k] = Apply(g[k - 1], l[k]) /\ h[k] = Apply(h[k - 1], l[k])
    BY <1>1, <1>2
  <2>. QED  BY <1>3, <1>5, <2>1, <2>2, MakesMore
<1>. HIDE DEF Good, n
<1>6. 0 \in T /\ \A k \in 1 .. n : k - 1 \in T => k \in T
  BY <1>3, <1>4, <1>5
<1>. HIDE DEF T
<1>7. n \in T
  BY <1>3, <1>6, ByCounting
<1>8. Good(n)
  BY <1>7 DEF T
<1>. QED  BY <1>1, <1>2, <1>8 DEF Good, n

LEMMA FoldsAgree ==
  ASSUME NEW base, NEW l, NEW n \in Nat, NEW g, NEW h, Folds(g, h, base, l, n)
  PROVE  g[n] = h[n]
<1>. DEFINE T == {k \in 0 .. n : g[k] = h[k]}
<1>1. 0 \in T /\ \A k \in 1 .. n : k - 1 \in T => k \in T
  <2>1. ASSUME NEW k \in 1 .. n, k - 1 \in T PROVE k \in T
    <3>1. k \in 0 .. n
      OBVIOUS
    <3>2. g[k] = Apply(g[k - 1], l[k]) /\ h[k] = Apply(h[k - 1], l[k])
      BY DEF Folds
    <3>. QED  BY <2>1, <3>1, <3>2
  <2>2. 0 \in T
    BY DEF Folds
  <2>. QED  BY <2>1, <2>2
<1>. HIDE DEF T
<1>2. n \in T
  BY <1>1, ByCounting
<1>. QED  BY <1>2 DEF T

LEMMA ReplayNothing == ASSUME NEW d PROVE Replay(d, <<>>) = d
<1>1. <<>> \in Seq({}) /\ Len(<<>>) = 0
  OBVIOUS
<1>2. PICK g : Replaying(g, d, <<>>)
  BY <1>1, ReplaySteps
<1>. QED  BY <1>1, <1>2 DEF Replaying

LEMMA ReplayMore ==
  ASSUME NEW d, NEW S, NEW l \in Seq(S), NEW op \in S
  PROVE  Replay(d, Append(l, op)) = Apply(Replay(d, l), op)
<1>. DEFINE m == Append(l, op)
            n == Len(l)
<1>1. /\ m \in Seq(S) /\ n \in Nat /\ Len(m) = n + 1 /\ m[n + 1] = op
      /\ \A k \in 1 .. n : m[k] = l[k] /\ k \in 1 .. n + 1
      /\ n + 1 \in 1 .. n + 1 /\ (n + 1) - 1 = n
  OBVIOUS
<1>. HIDE DEF m
<1>2a. PICK g : Replaying(g, d, l)
  BY ReplaySteps
<1>2. /\ g[0] = d /\ \A k \in 1 .. Len(l) : g[k] = Apply(g[k - 1], l[k])
      /\ Replay(d, l) = g[Len(l)]
  BY <1>2a DEF Replaying
<1>3a. PICK h : Replaying(h, d, m)
  BY <1>1, ReplaySteps
<1>3. /\ h[0] = d /\ \A k \in 1 .. Len(m) : h[k] = Apply(h[k - 1], m[k])
      /\ Replay(d, m) = h[Len(m)]
  BY <1>3a DEF Replaying
<1>4. g[n] = h[n]
  <2>1. \A k \in 1 .. n : g[k] = Apply(g[k - 1], l[k]) /\ h[k] = Apply(h[k - 1], l[k])
    BY <1>1, <1>2, <1>3
  <2>2. n \in Nat
    BY <1>1
  <2>3. Folds(g, h, d, l, n)
    BY <1>2, <1>3, <2>1 DEF Folds
  <2>. HIDE DEF n
  <2>. QED  BY <2>2, <2>3, FoldsAgree
<1>5. h[n + 1] = Apply(h[n], op)
  BY <1>1, <1>3
<1>. QED  BY <1>1, <1>2, <1>3, <1>4, <1>5 DEF m

-----------------------------------------------------------------------------
(* What a load starts from.                                                  *)

LEMMA MergeOf ==
  ASSUME NEW M, NEW W, NEW rc, NEW c, IsData(c, M, W), Listed(c, rc),
         NEW e, IsData(e, M, W), Listed(e, rc)
  PROVE  Merged(MergeMissing(c, e), c, e, M, W, rc)
<1>. DEFINE b == MergeMissing(c, e)
<1>1. b = [msgs |-> Over(c.msgs, e.msgs), tags |-> Over(c.tags, e.tags),
           rules |-> IF c.rules = <<>> THEN e.rules ELSE c.rules, filters |-> c.filters]
  <2>. DEFINE ms == Over(c.msgs, e.msgs)
              ts == Over(c.tags, e.tags)
              rs == IF c.rules = <<>> THEN e.rules ELSE c.rules
  <2>1. b = [c EXCEPT !.msgs = ms, !.tags = ts, !.rules = rs]
    BY DEF MergeMissing
  <2>2. c = [msgs |-> c.msgs, tags |-> c.tags, rules |-> c.rules, filters |-> c.filters]
    BY DEF IsData
  <2>. HIDE DEF b, ms, ts, rs
  <2>3. b = [msgs |-> ms, tags |-> ts, rules |-> rs, filters |-> c.filters]
    BY <2>1, <2>2
  <2>. QED  BY <2>3 DEF ms, ts, rs
<1>. HIDE DEF b
<1>2. /\ DOMAIN b.msgs = DOMAIN c.msgs \cup DOMAIN e.msgs
      /\ \A x \in DOMAIN b.msgs : b.msgs[x] = IF x \in DOMAIN c.msgs THEN c.msgs[x] ELSE e.msgs[x]
      /\ b.msgs \in [DOMAIN b.msgs -> Marks(W)] /\ DOMAIN b.msgs \subseteq M
  BY <1>1 DEF Over, IsData
<1>3. DOMAIN b.tags = DOMAIN c.tags \cup DOMAIN e.tags /\ IsTags(b.tags, W)
  BY <1>1 DEF Over, IsData, IsTags
<1>4. IsData(b, M, W)
  BY <1>1, <1>2, <1>3 DEF IsData
<1>5. \A x : Entry(b, x) = IF x \in DOMAIN c.msgs THEN Entry(c, x) ELSE Entry(e, x)
  BY <1>2 DEF Entry
<1>6. Listed(b, rc)
  BY <1>3, <1>5 DEF Listed
<1>7. b.rules = (IF c.rules = <<>> THEN e.rules ELSE c.rules) /\ b.filters = c.filters
  BY <1>1
<1>8. Merged(b, c, e, M, W, rc)
  BY <1>2, <1>3, <1>4, <1>5, <1>6, <1>7 DEF Merged
<1>. QED  BY <1>8 DEF b

LEMMA NothingListed == ASSUME NEW rc PROVE Listed(NewData, rc) /\ DOMAIN NewData.tags = {}
BY FreshIs DEF Listed, NewData, Entry

LEMMA BaseIs ==
  ASSUME NEW M, NEW W, NEW rc, NEW s, IsFile(s, M, W, rc), NEW f, IsFile(f, M, W, rc)
  PROVE  Based(BaseOf(s, f), s, f, M, W, rc)
<1>1. IsData(NewData, M, W) /\ DOMAIN NewData.msgs = {} /\ DOMAIN NewData.tags = {} /\ Listed(NewData, rc)
  BY NewIs, NothingListed
<1>2. CASE f = <<>>
  BY <1>1, <1>2 DEF BaseOf, IsFile, Based
<1>3. CASE f # <<>> /\ s = <<>>
  <2>1. BaseOf(s, f) = f[1] /\ BaseOf(s, <<>>) = NewData
    BY <1>3 DEF BaseOf
  <2>2. IsData(f[1], M, W) /\ Listed(f[1], rc)
    BY <1>3 DEF IsFile
  <2>. QED  BY <1>1, <1>3, <2>1, <2>2 DEF Based
<1>4. CASE f # <<>> /\ s # <<>>
  <2>1. BaseOf(s, f) = MergeMissing(s[1], f[1]) /\ BaseOf(s, <<>>) = s[1]
    BY <1>4 DEF BaseOf
  <2>2. IsData(f[1], M, W) /\ Listed(f[1], rc) /\ IsData(s[1], M, W) /\ Listed(s[1], rc)
    BY <1>4 DEF IsFile
  <2>3. Merged(BaseOf(s, f), s[1], f[1], M, W, rc)
    BY <2>1, <2>2, MergeOf
  <2>. HIDE DEF BaseOf
  <2>. QED  BY <1>4, <2>1, <2>3 DEF Based, Merged
<1>. QED  BY <1>2, <1>3, <1>4

-----------------------------------------------------------------------------
(* Agreement with the document every operation made once.                    *)

LEMMA AgreeApply ==
  ASSUME NEW M, NEW W, IsFiniteSet(W), NEW d, IsData(d, M, W), NEW i, IsData(i, M, W),
         NEW mv, NEW rc, Agree(d, i, mv, rc), NEW op, IsStep(op, M, W)
  PROVE  Agree(Apply(d, op), Apply(i, op), mv \cup Moves(op), rc \cup Recasts(op))
<1>. DEFINE a == Apply(d, op)
            j == Apply(i, op)
            nv == mv \cup Moves(op)
            nc == rc \cup Recasts(op)
<1>1. ASSUME NEW x, NEW k, NEW t, x \notin nv, k = "tag" => t \notin nc
      PROVE  On(Entry(a, x), k, t) <=> On(Entry(j, x), k, t)
  <2>1. /\ x \notin mv /\ (k = "tag" => t \notin rc)
        /\ x \notin Moves(op) /\ (k = "tag" => t \notin Recasts(op))
    BY <1>1
  <2>2. On(Entry(a, x), k, t) <=> IF Writes(op, x, k, t) THEN Gives(op, k, t) ELSE On(Entry(d, x), k, t)
    BY <2>1, ApplyMark
  <2>3. On(Entry(j, x), k, t) <=> IF Writes(op, x, k, t) THEN Gives(op, k, t) ELSE On(Entry(i, x), k, t)
    BY <2>1, ApplyMark
  <2>4. On(Entry(d, x), k, t) <=> On(Entry(i, x), k, t)
    BY <2>1 DEF Agree
  <2>. QED  BY <2>2, <2>3, <2>4
<1>2. AfterAny(a, d, op) /\ AfterAny(j, i, op)
  BY ApplyRest
<1>. HIDE DEF a, j
<1>3. DOMAIN j.tags \ nc \subseteq DOMAIN a.tags
  BY <1>2 DEF AfterAny, Agree
<1>4. (j.rules # <<>> => a.rules = j.rules) /\ a.filters = j.filters
  BY <1>2 DEF AfterAny, Agree
<1>. HIDE DEF nv, nc
<1>5. Agree(a, j, nv, nc)
  BY <1>1, <1>3, <1>4 DEF Agree
<1>. QED  BY <1>5 DEF a, j, nv, nc

LEMMA ListedMore == ASSUME NEW d, NEW rc, Listed(d, rc), NEW nc, rc \subseteq nc PROVE Listed(d, nc)
BY DEF Listed

LEMMA FileMore ==
  ASSUME NEW f, NEW M, NEW W, NEW rc, IsFile(f, M, W, rc), NEW nc, rc \subseteq nc
  PROVE  IsFile(f, M, W, nc)
BY ListedMore DEF IsFile

LEMMA FileIs ==
  ASSUME NEW d, NEW M, NEW W, NEW rc, IsData(d, M, W), Listed(d, rc)
  PROVE  IsFile(<<d>>, M, W, rc) /\ <<d>> # <<>> /\ <<d>>[1] = d
BY DEF IsFile

LEMMA SoundFewer ==
  ASSUME NEW s, NEW l, NEW F, NEW i, NEW mv, NEW rc, Sound(s, l, F, i, mv, rc),
         NEW G, G \subseteq F, <<>> \in G
  PROVE  Sound(s, l, G, i, mv, rc)
BY DEF Sound

LEMMA StepsHere == ASSUME DocConstants, NEW op \in Ops PROVE IsStep(op, Mid, Tag)
BY DEF DocConstants, IsOp, IsStep, Kind, Hue

LEMMA OrderlyMore ==
  ASSUME NEW l \in Seq(Ops), NEW mv, NEW rc, Orderly(l, Mid, Tag, mv, rc),
         NEW op \in Ops, IsStep(op, Mid, Tag)
  PROVE  Orderly(Append(l, op), Mid, Tag, mv \cup Moves(op), rc \cup Recasts(op))
<1>. DEFINE n == Len(l)
            m == Append(l, op)
<1>1. /\ Len(m) = n + 1 /\ m[n + 1] = op /\ \A j \in 1 .. n : m[j] = l[j]
      /\ \A j : j \in 1 .. n + 1 <=> j \in 1 .. n \/ j = n + 1
  OBVIOUS
<1>. HIDE DEF m
<1>2. Orderly(m, Mid, Tag, mv \cup Moves(op), rc \cup Recasts(op))
  BY <1>1 DEF Orderly
<1>. QED  BY <1>2 DEF m

LEMMA TouchedMore ==
  ASSUME NEW l \in Seq(Ops), NEW op \in Ops
  PROVE  \A x : Touched(Append(l, op), Len(Append(l, op)), x) <=>
               Touched(l, Len(l), x) \/ x \in Mentions(op)
<1>. DEFINE n == Len(l)
            m == Append(l, op)
<1>1. /\ Len(m) = n + 1 /\ m[n + 1] = op /\ \A j \in 1 .. n : m[j] = l[j]
      /\ \A j : j \in 1 .. n + 1 <=> j \in 1 .. n \/ j = n + 1
  OBVIOUS
<1>. HIDE DEF m
<1>2. \A x : Touched(m, Len(m), x) <=> Touched(l, n, x) \/ x \in Mentions(op)
  BY <1>1 DEF Touched
<1>. QED  BY <1>2 DEF m

\* The documents of a load, and what the log makes of them.
LEMMA SoundData ==
  ASSUME IsFiniteSet(Tag), NEW s, NEW l, NEW F, NEW i, NEW mv, NEW rc,
         Sound(s, l, F, i, mv, rc), NEW f, IsFile(f, Mid, Tag, rc)
  PROVE  /\ Based(BaseOf(s, f), s, f, Mid, Tag, rc)
         /\ \A e : IsData(e, Mid, Tag) =>
              Makes(Replay(BaseOf(s, f), l), Replay(e, l), BaseOf(s, f), e, l, Len(l), Mid, Tag, mv, rc)
         /\ IsData(Replay(BaseOf(s, f), l), Mid, Tag) /\ Listed(Replay(BaseOf(s, f), l), rc)
<1>. DEFINE b == BaseOf(s, f)
<1>1. IsFile(s, Mid, Tag, rc) /\ l \in Seq(Ops) /\ Orderly(l, Mid, Tag, mv, rc)
  BY DEF Sound
<1>2. Based(b, s, f, Mid, Tag, rc)
  BY <1>1, BaseIs
<1>. HIDE DEF b
<1>3. IsData(b, Mid, Tag) /\ Listed(b, rc)
  BY <1>2 DEF Based
<1>4. ASSUME NEW e, IsData(e, Mid, Tag)
      PROVE  Makes(Replay(b, l), Replay(e, l), b, e, l, Len(l), Mid, Tag, mv, rc)
  BY <1>1, <1>3, <1>4, ReplayMakes
<1>5. Makes(Replay(b, l), Replay(b, l), b, b, l, Len(l), Mid, Tag, mv, rc)
  BY <1>3, <1>4
<1>6. IsData(Replay(b, l), Mid, Tag) /\ Listed(Replay(b, l), rc)
  BY <1>3, <1>5 DEF Makes
<1>. QED  BY <1>2, <1>4, <1>6 DEF b

LEMMA NothingIsFile == ASSUME NEW rc PROVE IsFile(<<>>, Mid, Tag, rc)
BY DEF IsFile

LEMMA FollowsAgrees ==
  ASSUME IsFiniteSet(Tag), NEW s, NEW l, NEW F, NEW i, NEW mv, NEW rc,
         Sound(s, l, F, i, mv, rc), NEW d, Follows(d, s, l, i, mv, rc)
  PROVE  Agree(Replay(BaseOf(s, <<d>>), l), i, mv, rc)
<1>. DEFINE f  == <<d>>
            b  == BaseOf(s, f)
            e  == BaseOf(s, <<>>)
            rb == Replay(b, l)
            re == Replay(e, l)
            n  == Len(l)
<1>1. IsFile(f, Mid, Tag, rc) /\ f # <<>> /\ f[1] = d
  BY FileIs DEF Follows
<1>2. Based(e, s, <<>>, Mid, Tag, rc) /\ IsData(re, Mid, Tag)
  BY NothingIsFile, SoundData
<1>3. IsData(e, Mid, Tag)
  BY <1>2 DEF Based
<1>4. Based(b, s, f, Mid, Tag, rc) /\ Makes(rb, re, b, e, l, n, Mid, Tag, mv, rc)
  BY <1>1, <1>3, SoundData
<1>5. IsData(b, Mid, Tag)
  BY <1>4 DEF Based
<1>6. Makes(re, rb, e, b, l, n, Mid, Tag, mv, rc)
  BY <1>5, NothingIsFile, SoundData
<1>7. Agree(re, i, mv, rc)
  BY DEF Sound
<1>8. /\ DOMAIN b.msgs = DOMAIN e.msgs \cup DOMAIN d.msgs
      /\ \A x : Entry(b, x) = IF x \in DOMAIN e.msgs THEN Entry(e, x) ELSE Entry(d, x)
      /\ DOMAIN b.tags = DOMAIN e.tags \cup DOMAIN d.tags
      /\ b.rules = (IF s = <<>> \/ s[1].rules = <<>> THEN d.rules ELSE s[1].rules)
      /\ b.filters = (IF s = <<>> THEN d.filters ELSE s[1].filters)
  <2>. HIDE DEF b, e, f
  <2>. QED  BY <1>1, <1>4 DEF Based, e
<1>9. s # <<>> => e = s[1]
  BY DEF BaseOf
<1>. HIDE DEF f, b, e, rb, re, n
<1>10. ASSUME NEW x, NEW k, NEW t, x \notin mv, k = "tag" => t \notin rc
       PROVE  On(Entry(rb, x), k, t) <=> On(Entry(i, x), k, t)
  <2>1. IF Wrote(l, n, x, k, t) THEN On(Entry(rb, x), k, t) <=> On(Entry(re, x), k, t)
                                ELSE On(Entry(rb, x), k, t) <=> On(Entry(b, x), k, t)
    BY <1>4, <1>10 DEF Makes
  <2>2. ~Wrote(l, n, x, k, t) => (On(Entry(re, x), k, t) <=> On(Entry(e, x), k, t))
    BY <1>6, <1>10 DEF Makes
  <2>3. On(Entry(re, x), k, t) <=> On(Entry(i, x), k, t)
    BY <1>7, <1>10 DEF Agree
  <2>4. x \notin DOMAIN e.msgs /\ ~Wrote(l, n, x, k, t) => (On(Entry(d, x), k, t) <=> On(Entry(i, x), k, t))
    BY <1>10 DEF Follows, e, n
  <2>5. Entry(b, x) = IF x \in DOMAIN e.msgs THEN Entry(e, x) ELSE Entry(d, x)
    BY <1>8
  <2>. QED  BY <2>1, <2>2, <2>3, <2>4, <2>5
<1>11. DOMAIN i.tags \ rc \subseteq DOMAIN rb.tags
  <2>1. \A t : t \notin rc => (t \in DOMAIN rb.tags <=> t \in DOMAIN b.tags \/ Lists(l, n, t))
    BY <1>4 DEF Makes
  <2>2. \A t \in DOMAIN i.tags \ rc : t \in DOMAIN e.tags \/ t \in DOMAIN d.tags \/ Lists(l, n, t)
    BY DEF Follows, e, n
  <2>. QED  BY <1>8, <2>1, <2>2
<1>12. i.rules # <<>> => rb.rules = i.rules
  <2>1. /\ rb.rules = IF Sets(l, n, "rules") THEN re.rules ELSE b.rules
        /\ re.rules = IF Sets(l, n, "rules") THEN rb.rules ELSE e.rules
    BY <1>4, <1>6 DEF Makes
  <2>2. i.rules # <<>> => re.rules = i.rules
    BY <1>7 DEF Agree
  <2>3. i.rules # <<>> /\ ~Sets(l, n, "rules") /\ (s = <<>> \/ s[1].rules = <<>>) => d.rules = i.rules
    BY DEF Follows, n
  <2>. QED  BY <1>8, <1>9, <2>1, <2>2, <2>3
<1>13. rb.filters = i.filters
  <2>1. /\ rb.filters = IF Sets(l, n, "filters") THEN re.filters ELSE b.filters
        /\ re.filters = IF Sets(l, n, "filters") THEN rb.filters ELSE e.filters
    BY <1>4, <1>6 DEF Makes
  <2>2. re.filters = i.filters
    BY <1>7 DEF Agree
  <2>3. s = <<>> /\ ~Sets(l, n, "filters") => d.filters = i.filters
    BY DEF Follows, n
  <2>. QED  BY <1>8, <1>9, <2>1, <2>2, <2>3
<1>14. Agree(rb, i, mv, rc)
  BY <1>10, <1>11, <1>12, <1>13 DEF Agree
<1>. QED  BY <1>14 DEF rb, b, f

LEMMA SoundFile ==
  ASSUME IsFiniteSet(Tag), NEW s, NEW l, NEW F, NEW i, NEW mv, NEW rc,
         Sound(s, l, F, i, mv, rc), NEW d, Follows(d, s, l, i, mv, rc)
  PROVE  Sound(s, l, F \cup {<<d>>}, i, mv, rc)
<1>. DEFINE f == <<d>>
<1>1. Agree(Replay(BaseOf(s, f), l), i, mv, rc)
  BY FollowsAgrees
<1>2. IsFile(f, Mid, Tag, rc) /\ f # <<>> /\ f[1] = d
  BY FileIs DEF Follows
<1>3. Based(BaseOf(s, f), s, f, Mid, Tag, rc)
  BY <1>2, SoundData
<1>. HIDE DEF f
<1>4. \A x \in DOMAIN BaseOf(s, f).msgs :
        x \in mv \/ x \in DOMAIN BaseOf(s, <<>>).msgs \/ Touched(l, Len(l), x)
  BY <1>2, <1>3 DEF Based, Follows
<1>5. Sound(s, l, F \cup {f}, i, mv, rc)
  BY <1>1, <1>2, <1>4 DEF Sound
<1>. QED  BY <1>5 DEF f

\* What a load leaves in memory is such a file.
LEMMA FollowsReplay ==
  ASSUME IsFiniteSet(Tag), NEW s, NEW l, NEW F, NEW i, NEW mv, NEW rc,
         Sound(s, l, F, i, mv, rc), NEW f \in F
  PROVE  /\ Follows(Replay(BaseOf(s, f), l), s, l, i, mv, rc)
         /\ Agree(Replay(BaseOf(s, f), l), i, mv, rc)
<1>. DEFINE b == BaseOf(s, f)
            d == Replay(b, l)
            e == BaseOf(s, <<>>)
            n == Len(l)
<1>1. IsFile(f, Mid, Tag, rc)
  BY DEF Sound
<1>2. Based(b, s, f, Mid, Tag, rc) /\ IsData(d, Mid, Tag) /\ Listed(d, rc)
  BY <1>1, SoundData
<1>3. IsData(b, Mid, Tag)
  BY <1>2 DEF Based
<1>4. Makes(d, d, b, b, l, n, Mid, Tag, mv, rc)
  BY <1>1, <1>3, SoundData
<1>5. Agree(d, i, mv, rc)
  BY DEF Sound
<1>6. \A x \in DOMAIN b.msgs : x \in mv \/ x \in DOMAIN e.msgs \/ Touched(l, n, x)
  BY DEF Sound
<1>. HIDE DEF d, b
<1>7. \A x \in DOMAIN d.msgs : x \in mv \/ x \in DOMAIN e.msgs \/ Touched(l, n, x)
  BY <1>4, <1>6 DEF Makes
<1>. HIDE DEF e, n
<1>8. Follows(d, s, l, i, mv, rc)
  BY <1>2, <1>5, <1>7 DEF Follows, Agree, e, n
<1>. QED  BY <1>5, <1>8 DEF d, b

LEMMA SoundAppend ==
  ASSUME IsFiniteSet(Tag), NEW s, NEW l, NEW F, NEW i, NEW mv, NEW rc,
         Sound(s, l, F, i, mv, rc), NEW op \in Ops, IsStep(op, Mid, Tag)
  PROVE  Sound(s, Append(l, op), F, Apply(i, op), mv \cup Moves(op), rc \cup Recasts(op))
<1>. DEFINE m  == Append(l, op)
            j  == Apply(i, op)
            nv == mv \cup Moves(op)
            nc == rc \cup Recasts(op)
<1>1. /\ l \in Seq(Ops) /\ Orderly(l, Mid, Tag, mv, rc) /\ IsFile(s, Mid, Tag, rc)
      /\ IsData(i, Mid, Tag) /\ Listed(i, rc)
  BY DEF Sound
<1>2. m \in Seq(Ops) /\ Orderly(m, Mid, Tag, nv, nc)
  BY <1>1, OrderlyMore
<1>3. IsFile(s, Mid, Tag, nc) /\ \A f \in F : IsFile(f, Mid, Tag, nc)
  <2>1. rc \subseteq nc
    OBVIOUS
  <2>. HIDE DEF nc
  <2>. QED  BY <1>1, <2>1, FileMore DEF Sound
<1>4. IsData(j, Mid, Tag) /\ Listed(j, nc)
  <2>1. Listed(i, nc) /\ Recasts(op) \subseteq nc
    BY <1>1, ListedMore
  <2>. HIDE DEF nc
  <2>. QED  BY <1>1, <2>1, ApplyData, ApplyListed
<1>5. \A f \in F : \A x \in DOMAIN BaseOf(s, f).msgs :
        x \in nv \/ x \in DOMAIN BaseOf(s, <<>>).msgs \/ Touched(m, Len(m), x)
  <2>1. \A x : Touched(m, Len(m), x) <=> Touched(l, Len(l), x) \/ x \in Mentions(op)
    BY <1>1, TouchedMore
  <2>. HIDE DEF m
  <2>. QED  BY <2>1 DEF Sound
<1>6. ASSUME NEW f \in F PROVE Agree(Replay(BaseOf(s, f), m), j, nv, nc)
  <2>. DEFINE d == Replay(BaseOf(s, f), l)
  <2>1. IsData(d, Mid, Tag)
    <3>1. IsFile(f, Mid, Tag, rc)
      BY DEF Sound
    <3>. QED  BY <3>1, SoundData
  <2>2. Agree(d, i, mv, rc)
    BY DEF Sound
  <2>3. Replay(BaseOf(s, f), m) = Apply(d, op)
    BY <1>1, ReplayMore
  <2>. HIDE DEF d
  <2>4. Agree(Apply(d, op), j, nv, nc)
    BY <1>1, <2>1, <2>2, AgreeApply
  <2>. HIDE DEF m
  <2>. QED  BY <2>3, <2>4
<1>. HIDE DEF m, j, nv, nc
<1>7. Sound(s, m, F, j, nv, nc)
  BY <1>2, <1>3, <1>4, <1>5, <1>6 DEF Sound
<1>. QED  BY <1>7 DEF m, j, nv, nc

\* So is what an operation makes of the memory it is applied to.
LEMMA FollowsApply ==
  ASSUME IsFiniteSet(Tag), NEW s, NEW l, NEW F, NEW i, NEW mv, NEW rc,
         Sound(s, l, F, i, mv, rc), NEW op \in Ops, IsStep(op, Mid, Tag),
         NEW d, <<d>> \in F
  PROVE  Follows(Apply(d, op), s, Append(l, op), Apply(i, op),
                 mv \cup Moves(op), rc \cup Recasts(op))
<1>. DEFINE m  == Append(l, op)
            n  == Len(m)
            j  == Apply(i, op)
            nv == mv \cup Moves(op)
            nc == rc \cup Recasts(op)
            a  == Apply(d, op)
            f  == <<d>>
            b  == BaseOf(s, f)
            e  == BaseOf(s, <<>>)
            rb == Replay(b, m)
<1>1. l \in Seq(Ops) /\ IsFile(f, Mid, Tag, rc) /\ f # <<>> /\ f[1] = d
  BY DEF Sound
<1>2. IsData(d, Mid, Tag) /\ Listed(d, rc)
  BY <1>1 DEF IsFile
<1>3. Sound(s, m, F, j, nv, nc)
  BY SoundAppend
<1>4. IsData(a, Mid, Tag) /\ Listed(a, nc)
  <2>1. Listed(d, nc) /\ Recasts(op) \subseteq nc
    BY <1>2, ListedMore
  <2>. HIDE DEF nc
  <2>. QED  BY <1>2, <2>1, ApplyData, ApplyListed
<1>5. Based(b, s, f, Mid, Tag, nc) /\ Makes(rb, rb, b, b, m, n, Mid, Tag, nv, nc) /\ Agree(rb, j, nv, nc)
  <2>1. f \in F /\ IsFile(f, Mid, Tag, nc)
    BY <1>3 DEF Sound
  <2>2. Based(b, s, f, Mid, Tag, nc)
    <3>. HIDE DEF b, m, j, nv, nc, f
    <3>. QED  BY <1>3, <2>1, SoundData DEF b
  <2>3. IsData(b, Mid, Tag)
    BY <2>2 DEF Based
  <2>4. Makes(rb, rb, b, b, m, n, Mid, Tag, nv, nc)
    <3>. HIDE DEF m, j, nv, nc, f
    <3>. QED  BY <1>3, <2>1, <2>3, SoundData
  <2>5. Agree(rb, j, nv, nc)
    <3>. HIDE DEF m, j, nv, nc, f
    <3>. QED  BY <1>3, <2>1 DEF Sound
  <2>. QED  BY <2>2, <2>4, <2>5
<1>6. /\ DOMAIN b.msgs = DOMAIN e.msgs \cup DOMAIN d.msgs
      /\ \A x : Entry(b, x) = IF x \in DOMAIN e.msgs THEN Entry(e, x) ELSE Entry(d, x)
      /\ DOMAIN b.tags = DOMAIN e.tags \cup DOMAIN d.tags
      /\ b.rules = (IF s = <<>> \/ s[1].rules = <<>> THEN d.rules ELSE s[1].rules)
      /\ b.filters = (IF s = <<>> THEN d.filters ELSE s[1].filters)
  <2>. HIDE DEF b, e, f
  <2>. QED  BY <1>1, <1>5 DEF Based, e
<1>7. AfterAny(a, d, op)
  BY <1>2, ApplyRest
<1>8. /\ n \in 1 .. n /\ m[n] = op
      /\ \A x : Touched(m, n, x) <=> Touched(l, Len(l), x) \/ x \in Mentions(op)
  <2>1. n \in 1 .. n /\ m[n] = op
    BY <1>1
  <2>. QED  BY <1>1, <2>1, TouchedMore
<1>9. ASSUME NEW x \in DOMAIN a.msgs, x \notin nv PROVE x \in DOMAIN e.msgs \/ Touched(m, n, x)
  <2>1. x \in DOMAIN d.msgs \/ x \in Mentions(op)
    BY <1>2, <1>9, ApplyKnown
  <2>2. x \in DOMAIN d.msgs => x \in DOMAIN e.msgs \/ Touched(l, Len(l), x)
    <3>1. x \in DOMAIN d.msgs => x \in DOMAIN b.msgs
      BY <1>6
    <3>2. x \in DOMAIN b.msgs => x \in mv \/ x \in DOMAIN e.msgs \/ Touched(l, Len(l), x)
      BY DEF Sound
    <3>. QED  BY <1>9, <3>1, <3>2
  <2>. HIDE DEF m, n
  <2>. QED  BY <1>8, <2>1, <2>2
<1>10. ASSUME NEW x, NEW k, NEW t, x \notin nv, k = "tag" => t \notin nc, x \notin DOMAIN e.msgs,
              ~Wrote(m, n, x, k, t)
       PROVE  On(Entry(a, x), k, t) <=> On(Entry(j, x), k, t)
  <2>1. ~Writes(op, x, k, t)
    <3>. HIDE DEF m, n
    <3>. QED  BY <1>8, <1>10 DEF Wrote
  <2>2. On(Entry(a, x), k, t) <=> On(Entry(d, x), k, t)
    BY <1>2, <1>10, <2>1, ApplyMark
  <2>. HIDE DEF a, b, e, m, n, j, rb, nv, nc
  <2>3. Entry(b, x) = Entry(d, x)
    BY <1>6, <1>10
  <2>4. On(Entry(rb, x), k, t) <=> On(Entry(b, x), k, t)
    BY <1>5, <1>10 DEF Makes
  <2>5. On(Entry(rb, x), k, t) <=> On(Entry(j, x), k, t)
    BY <1>5, <1>10 DEF Agree
  <2>. QED  BY <2>2, <2>3, <2>4, <2>5
<1>11. ASSUME NEW t \in DOMAIN j.tags \ nc
       PROVE  t \in DOMAIN e.tags \/ t \in DOMAIN a.tags \/ Lists(m, n, t)
  <2>0. t \notin Recasts(op) /\ t \notin nc
    OBVIOUS
  <2>. HIDE DEF a, b, e, m, n, j, rb, nv, nc
  <2>1. t \in DOMAIN rb.tags
    BY <1>5 DEF Agree
  <2>2. t \in DOMAIN b.tags \/ Lists(m, n, t)
    BY <1>5, <2>0, <2>1 DEF Makes
  <2>3. t \in DOMAIN d.tags => t \in DOMAIN a.tags
    BY <1>7, <2>0 DEF AfterAny
  <2>. QED  BY <1>6, <2>2, <2>3
<1>. HIDE DEF a, b, e, m, n, j, rb, nv, nc
<1>12. j.rules # <<>> /\ ~Sets(m, n, "rules") /\ (s = <<>> \/ s[1].rules = <<>>) => a.rules = j.rules
  <2>1. ~Sets(m, n, "rules") => rb.rules = b.rules
    BY <1>5 DEF Makes
  <2>2. ~Sets(m, n, "rules") => a.rules = d.rules
    BY <1>7, <1>8 DEF AfterAny, Sets
  <2>3. j.rules # <<>> => rb.rules = j.rules
    BY <1>5 DEF Agree
  <2>. QED  BY <1>6, <2>1, <2>2, <2>3
<1>13. s = <<>> /\ ~Sets(m, n, "filters") => a.filters = j.filters
  <2>1. ~Sets(m, n, "filters") => rb.filters = b.filters
    BY <1>5 DEF Makes
  <2>2. ~Sets(m, n, "filters") => a.filters = d.filters
    BY <1>7, <1>8 DEF AfterAny, Sets
  <2>3. rb.filters = j.filters
    BY <1>5 DEF Agree
  <2>. QED  BY <1>6, <2>1, <2>2, <2>3
<1>14. Follows(a, s, m, j, nv, nc)
  BY <1>4, <1>9, <1>10, <1>11, <1>12, <1>13 DEF Follows, e, n
<1>. QED  BY <1>14 DEF a, m, j, nv, nc

LEMMA SoundCompact ==
  ASSUME IsFiniteSet(Tag), NEW s, NEW l, NEW F, NEW i, NEW mv, NEW rc,
         Sound(s, l, F, i, mv, rc), NEW f \in F
  PROVE  Sound(<<Replay(BaseOf(s, f), l)>>, <<>>, F, i, mv, rc)
<1>. DEFINE d == Replay(BaseOf(s, f), l)
            c == <<d>>
            e == BaseOf(s, <<>>)
<1>1. Follows(d, s, l, i, mv, rc) /\ Agree(d, i, mv, rc)
  BY FollowsReplay
<1>2. IsFile(f, Mid, Tag, rc) /\ \A g \in F : IsFile(g, Mid, Tag, rc)
  BY DEF Sound
<1>3. IsData(d, Mid, Tag) /\ Listed(d, rc)
  BY <1>1 DEF Follows
<1>4. IsFile(c, Mid, Tag, rc) /\ c # <<>> /\ c[1] = d
  BY <1>3, FileIs
<1>5. BaseOf(c, <<>>) = d
  BY <1>4 DEF BaseOf
<1>6. ASSUME NEW x, x \notin mv, x \in DOMAIN e.msgs \/ Touched(l, Len(l), x)
      PROVE  x \in DOMAIN d.msgs
  <2>1. Based(BaseOf(s, f), s, f, Mid, Tag, rc)
    BY <1>2, SoundData
  <2>2. IsData(BaseOf(s, f), Mid, Tag)
    BY <2>1 DEF Based
  <2>3. Makes(d, d, BaseOf(s, f), BaseOf(s, f), l, Len(l), Mid, Tag, mv, rc)
    BY <1>2, <2>2, SoundData
  <2>4. x \in DOMAIN e.msgs => x \in DOMAIN BaseOf(s, f).msgs
    <3>. HIDE DEF BaseOf
    <3>. QED  BY <2>1 DEF Based
  <2>. HIDE DEF d, e
  <2>. QED  BY <1>6, <2>3, <2>4 DEF Makes
<1>7. ASSUME NEW g \in F, g # <<>>, NEW x \in DOMAIN g[1].msgs, x \notin mv
      PROVE  x \in DOMAIN d.msgs
  <2>1. Based(BaseOf(s, g), s, g, Mid, Tag, rc)
    BY <1>2, SoundData
  <2>2. x \in DOMAIN BaseOf(s, g).msgs
    BY <1>7, <2>1 DEF Based
  <2>3. x \in DOMAIN e.msgs \/ Touched(l, Len(l), x)
    BY <1>7, <2>2 DEF Sound
  <2>. QED  BY <1>6, <1>7, <2>3
<1>. HIDE DEF d, c
<1>8. ASSUME NEW g \in F
      PROVE  /\ Agree(Replay(BaseOf(c, g), <<>>), i, mv, rc)
             /\ \A x \in DOMAIN BaseOf(c, g).msgs : x \in mv \/ x \in DOMAIN BaseOf(c, <<>>).msgs
  <2>. DEFINE b == BaseOf(c, g)
  <2>1. Replay(b, <<>>) = b
    BY ReplayNothing
  <2>2. Based(b, c, g, Mid, Tag, rc)
    BY <1>2, <1>4, BaseIs
  <2>. HIDE DEF b
  <2>3. CASE g = <<>>
    <3>1. b = d
      BY <1>5, <2>2, <2>3 DEF Based
    <3>. QED  BY <1>1, <1>5, <2>1, <3>1 DEF b
  <2>4. CASE g # <<>>
    <3>1. /\ DOMAIN b.msgs = DOMAIN d.msgs \cup DOMAIN g[1].msgs
          /\ \A x : Entry(b, x) = IF x \in DOMAIN d.msgs THEN Entry(d, x) ELSE Entry(g[1], x)
          /\ DOMAIN b.tags = DOMAIN d.tags \cup DOMAIN g[1].tags
          /\ b.rules = (IF d.rules = <<>> THEN g[1].rules ELSE d.rules)
          /\ b.filters = d.filters
      BY <1>4, <1>5, <2>2, <2>4 DEF Based
    <3>2. \A x : x \notin mv => Entry(b, x) = Entry(d, x)
      <4>1. \A x : x \notin mv /\ x \notin DOMAIN d.msgs => x \notin DOMAIN g[1].msgs
        BY <1>7, <2>4
      <4>2. \A x : x \notin DOMAIN d.msgs /\ x \notin DOMAIN g[1].msgs => Entry(g[1], x) = Entry(d, x)
        BY DEF Entry
      <4>. QED  BY <3>1, <4>1, <4>2
    <3>3. Agree(b, i, mv, rc)
      BY <1>1, <3>1, <3>2 DEF Agree
    <3>4. \A x \in DOMAIN b.msgs : x \in mv \/ x \in DOMAIN d.msgs
      BY <1>7, <2>4, <3>1
    <3>. QED  BY <1>5, <2>1, <3>3, <3>4 DEF b
  <2>. QED  BY <2>3, <2>4
<1>9. <<>> \in Seq(Ops) /\ Orderly(<<>>, Mid, Tag, mv, rc)
  <2>1. <<>> \in Seq(Ops) /\ 1 .. Len(<<>>) = {}
    OBVIOUS
  <2>. QED  BY <2>1 DEF Orderly
<1>10. Sound(c, <<>>, F, i, mv, rc)
  BY <1>2, <1>4, <1>8, <1>9 DEF Sound
<1>. QED  BY <1>10 DEF c, d

LEMMA TagsAreFinite == ASSUME DocConstants PROVE IsFiniteSet(Tag)
BY DEF DocConstants

LEMMA BaseHere == ASSUME NEW f PROVE Base(f) = BaseOf(snap, f)
BY DEF Base, BaseOf

-----------------------------------------------------------------------------
(* The documents, step by step.                                              *)

LEMMA DocsInit == ASSUME DocConstants, DocInit PROVE DocsInv
<1>1. /\ snap = <<>> /\ log = <<>> /\ ideal = NewData /\ moved = {} /\ recast = {} /\ made = 0
      /\ data = [m \in Machine |-> NewData] /\ local = [m \in Machine |-> <<>>]
      /\ seen = [m \in Machine |-> TRUE] /\ MaxOps \in Nat
  BY DEF DocInit, DocConstants
<1>2. IsData(NewData, Mid, Tag) /\ DOMAIN NewData.msgs = {} /\ Listed(NewData, {}) /\ DOMAIN NewData.tags = {}
  BY SMTT(30), NewIs, NothingListed
<1>3. IsFile(<<>>, Mid, Tag, {}) /\ IsFile(<<NewData>>, Mid, Tag, {})
  BY <1>2, FileIs, NothingIsFile
<1>4. BaseOf(<<>>, <<>>) = NewData /\ BaseOf(<<>>, <<NewData>>) = NewData
  BY DEF BaseOf
<1>5. Replay(NewData, <<>>) = NewData
  BY ReplayNothing
<1>6. Agree(NewData, NewData, {}, {})
  BY DEF Agree
<1>7. <<>> \in Seq(Ops) /\ Orderly(<<>>, Mid, Tag, {}, {})
  <2>1. <<>> \in Seq(Ops) /\ 1 .. Len(<<>>) = {}
    OBVIOUS
  <2>. QED  BY <2>1 DEF Orderly
<1>8. Sound(<<>>, <<>>, {<<>>, <<NewData>>}, NewData, {}, {})
  BY <1>2, <1>3, <1>4, <1>5, <1>6, <1>7 DEF Sound
<1>9. FilesOf(data, local) \subseteq {<<>>, <<NewData>>} /\ <<>> \in FilesOf(data, local)
  BY <1>1 DEF FilesOf
<1>10. Sound(snap, log, FilesOf(data, local), ideal, moved, recast)
  BY <1>1, <1>8, <1>9, SoundFewer
<1>11. Len(log) <= made /\ made \in 0 .. MaxOps
  BY <1>1
<1>. QED  BY <1>1, <1>6, <1>10, <1>11 DEF DocsInv

LEMMA LoadsIs ==
  ASSUME IsFiniteSet(Tag), NEW s, NEW l, NEW F, NEW i, NEW mv, NEW rc,
         Sound(s, l, F, i, mv, rc), NEW f \in F
  PROVE  LoadsTo(s, l, F, f, i, mv, rc, Replay(BaseOf(s, f), l))
<1>. DEFINE got == Replay(BaseOf(s, f), l)
            G == F \cup {<<got>>}
<1>1. Follows(got, s, l, i, mv, rc) /\ Agree(got, i, mv, rc)
  BY FollowsReplay
<1>2. Sound(s, l, G, i, mv, rc)
  <2>. HIDE DEF got
  <2>. QED  BY <1>1, SoundFile
<1>3. Sound(<<got>>, <<>>, G, i, mv, rc)
  <2>1. f \in G
    OBVIOUS
  <2>. HIDE DEF G
  <2>. QED  BY <1>2, <2>1, SoundCompact
<1>. HIDE DEF got
<1>4. LoadsTo(s, l, F, f, i, mv, rc, got)
  BY <1>1, <1>2, <1>3 DEF LoadsTo, got
<1>. QED  BY <1>4 DEF got

LEMMA LoadsKeep ==
  ASSUME IsFiniteSet(Tag), NEW m \in Machine, NEW f, NEW l, Loads(m, f, l),
         NEW F, NEW i, NEW mv, NEW rc, Sound(snap, l, F, i, mv, rc), f \in F,
         data = [n \in Machine |-> data[n]]
  PROVE  \E got : /\ data' = [data EXCEPT ![m] = got] /\ Agree(got, i, mv, rc)
                  /\ Sound(snap', log', F \cup {<<got>>}, i, mv, rc)
                  /\ Len(log') <= Len(l)
<1>. DEFINE got == Replay(BaseOf(snap, f), l)
<1>1. /\ data' = [data EXCEPT ![m] = got]
      /\ \/ snap' = snap /\ log' = l
         \/ snap' = <<got>> /\ log' = <<>>
  BY BaseHere DEF Loads
<1>2. LoadsTo(snap, l, F, f, i, mv, rc, got)
  BY LoadsIs
<1>3. l \in Seq(Ops)
  BY DEF Sound
<1>. HIDE DEF got
<1>4. Len(log') <= Len(l)
  <2>1. Len(l) \in Nat /\ Len(<<>>) = 0
    BY <1>3
  <2>. QED  BY <1>1, <2>1
<1>5. Sound(snap', log', F \cup {<<got>>}, i, mv, rc)
  BY <1>1, <1>2 DEF LoadsTo
<1>. QED  BY <1>1, <1>2, <1>4, <1>5 DEF LoadsTo

LEMMA LoadKeeps ==
  ASSUME DocConstants, DocsInv, NEW m \in Machine, Load(m)
  PROVE  DocsInv'
<1>. DEFINE F == FilesOf(data, local)
<1>1. /\ Sound(snap, log, F, ideal, moved, recast) /\ IsFiniteSet(Tag)
      /\ data = [n \in Machine |-> data[n]] /\ local = [n \in Machine |-> local[n]]
      /\ seen = [n \in Machine |-> seen[n]] /\ made \in 0 .. MaxOps /\ Len(log) <= made
      /\ \A n \in Machine : seen[n] => Agree(data[n], ideal, moved, recast)
  BY TagsAreFinite DEF DocsInv
<1>2. /\ Loads(m, local[m], log) /\ seen' = [seen EXCEPT ![m] = TRUE]
      /\ local' = local /\ ideal' = ideal /\ moved' = moved /\ recast' = recast /\ made' = made
  BY DEF Load
<1>3. local[m] \in F
  BY DEF FilesOf
<1>. HIDE DEF F
<1>4. PICK got : /\ data' = [data EXCEPT ![m] = got] /\ Agree(got, ideal, moved, recast)
                 /\ Sound(snap', log', F \cup {<<got>>}, ideal, moved, recast)
                 /\ Len(log') <= Len(log)
  BY <1>1, <1>2, <1>3, LoadsKeep
<1>5. FilesOf(data', local') \subseteq F \cup {<<got>>} /\ <<>> \in FilesOf(data', local')
  BY <1>1, <1>2, <1>4 DEF FilesOf, F
<1>6. Sound(snap', log', FilesOf(data', local'), ideal', moved', recast')
  BY <1>2, <1>4, <1>5, SoundFewer
<1>7. \A n \in Machine : seen'[n] => Agree(data'[n], ideal', moved', recast')
  BY <1>1, <1>2, <1>4
<1>8. Len(log') <= made' /\ made' \in 0 .. MaxOps
  <2>1. Len(log) \in Nat /\ Len(log') \in Nat /\ made \in Nat
    BY <1>1, <1>6 DEF Sound
  <2>. QED  BY <1>1, <1>2, <1>4, <2>1
<1>9. /\ data' = [n \in Machine |-> data'[n]] /\ local' = [n \in Machine |-> local'[n]]
      /\ seen' = [n \in Machine |-> seen'[n]]
  BY <1>1, <1>2, <1>4
<1>. QED  BY <1>6, <1>7, <1>8, <1>9 DEF DocsInv

LEMMA MutateKeeps ==
  ASSUME DocConstants, DocsInv, NEW m \in Machine, NEW op \in Ops, Mutate(m, op)
  PROVE  DocsInv'
<1>. DEFINE F == FilesOf(data, local)
            d == data[m]
            a == Apply(d, op)
            l == Append(log, op)
            G == F \cup {<<a>>}
            due == openOps[m] + 1 >= CompactAfter
<1>1. /\ Sound(snap, log, F, ideal, moved, recast) /\ IsFiniteSet(Tag) /\ IsStep(op, Mid, Tag)
      /\ data = [n \in Machine |-> data[n]] /\ local = [n \in Machine |-> local[n]]
      /\ made \in 0 .. MaxOps /\ Len(log) <= made /\ log \in Seq(Ops)
      /\ \A n \in Machine : seen[n] => Agree(data[n], ideal, moved, recast)
  BY StepsHere, TagsAreFinite DEF DocsInv, Sound
<1>2. /\ made < MaxOps /\ made' = made + 1
      /\ local' = [local EXCEPT ![m] = <<a>>]
      /\ IF due THEN Loads(m, <<a>>, l)
                ELSE data' = [data EXCEPT ![m] = a] /\ log' = l /\ snap' = snap
      /\ ideal' = Apply(ideal, op)
      /\ seen' = [n \in Machine |-> n = m /\ (seen[m] \/ due)]
      /\ moved' = moved \cup Moves(op) /\ recast' = recast \cup Recasts(op)
  BY DEF Mutate
<1>3. <<d>> \in F
  BY DEF FilesOf
<1>4. Sound(snap, l, G, ideal', moved', recast')
  <2>1. Follows(a, snap, l, ideal', moved', recast')
    <3>. HIDE DEF F, d
    <3>. QED  BY <1>1, <1>2, <1>3, FollowsApply
  <2>2. Sound(snap, l, F, ideal', moved', recast')
    <3>. HIDE DEF F, d
    <3>. QED  BY <1>1, <1>2, SoundAppend
  <2>. HIDE DEF F, d, a, l
  <2>. QED  BY <1>1, <2>1, <2>2, SoundFile
<1>5. /\ Len(l) = Len(log) + 1 /\ Len(log) \in Nat
  BY <1>1
<1>6. seen[m] => Agree(a, ideal', moved', recast')
  <2>1. IsData(d, Mid, Tag) /\ IsData(ideal, Mid, Tag)
    BY <1>1, <1>3 DEF Sound, IsFile
  <2>2. seen[m] => Agree(d, ideal, moved, recast)
    BY <1>1
  <2>. HIDE DEF d
  <2>. QED  BY <1>1, <1>2, <2>1, <2>2, AgreeApply
<1>7. <<a>> \in G /\ local'[m] = <<a>>
  BY <1>1, <1>2
<1>. HIDE DEF d, a, l, due
<1>8. \E got : /\ data' = [data EXCEPT ![m] = got]
               /\ seen'[m] => Agree(got, ideal', moved', recast')
               /\ Sound(snap', log', G \cup {<<got>>}, ideal', moved', recast')
               /\ Len(log') <= Len(l)
  <2>1. CASE due
    <3>1. Loads(m, <<a>>, l)
      BY <1>2, <2>1
    <3>. HIDE DEF G
    <3>2. \E got : /\ data' = [data EXCEPT ![m] = got] /\ Agree(got, ideal', moved', recast')
                   /\ Sound(snap', log', G \cup {<<got>>}, ideal', moved', recast')
                   /\ Len(log') <= Len(l)
      BY <1>1, <1>4, <1>7, <3>1, LoadsKeep
    <3>. QED  BY <3>2
  <2>2. CASE ~due
    <3>1. data' = [data EXCEPT ![m] = a] /\ log' = l /\ snap' = snap
      BY <1>2, <2>2
    <3>2. G \cup {<<a>>} = G
      OBVIOUS
    <3>3. seen'[m] => seen[m]
      BY <1>2, <2>2
    <3>4. Len(log') <= Len(l)
      BY <1>5, <3>1
    <3>. QED  BY <1>4, <1>6, <3>1, <3>2, <3>3, <3>4
  <2>. QED  BY <2>1, <2>2
<1>9. PICK got : /\ data' = [data EXCEPT ![m] = got]
                 /\ seen'[m] => Agree(got, ideal', moved', recast')
                 /\ Sound(snap', log', G \cup {<<got>>}, ideal', moved', recast')
                 /\ Len(log') <= Len(l)
  BY <1>8
<1>10. FilesOf(data', local') \subseteq G \cup {<<got>>} /\ <<>> \in FilesOf(data', local')
  BY <1>1, <1>2, <1>9 DEF FilesOf
<1>. HIDE DEF F, G
<1>11. Sound(snap', log', FilesOf(data', local'), ideal', moved', recast')
  BY <1>9, <1>10, SoundFewer
<1>12. \A n \in Machine : seen'[n] => Agree(data'[n], ideal', moved', recast')
  BY <1>1, <1>2, <1>9
<1>13. Len(log') <= made' /\ made' \in 0 .. MaxOps
  <2>1. Len(log') \in Nat /\ made \in Nat
    BY <1>1, <1>11 DEF Sound
  <2>2. MaxOps \in Nat
    BY DEF DocConstants
  <2>. QED  BY <1>1, <1>2, <1>5, <1>9, <2>1, <2>2
<1>14. /\ data' = [n \in Machine |-> data'[n]] /\ local' = [n \in Machine |-> local'[n]]
       /\ seen' = [n \in Machine |-> seen'[n]]
  BY <1>1, <1>2, <1>9
<1>. QED  BY <1>11, <1>12, <1>13, <1>14 DEF DocsInv

LEMMA DocsNext == ASSUME DocConstants, DocsInv, [DocNext]_docs PROVE DocsInv'
<1>1. CASE DocNext
  BY <1>1, LoadKeeps, MutateKeeps DEF DocNext
<1>2. CASE UNCHANGED docs
  BY <1>2 DEF DocsInv, docs
<1>. QED  BY <1>1, <1>2

-----------------------------------------------------------------------------
(* What the invariant says of the documents.                                 *)

LEMMA DocIs ==
  ASSUME NEW d, IsData(d, Mid, Tag), NEW rc, Listed(d, rc)
  PROVE  WellFormed(d) /\ \A m \in DOMAIN d.msgs : Range(d.msgs[m].tags) \subseteq DOMAIN d.tags \cup rc
<1>1. /\ DOMAIN d.msgs \subseteq Mid /\ \A m \in DOMAIN d.msgs : d.msgs[m] \in Entries
      /\ DOMAIN d.tags \subseteq Tag /\ \A t \in DOMAIN d.tags : d.tags[t] \in 0 .. Colors - 1
  BY DEF IsData, IsTags, Hue, Marks, Entries
<1>2. \A m \in DOMAIN d.msgs : Range(d.msgs[m].tags) \subseteq DOMAIN d.tags \cup rc
  BY DEF Listed, Entry
<1>. QED  BY <1>1, <1>2 DEF WellFormed

LEMMA DocsTyped == ASSUME DocConstants, DocsInv PROVE DocTypeOK
<1>1. /\ IsFile(snap, Mid, Tag, recast) /\ IsData(ideal, Mid, Tag) /\ Listed(ideal, recast)
      /\ \A f \in FilesOf(data, local) : IsFile(f, Mid, Tag, recast)
      /\ made \in 0 .. MaxOps /\ Len(log) <= made /\ log \in Seq(Ops)
  BY DEF DocsInv, Sound
<1>2. \A f : IsFile(f, Mid, Tag, recast) =>
        \A d \in Range(f) : IsData(d, Mid, Tag) /\ Listed(d, recast)
  <2>. SUFFICES ASSUME NEW f, IsFile(f, Mid, Tag, recast), NEW d \in Range(f)
                PROVE  IsData(d, Mid, Tag) /\ Listed(d, recast)
    OBVIOUS
  <2>1. f # <<>>
    BY DEF Range
  <2>2. f = <<f[1]>> /\ IsData(f[1], Mid, Tag) /\ Listed(f[1], recast)
    BY <2>1 DEF IsFile
  <2>3. d = f[1]
    BY <2>2 DEF Range
  <2>. QED  BY <2>2, <2>3
<1>3. \A m \in Machine : IsFile(<<data[m]>>, Mid, Tag, recast) /\ IsFile(local[m], Mid, Tag, recast)
  BY <1>1 DEF FilesOf
<1>4. \A d : Range(<<d>>) = {d}
  BY DEF Range
<1>5. ASSUME NEW d \in {ideal} \cup Range(snap) \cup UNION {{data[m]} \cup Range(local[m]) : m \in Machine}
      PROVE  IsData(d, Mid, Tag) /\ Listed(d, recast)
  <2>1. CASE d = ideal
    BY <1>1, <2>1
  <2>2. CASE d \in Range(snap)
    BY <1>1, <1>2, <2>2
  <2>3. ASSUME NEW m \in Machine, d = data[m] PROVE IsData(d, Mid, Tag) /\ Listed(d, recast)
    BY <1>2, <1>3, <1>4, <2>3
  <2>4. ASSUME NEW m \in Machine, d \in Range(local[m]) PROVE IsData(d, Mid, Tag) /\ Listed(d, recast)
    BY <1>2, <1>3, <2>4
  <2>. QED  BY <2>1, <2>2, <2>3, <2>4
<1>6. \A d \in {ideal} \cup Range(snap) \cup UNION {{data[m]} \cup Range(local[m]) : m \in Machine} :
        WellFormed(d) /\ \A m \in DOMAIN d.msgs : Range(d.msgs[m].tags) \subseteq DOMAIN d.tags \cup recast
  BY <1>5, DocIs
<1>7. made \in 0 .. MaxOps /\ Len(log) <= MaxOps
  <2>1. Len(log) \in Nat /\ MaxOps \in Nat
    BY <1>1 DEF DocConstants
  <2>. QED  BY <1>1, <2>1
<1>. QED  BY <1>6, <1>7 DEF DocTypeOK

LEMMA AgreesHere ==
  ASSUME NEW d, IsData(d, Mid, Tag), IsData(ideal, Mid, Tag), Agree(d, ideal, moved, recast)
  PROVE  Agrees(d)
<1>1. ASSUME NEW x \in Mid \ moved PROVE Same(Entry(d, x), Entry(ideal, x), recast)
  <2>. DEFINE e == Entry(d, x)
              f == Entry(ideal, x)
  <2>1. e \in Marks(Tag) /\ f \in Marks(Tag)
    BY EntryIs
  <2>2. \A k, t : (k = "tag" => t \notin recast) => (On(e, k, t) <=> On(f, k, t))
    BY <1>1 DEF Agree
  <2>. HIDE DEF e, f
  <2>3. /\ e.read = TRUE <=> f.read = TRUE
        /\ e.star = TRUE <=> f.star = TRUE
        /\ e.ruled = TRUE <=> f.ruled = TRUE
    <3>1. /\ On(e, "read", "") <=> On(f, "read", "")
          /\ On(e, "star", "") <=> On(f, "star", "")
          /\ On(e, "ruled", "") <=> On(f, "ruled", "")
      BY <2>2
    <3>. QED  BY <3>1 DEF On
  <2>4. \A t : t \notin recast => (t \in Range(e.tags) <=> t \in Range(f.tags))
    <3>1. \A t : t \notin recast => (On(e, "tag", t) <=> On(f, "tag", t))
      BY <2>2
    <3>. QED  BY <3>1 DEF On
  <2>5. e.read = f.read /\ e.star = f.star /\ e.ruled = f.ruled
    <3>1. /\ e.read \in BOOLEAN /\ f.read \in BOOLEAN /\ e.star \in BOOLEAN /\ f.star \in BOOLEAN
          /\ e.ruled \in BOOLEAN /\ f.ruled \in BOOLEAN
      BY <2>1 DEF Marks
    <3>. QED  BY <2>3, <3>1
  <2>6. Range(e.tags) \ recast = Range(f.tags) \ recast
    BY <2>4
  <2>7. Same(e, f, recast)
    BY <2>5, <2>6 DEF Same
  <2>. QED  BY <2>7 DEF e, f
<1>2. /\ DOMAIN ideal.tags \ recast \subseteq DOMAIN d.tags
      /\ ideal.rules # <<>> => d.rules = ideal.rules
      /\ d.filters = ideal.filters
  BY DEF Agree
<1>. QED  BY <1>1, <1>2 DEF Agrees

LEMMA DocsAgree == ASSUME DocsInv PROVE LoadAgrees
<1>1. /\ IsData(ideal, Mid, Tag) /\ \A m \in Machine : IsFile(<<data[m]>>, Mid, Tag, recast)
      /\ \A m \in Machine : seen[m] => Agree(data[m], ideal, moved, recast)
  BY DEF DocsInv, Sound, FilesOf
<1>2. \A m \in Machine : IsData(data[m], Mid, Tag)
  BY <1>1 DEF IsFile
<1>. QED  BY <1>1, <1>2, AgreesHere DEF LoadAgrees

-----------------------------------------------------------------------------
(* An operation twice.                                                       *)

LEMMA SameData ==
  ASSUME NEW M, NEW W, NEW a, NEW b, IsData(a, M, W), IsData(b, M, W),
         DOMAIN a.msgs = DOMAIN b.msgs, \A x : Entry(a, x) = Entry(b, x),
         a.tags = b.tags, a.rules = b.rules, a.filters = b.filters
  PROVE  a = b
<1>1. a.msgs = b.msgs
  BY DEF IsData, Entry
<1>. QED  BY <1>1 DEF IsData

LEMMA SetTwice == ASSUME NEW b, NEW to PROVE Set(Set(b, to), to) = Set(b, to)
BY DEF Set

LEMMA FlagsTwice ==
  ASSUME NEW M, NEW W, NEW d, IsData(d, M, W), NEW op, IsStep(op, M, W), op.t = "flags"
  PROVE  Apply(Apply(d, op), op) = Apply(d, op)
<1>. DEFINE a == Apply(d, op)
            b == Apply(a, op)
<1>1. AfterFlags(a, d, M, W, op)
  BY FlagsOf
<1>2. AfterFlags(b, a, M, W, op)
  <2>1. IsData(a, M, W)
    BY <1>1 DEF AfterFlags
  <2>. HIDE DEF a
  <2>. QED  BY <2>1, FlagsOf
<1>3. ASSUME NEW e \in Marks(W) PROVE Flagged(Flagged(e, op), op) = Flagged(e, op)
  <2>1. /\ Flagged(e, op) = [e EXCEPT !.read = Set(e.read, op.read), !.star = Set(e.star, op.star)]
        /\ Flagged(e, op).read = Set(e.read, op.read) /\ Flagged(e, op).star = Set(e.star, op.star)
    BY DEF Flagged, Marks
  <2>. DEFINE f == Flagged(e, op)
  <2>2. f \in [read : BOOLEAN, star : BOOLEAN, tags : Seq(W), ruled : BOOLEAN]
    BY <2>1, SetIs DEF Marks
  <2>3. Set(f.read, op.read) = f.read /\ Set(f.star, op.star) = f.star
    BY <2>1, SetTwice
  <2>. HIDE DEF f
  <2>4. Flagged(f, op) = [f EXCEPT !.read = f.read, !.star = f.star]
    BY <2>3 DEF Flagged
  <2>. QED  BY <2>2, <2>4 DEF f
<1>4. \A x : Entry(d, x) \in Marks(W)
  BY EntryIs
<1>. HIDE DEF a, b
<1>5. \A x : Entry(b, x) = Entry(a, x)
  BY <1>1, <1>2, <1>3, <1>4 DEF AfterFlags
<1>6. b = a
  BY <1>1, <1>2, <1>5, SameData DEF AfterFlags
<1>. QED  BY <1>6 DEF a, b

LEMMA RuledTwice ==
  ASSUME NEW M, NEW W, NEW d, IsData(d, M, W), NEW op, IsStep(op, M, W), op.t = "ruled"
  PROVE  Apply(Apply(d, op), op) = Apply(d, op)
<1>. DEFINE a == Apply(d, op)
            b == Apply(a, op)
<1>1. AfterRuled(a, d, M, W, op)
  BY RuledOf
<1>2. AfterRuled(b, a, M, W, op)
  <2>1. IsData(a, M, W)
    BY <1>1 DEF AfterRuled
  <2>. HIDE DEF a
  <2>. QED  BY <2>1, RuledOf
<1>3. \A e \in Marks(W) : Seen(Seen(e)) = Seen(e)
  BY DEF Seen, Marks
<1>4. \A x : Entry(d, x) \in Marks(W)
  BY EntryIs
<1>. HIDE DEF a, b
<1>5. \A x : Entry(b, x) = Entry(a, x)
  BY <1>1, <1>2, <1>3, <1>4 DEF AfterRuled
<1>6. b = a
  BY <1>1, <1>2, <1>5, SameData DEF AfterRuled
<1>. QED  BY <1>6 DEF a, b

LEMMA DropTwice ==
  ASSUME NEW M, NEW W, NEW d, IsData(d, M, W), NEW op, op.t = "drop"
  PROVE  Apply(Apply(d, op), op) = Apply(d, op)
<1>. DEFINE a == Apply(d, op)
            b == Apply(a, op)
<1>1. AfterDrop(a, d, M, W, op)
  BY DropOf
<1>2. AfterDrop(b, a, M, W, op)
  <2>1. IsData(a, M, W)
    BY <1>1 DEF AfterDrop
  <2>. HIDE DEF a
  <2>. QED  BY <2>1, DropOf
<1>. HIDE DEF a, b
<1>5. \A x : Entry(b, x) = Entry(a, x)
  BY <1>1, <1>2 DEF AfterDrop
<1>6. b = a
  BY <1>1, <1>2, <1>5, SameData DEF AfterDrop
<1>. QED  BY <1>6 DEF a, b

LEMMA RekeyTwice ==
  ASSUME NEW M, NEW W, NEW d, IsData(d, M, W), NEW op, IsStep(op, M, W), op.t = "rekey"
  PROVE  Apply(Apply(d, op), op) = Apply(d, op)
<1>. DEFINE a == Apply(d, op)
            b == Apply(a, op)
<1>1. AfterRekey(a, d, M, W, op)
  BY RekeyOf
<1>2. AfterRekey(b, a, M, W, op)
  <2>1. IsData(a, M, W)
    BY <1>1 DEF AfterRekey
  <2>. HIDE DEF a
  <2>. QED  BY <2>1, RekeyOf
<1>. HIDE DEF a, b
<1>3. op.old \in DOMAIN a.msgs <=> op.old \in DOMAIN d.msgs \/ (op.old = op.new /\ op.old \in DOMAIN d.msgs)
  BY <1>1 DEF AfterRekey
<1>4. op.old \in DOMAIN d.msgs => a.msgs[op.old] = d.msgs[op.old]
  <2>1. op.old \in DOMAIN d.msgs => a.msgs[op.old] = Entry(a, op.old) /\ d.msgs[op.old] = Entry(d, op.old)
    BY <1>3 DEF Entry
  <2>. QED  BY <1>1, <2>1 DEF AfterRekey
<1>5. \A x : Entry(b, x) = Entry(a, x)
  BY <1>1, <1>2, <1>3, <1>4 DEF AfterRekey
<1>6. DOMAIN b.msgs = DOMAIN a.msgs
  BY <1>1, <1>2, <1>3 DEF AfterRekey
<1>7. b = a
  BY <1>1, <1>2, <1>5, <1>6, SameData DEF AfterRekey
<1>. QED  BY <1>7 DEF a, b

LEMMA TagdelTwice ==
  ASSUME NEW M, NEW W, NEW d, IsData(d, M, W), NEW op, op.t = "tagdel"
  PROVE  Apply(Apply(d, op), op) = Apply(d, op)
<1>. DEFINE a == Apply(d, op)
            b == Apply(a, op)
<1>1. AfterTagdel(a, d, M, W, op)
  BY TagdelOf
<1>2. AfterTagdel(b, a, M, W, op)
  <2>1. IsData(a, M, W)
    BY <1>1 DEF AfterTagdel
  <2>. HIDE DEF a
  <2>. QED  BY <2>1, TagdelOf
<1>. HIDE DEF a, b
<1>3. ASSUME NEW e \in Marks(W) PROVE Untagged(Untagged(e, op.name), op.name) = Untagged(e, op.name)
  <2>. DEFINE f == Untagged(e, op.name)
  <2>1. e.tags \in Seq(W) /\ f = [e EXCEPT !.tags = Strip(e.tags, {op.name})] /\ f.tags = Strip(e.tags, {op.name})
    BY DEF Untagged, Marks
  <2>2. f.tags \in Seq(W) /\ Range(f.tags) \cap {op.name} = {}
    BY <2>1, StripOf
  <2>3. Strip(f.tags, {op.name}) = f.tags
    BY <2>2, StripNothing
  <2>4. f \in Marks(W)
    BY <2>1, <2>2 DEF Marks
  <2>. HIDE DEF f
  <2>5. Untagged(f, op.name) = f
    BY <2>3, <2>4 DEF Untagged, Marks
  <2>. QED  BY <2>5 DEF f
<1>4. \A x \in DOMAIN d.msgs : d.msgs[x] \in Marks(W)
  BY DEF IsData
<1>5. DOMAIN a.msgs = DOMAIN d.msgs /\ \A x \in DOMAIN a.msgs : a.msgs[x] = Untagged(d.msgs[x], op.name)
  BY <1>1 DEF AfterTagdel, Entry
<1>6. \A x : Entry(b, x) = Entry(a, x)
  BY <1>1, <1>2, <1>3, <1>4, <1>5 DEF AfterTagdel
<1>7. Less(a.tags, {op.name}) = a.tags
  BY <1>1 DEF AfterTagdel, Less
<1>8. b = a
  BY <1>1, <1>2, <1>6, <1>7, SameData DEF AfterTagdel
<1>. QED  BY <1>8 DEF a, b

LEMMA TagrenTwice ==
  ASSUME NEW M, NEW W, IsFiniteSet(W), NEW d, IsData(d, M, W), NEW op, IsStep(op, M, W), op.t = "tagren"
  PROVE  Apply(Apply(d, op), op) = Apply(d, op)
<1>. DEFINE a == Apply(d, op)
            b == Apply(a, op)
<1>0. op.new \in W
  BY DEF IsStep
<1>1. AfterTagren(a, d, M, W, op)
  BY TagrenOf
<1>2. AfterTagren(b, a, M, W, op)
  <2>1. IsData(a, M, W)
    BY <1>1 DEF AfterTagren
  <2>. HIDE DEF a
  <2>. QED  BY <2>1, TagrenOf
<1>. HIDE DEF a, b
<1>3. ASSUME NEW e \in Marks(W) PROVE Renamed(Renamed(e, op), op) = Renamed(e, op)
  <2>. DEFINE f == Renamed(e, op)
  <2>1. e.tags \in Seq(W) /\ f = [e EXCEPT !.tags = RenamedList(e.tags, op)] /\ f.tags = RenamedList(e.tags, op)
    BY DEF Renamed, Marks
  <2>2. f.tags \in Seq(W) /\ (op.old # op.new => op.old \notin Range(f.tags))
    BY <1>0, <2>1, RenamedOf
  <2>3. RenamedList(f.tags, op) = f.tags
    <3>1. CASE op.old # op.new
      BY <1>0, <2>2, <3>1, RenamedOf
    <3>2. CASE op.old = op.new
      <4>. DEFINE s == f.tags
      <4>1. s \in Seq(W)
        BY <2>2
      <4>. HIDE DEF s
      <4>2. RenamedList(s, op) = s
        BY <3>2, <4>1 DEF RenamedList
      <4>. QED  BY <4>2 DEF s
    <3>. QED  BY <3>1, <3>2
  <2>4. f \in Marks(W)
    BY <2>1, <2>2 DEF Marks
  <2>. HIDE DEF f
  <2>5. Renamed(f, op) = f
    BY <2>3, <2>4 DEF Renamed, Marks
  <2>. QED  BY <2>5 DEF f
<1>4. \A x \in DOMAIN d.msgs : d.msgs[x] \in Marks(W)
  BY DEF IsData
<1>5. DOMAIN a.msgs = DOMAIN d.msgs /\ \A x \in DOMAIN a.msgs : a.msgs[x] = Renamed(d.msgs[x], op)
  BY <1>1 DEF AfterTagren, Entry
<1>6. \A x : Entry(b, x) = Entry(a, x)
  BY <1>1, <1>2, <1>3, <1>4, <1>5 DEF AfterTagren
<1>. DEFINE rest(tags) == IF op.old = op.new THEN tags ELSE Less(tags, {op.old})
<1>7. /\ a.tags = Put(rest(d.tags), op.new, RenColor(d, op))
      /\ b.tags = Put(rest(a.tags), op.new, RenColor(a, op))
  BY <1>1, <1>2 DEF AfterTagren
<1>8. /\ op.new \in DOMAIN a.tags /\ a.tags[op.new] = RenColor(d, op)
      /\ op.old # op.new => op.old \notin DOMAIN a.tags
  BY <1>7 DEF Put, Less
<1>9. RenColor(a, op) = a.tags[op.new]
  <2>1. CASE op.color = {}
    BY <1>8, <2>1 DEF RenColor, ColorOr
  <2>2. CASE op.color # {}
    BY <1>8, <2>2 DEF RenColor, ColorOr
  <2>. QED  BY <2>1, <2>2
<1>10. rest(a.tags) = a.tags
  <2>1. IsTags(a.tags, W)
    BY <1>1 DEF AfterTagren, IsData
  <2>. QED  BY <1>8, <2>1 DEF Less, IsTags
<1>11. b.tags = a.tags
  <2>. DEFINE s == a.tags
  <2>1. IsTags(s, W) /\ b.tags = Put(s, op.new, s[op.new]) /\ op.new \in DOMAIN s
    BY <1>1, <1>7, <1>8, <1>9, <1>10 DEF AfterTagren, IsData
  <2>. HIDE DEF s
  <2>2. b.tags = s
    BY <2>1 DEF Put, IsTags
  <2>. QED  BY <2>2 DEF s
<1>12. b = a
  BY <1>1, <1>2, <1>6, <1>11, SameData DEF AfterTagren
<1>. QED  BY <1>12 DEF a, b

LEMMA RulesTwice ==
  ASSUME NEW M, NEW W, NEW d, IsData(d, M, W), NEW op, op.t \in {"rules", "filters"}
  PROVE  Apply(Apply(d, op), op) = Apply(d, op)
<1>. DEFINE a == Apply(d, op)
            b == Apply(a, op)
<1>1. AfterRules(a, d, M, W, op)
  BY RulesOf
<1>2. AfterRules(b, a, M, W, op)
  <2>1. IsData(a, M, W)
    BY <1>1 DEF AfterRules
  <2>. HIDE DEF a
  <2>. QED  BY <2>1, RulesOf
<1>. HIDE DEF a, b
<1>3. /\ b.msgs = a.msgs /\ b.tags = a.tags /\ b.rules = a.rules /\ b.filters = a.filters
      /\ \A x : Entry(b, x) = Entry(a, x)
  BY <1>1, <1>2 DEF AfterRules, Entry
<1>4. b = a
  BY <1>1, <1>2, <1>3, SameData DEF AfterRules
<1>. QED  BY <1>4 DEF a, b

\* The tags of a message, twice: the same ones, and in the same order unless a tag
\* is both taken off and put on.
LEMMA TaggedTwice ==
  ASSUME NEW W, NEW e \in Marks(W), NEW op, op.add \in Seq(W)
  PROVE  /\ Range(Tagged(Tagged(e, op), op).tags) = Range(Tagged(e, op).tags)
         /\ Range(op.add) \cap op.remove = {} => Tagged(Tagged(e, op), op) = Tagged(e, op)
<1>. DEFINE f == Tagged(e, op)
<1>1. f \in Marks(W) /\ Range(f.tags) = (Range(e.tags) \ op.remove) \cup Range(op.add)
  BY TaggedOf
<1>. HIDE DEF f
<1>2. Range(Tagged(f, op).tags) = (Range(f.tags) \ op.remove) \cup Range(op.add)
  BY <1>1, TaggedOf
<1>3. ASSUME Range(op.add) \cap op.remove = {} PROVE Tagged(f, op) = f
  <2>1. f.tags \in Seq(W) /\ Range(f.tags) \cap op.remove = {} /\ Range(op.add) \subseteq Range(f.tags)
    BY <1>1, <1>3 DEF Marks
  <2>2. Strip(f.tags, op.remove) = f.tags
    BY <2>1, StripNothing
  <2>3. FoldLeft(Enlist, f.tags, op.add) = f.tags
    BY <2>1, EnlistOf
  <2>4. Tagged(f, op) = [f EXCEPT !.tags = f.tags]
    BY <2>2, <2>3 DEF Tagged
  <2>. QED  BY <1>1, <2>4 DEF Marks
<1>. QED  BY <1>1, <1>2, <1>3 DEF f

LEMMA TagsTwice ==
  ASSUME NEW M, NEW W, IsFiniteSet(W), NEW d, IsData(d, M, W), NEW op, IsStep(op, M, W), op.t = "tags"
  PROVE  IF Range(op.add) \cap op.remove # {}
           THEN Alike(Apply(Apply(d, op), op), Apply(d, op))
           ELSE Apply(Apply(d, op), op) = Apply(d, op)
<1>. DEFINE a == Apply(d, op)
            b == Apply(a, op)
<1>0. op.add \in Seq(W)
  BY DEF IsStep
<1>1. AfterTags(a, d, M, W, op)
  BY TagsOf
<1>2. AfterTags(b, a, M, W, op)
  <2>1. IsData(a, M, W)
    BY <1>1 DEF AfterTags
  <2>. HIDE DEF a
  <2>. QED  BY <2>1, TagsOf
<1>3. \A x : Entry(d, x) \in Marks(W)
  BY EntryIs
<1>. HIDE DEF a, b
<1>4. IsData(a, M, W) /\ IsData(b, M, W) /\ DOMAIN b.msgs = DOMAIN a.msgs /\ b.rules = a.rules /\ b.filters = a.filters
  BY <1>1, <1>2 DEF AfterTags
<1>5. b.tags = a.tags
  <2>1. IsTags(a.tags, W) /\ Range(op.add) \subseteq DOMAIN a.tags /\ b.tags = FoldLeft(Named, a.tags, op.add)
    BY <1>1, <1>2 DEF AfterTags, IsData
  <2>. DEFINE s == a.tags
              l == op.add
  <2>2. IsTags(s, W) /\ l \in Seq(W) /\ Range(l) \subseteq DOMAIN s
    BY <1>0, <2>1
  <2>. HIDE DEF s, l
  <2>3. FoldLeft(Named, s, l) = s
    BY <2>2, NamedOf
  <2>. QED  BY <2>1, <2>3 DEF s, l
<1>6. \A e \in Marks(W) :
        /\ Range(Tagged(Tagged(e, op), op).tags) = Range(Tagged(e, op).tags)
        /\ Range(op.add) \cap op.remove = {} => Tagged(Tagged(e, op), op) = Tagged(e, op)
  BY <1>0, TaggedTwice
<1>7. \A x : Entry(b, x) = IF x \in op.mids THEN Tagged(Tagged(Entry(d, x), op), op) ELSE Entry(a, x)
  BY <1>1, <1>2 DEF AfterTags
<1>8. \A x : x \in op.mids => Entry(a, x) = Tagged(Entry(d, x), op)
  BY <1>1 DEF AfterTags
<1>9. CASE Range(op.add) \cap op.remove = {}
  <2>1. \A x : Entry(b, x) = Entry(a, x)
    BY <1>3, <1>6, <1>7, <1>8, <1>9
  <2>2. b = a
    BY <1>4, <1>5, <2>1, SameData
  <2>. QED  BY <1>9, <2>2 DEF a, b
<1>10. CASE Range(op.add) \cap op.remove # {}
  <2>1. ASSUME NEW x \in DOMAIN a.msgs
        PROVE  [b.msgs[x] EXCEPT !.tags = Range(b.msgs[x].tags)] =
                 [a.msgs[x] EXCEPT !.tags = Range(a.msgs[x].tags)]
    <3>1. b.msgs[x] = Entry(b, x) /\ a.msgs[x] = Entry(a, x) /\ a.msgs[x] \in Marks(W) /\ b.msgs[x] \in Marks(W)
      BY <1>4 DEF Entry, IsData
    <3>2. \A e \in Marks(W) : /\ Tagged(e, op) \in Marks(W) /\ Tagged(e, op).read = e.read
                              /\ Tagged(e, op).star = e.star /\ Tagged(e, op).ruled = e.ruled
      BY <1>0, TaggedOf
    <3>3. /\ b.msgs[x].read = a.msgs[x].read /\ b.msgs[x].star = a.msgs[x].star
          /\ b.msgs[x].ruled = a.msgs[x].ruled /\ Range(b.msgs[x].tags) = Range(a.msgs[x].tags)
      BY <1>3, <1>6, <1>7, <1>8, <3>1, <3>2
    <3>. DEFINE e == b.msgs[x]
                f == a.msgs[x]
    <3>4. /\ e \in Marks(W) /\ f \in Marks(W) /\ e.read = f.read /\ e.star = f.star /\ e.ruled = f.ruled
          /\ Range(e.tags) = Range(f.tags)
      BY <3>1, <3>3
    <3>. HIDE DEF e, f
    <3>5. [e EXCEPT !.tags = Range(e.tags)] = [f EXCEPT !.tags = Range(f.tags)]
      BY <3>4 DEF Marks
    <3>. QED  BY <3>5 DEF e, f
  <2>2. [x \in DOMAIN b.msgs |-> [b.msgs[x] EXCEPT !.tags = Range(b.msgs[x].tags)]] =
          [x \in DOMAIN a.msgs |-> [a.msgs[x] EXCEPT !.tags = Range(a.msgs[x].tags)]]
    BY <1>4, <2>1
  <2>3. \A m : [b EXCEPT !.msgs = m] = [a EXCEPT !.msgs = m]
    BY <1>4, <1>5 DEF IsData
  <2>4. Alike(b, a)
    BY <2>2, <2>3, Zenon DEF Alike
  <2>. QED  BY <1>10, <2>4 DEF a, b
<1>. QED  BY <1>9, <1>10

LEMMA OpsTwice ==
  ASSUME DocConstants, DocsInv, NEW d, IsData(d, Mid, Tag), NEW op \in Ops
  PROVE  IF op.t = "tags" /\ Range(op.add) \cap op.remove # {}
           THEN Alike(Apply(Apply(d, op), op), Apply(d, op))
           ELSE Apply(Apply(d, op), op) = Apply(d, op)
<1>1. IsStep(op, Mid, Tag) /\ IsFiniteSet(Tag)
  BY StepsHere, TagsAreFinite
<1>2. CASE op.t = "tags"
  BY <1>1, <1>2, TagsTwice
<1>3. op.t # "tags" => Apply(Apply(d, op), op) = Apply(d, op)
  BY <1>1, FlagsTwice, RuledTwice, DropTwice, RekeyTwice, TagdelTwice, TagrenTwice, RulesTwice, KindsAre
<1>. QED  BY <1>2, <1>3

LEMMA DocsIdempotent == ASSUME DocConstants, DocsInv PROVE OpsIdempotent
<1>1. \A m \in Machine : IsData(data[m], Mid, Tag)
  <2>1. \A m \in Machine : IsFile(<<data[m]>>, Mid, Tag, recast)
    BY DEF DocsInv, Sound, FilesOf
  <2>. QED  BY <2>1 DEF IsFile
<1>. SUFFICES ASSUME NEW m \in Machine, NEW op \in Ops
              PROVE  LET once  == Apply(data[m], op)
                         twice == Apply(once, op)
                     IN IF op.t = "tags" /\ Range(op.add) \cap op.remove # {} THEN Alike(twice, once)
                                                                            ELSE twice = once
  BY DEF OpsIdempotent
<1>. QED  BY <1>1, OpsTwice

\* Every operation made twice is the operation made once, and machines that have
\* every operation agree on what they say, whichever files and snapshots they
\* started from (core/state.go Apply and MergeMissing, store/state.go Load).
THEOREM DocumentsConverge ==
  ASSUME DocConstants
  PROVE  DocSpec => []DocTypeOK /\ []OpsIdempotent /\ []LoadAgrees
<1>1. DocInit => DocsInv
  BY DocsInit
<1>2. DocsInv /\ [DocNext]_docs => DocsInv'
  BY DocsNext
<1>3. DocsInv => DocTypeOK /\ OpsIdempotent /\ LoadAgrees
  BY DocsTyped, DocsAgree, DocsIdempotent
<1>. QED  BY <1>1, <1>2, <1>3, PTL DEF DocSpec

-----------------------------------------------------------------------------
(* The folds of the desk.                                                    *)

LEMMA MergeSteps ==
  ASSUME NEW base, NEW S, NEW list \in Seq(S)
  PROVE  \E g : Merging(g, base, list)
<1>. DEFINE how == <<"admit">>
            P(g) == g = [s \in SUBSET DOMAIN list |->
                          IF s = {} THEN base ELSE Admit(g[s \ {Max(s)}], list[Max(s)])]
<1>0. \A x, y : Fold(how, x, y) = Admit(x, y)
  BY DEF Fold
<1>. HIDE DEF how
<1>1. ASSUME NEW g PROVE P(g) <=> IsFold(how, base, list, g)
  <2>1. \A s \in SUBSET DOMAIN list :
          Onto(how, base, list, g, s) = IF s = {} THEN base ELSE Admit(g[s \ {Max(s)}], list[Max(s)])
    BY <1>0 DEF Onto
  <2>. QED  BY <2>1 DEF IsFold
<1>2. FoldLeft(Admit, base, list) = (CHOOSE g : P(g))[DOMAIN list]
  BY DEF FoldLeft, MapThenFoldSet
<1>3. \E g : P(g)
  BY <1>1, FoldExists
<1>. HIDE DEF P
<1>4. PICK F : P(F) /\ FoldLeft(Admit, base, list) = F[DOMAIN list]
  BY <1>2, <1>3
<1>5. IsFold(how, base, list, F)
  BY <1>1, <1>4
<1>6. PICK g : Folding(how, base, list, g) /\ F[DOMAIN list] = g[Len(list)]
  BY <1>5, FoldSteps
<1>. QED  BY <1>0, <1>4, <1>6 DEF Folding, Merging

LEMMA FilterSteps ==
  ASSUME NEW S, NEW list \in Seq(S)
  PROVE  \E g : Filtering(g, list)
<1>. DEFINE how == <<"accept">>
            P(g) == g = [s \in SUBSET DOMAIN list |->
                          IF s = {} THEN <<>> ELSE Accept(g[s \ {Max(s)}], list[Max(s)])]
<1>0. \A x, y : Fold(how, x, y) = Accept(x, y)
  BY DEF Fold
<1>. HIDE DEF how
<1>1. ASSUME NEW g PROVE P(g) <=> IsFold(how, <<>>, list, g)
  <2>1. \A s \in SUBSET DOMAIN list :
          Onto(how, <<>>, list, g, s) = IF s = {} THEN <<>> ELSE Accept(g[s \ {Max(s)}], list[Max(s)])
    BY <1>0 DEF Onto
  <2>. QED  BY <2>1 DEF IsFold
<1>2. CleanFilters(list) = (CHOOSE g : P(g))[DOMAIN list]
  BY DEF CleanFilters, FoldLeft, MapThenFoldSet
<1>3. \E g : P(g)
  BY <1>1, FoldExists
<1>. HIDE DEF P
<1>4. PICK F : P(F) /\ CleanFilters(list) = F[DOMAIN list]
  BY <1>2, <1>3
<1>5. IsFold(how, <<>>, list, F)
  BY <1>1, <1>4
<1>6. PICK g : Folding(how, <<>>, list, g) /\ F[DOMAIN list] = g[Len(list)]
  BY <1>5, FoldSteps
<1>. QED  BY <1>0, <1>4, <1>6 DEF Folding, Filtering

LEMMA TreatSteps ==
  ASSUME NEW base, NEW S, NEW list \in Seq(S), NEW plan
  PROVE  \E g : Treating(g, base, list, plan)
<1>. DEFINE how == <<"treat", plan>>
            P(g) == g = [s \in SUBSET DOMAIN list |->
                          IF s = {} THEN base ELSE Treat(g[s \ {Max(s)}], list[Max(s)], plan[list[Max(s)]])]
<1>0. \A x, y : Fold(how, x, y) = Treat(x, y, plan[y])
  BY DEF Fold
<1>. HIDE DEF how
<1>1. ASSUME NEW g PROVE P(g) <=> IsFold(how, base, list, g)
  <2>1. \A s \in SUBSET DOMAIN list :
          Onto(how, base, list, g, s) = IF s = {} THEN base ELSE Treat(g[s \ {Max(s)}], list[Max(s)], plan[list[Max(s)]])
    BY <1>0 DEF Onto
  <2>. QED  BY <2>1 DEF IsFold
<1>2. FoldLeft(LAMBDA e, x : Treat(e, x, plan[x]), base, list) = (CHOOSE g : P(g))[DOMAIN list]
  BY DEF FoldLeft, MapThenFoldSet
<1>3. \E g : P(g)
  BY <1>1, FoldExists
<1>. HIDE DEF P
<1>4. PICK F : P(F) /\ FoldLeft(LAMBDA e, x : Treat(e, x, plan[x]), base, list) = F[DOMAIN list]
  BY <1>2, <1>3
<1>5. IsFold(how, base, list, F)
  BY <1>1, <1>4
<1>6. PICK g : Folding(how, base, list, g) /\ F[DOMAIN list] = g[Len(list)]
  BY <1>5, FoldSteps
<1>. QED  BY <1>0, <1>4, <1>6 DEF Folding, Treating

LEMMA NoteSteps ==
  ASSUME NEW base, NEW S, NEW list \in Seq(S), NEW idx, NEW a
  PROVE  \E g : Noting(g, base, list, idx, a)
<1>. DEFINE how == <<"note", idx, a>>
            P(g) == g = [s \in SUBSET DOMAIN list |->
                          IF s = {} THEN base ELSE NoteMessage(g[s \ {Max(s)}], idx[list[Max(s)]], a)]
<1>0. \A x, y : Fold(how, x, y) = NoteMessage(x, idx[y], a)
  BY DEF Fold
<1>. HIDE DEF how
<1>1. ASSUME NEW g PROVE P(g) <=> IsFold(how, base, list, g)
  <2>1. \A s \in SUBSET DOMAIN list :
          Onto(how, base, list, g, s) = IF s = {} THEN base ELSE NoteMessage(g[s \ {Max(s)}], idx[list[Max(s)]], a)
    BY <1>0 DEF Onto
  <2>. QED  BY <2>1 DEF IsFold
<1>2. FoldLeft(LAMBDA c, x : NoteMessage(c, idx[x], a), base, list) = (CHOOSE g : P(g))[DOMAIN list]
  BY DEF FoldLeft, MapThenFoldSet
<1>3. \E g : P(g)
  BY <1>1, FoldExists
<1>. HIDE DEF P
<1>4. PICK F : P(F) /\ FoldLeft(LAMBDA c, x : NoteMessage(c, idx[x], a), base, list) = F[DOMAIN list]
  BY <1>2, <1>3
<1>5. IsFold(how, base, list, F)
  BY <1>1, <1>4
<1>6. PICK g : Folding(how, base, list, g) /\ F[DOMAIN list] = g[Len(list)]
  BY <1>5, FoldSteps
<1>. QED  BY <1>0, <1>4, <1>6 DEF Folding, Noting

LEMMA SumSteps ==
  ASSUME NEW S, NEW list \in Seq(S)
  PROVE  \E g : Summing(g, list)
<1>. DEFINE how == <<"sum">>
            P(g) == g = [s \in SUBSET DOMAIN list |->
                          IF s = {} THEN 0 ELSE g[s \ {Max(s)}] + list[Max(s)].count]
<1>0. \A x, y : Fold(how, x, y) = x + y.count
  BY DEF Fold
<1>. HIDE DEF how
<1>1. ASSUME NEW g PROVE P(g) <=> IsFold(how, 0, list, g)
  <2>1. \A s \in SUBSET DOMAIN list :
          Onto(how, 0, list, g, s) = IF s = {} THEN 0 ELSE g[s \ {Max(s)}] + list[Max(s)].count
    BY <1>0 DEF Onto
  <2>. QED  BY <2>1 DEF IsFold
<1>2. FoldLeft(LAMBDA n, e : n + e.count, 0, list) = (CHOOSE g : P(g))[DOMAIN list]
  BY DEF FoldLeft, MapThenFoldSet
<1>3. \E g : P(g)
  BY <1>1, FoldExists
<1>. HIDE DEF P
<1>4. PICK F : P(F) /\ FoldLeft(LAMBDA n, e : n + e.count, 0, list) = F[DOMAIN list]
  BY <1>2, <1>3
<1>5. IsFold(how, 0, list, F)
  BY <1>1, <1>4
<1>6. PICK g : Folding(how, 0, list, g) /\ F[DOMAIN list] = g[Len(list)]
  BY <1>5, FoldSteps
<1>. QED  BY <1>0, <1>4, <1>6 DEF Folding, Summing

-----------------------------------------------------------------------------
(* Sorted lists.                                                             *)

\* Places are 1 to the number of elements, one for each.
LEMMA PlacesAre ==
  ASSUME NEW S, IsFiniteSet(S), NEW R, Orders(R, S)
  PROVE  /\ Cardinality(S) \in Nat
         /\ \A x \in S : PlaceIn(R, S, x) \in 1 .. Cardinality(S)
         /\ \A x, y \in S : PlaceIn(R, S, x) = PlaceIn(R, S, y) => x = y
         /\ \A x, y \in S : <<x, y>> \in R => PlaceIn(R, S, x) < PlaceIn(R, S, y)
         /\ \A i \in 1 .. Cardinality(S) : \E x \in S : PlaceIn(R, S, x) = i
<1>. DEFINE n == Cardinality(S)
            Low(x) == {y \in S : <<x, y>> \notin R}
            P == [x \in S |-> PlaceIn(R, S, x)]
<1>1. n \in Nat
  BY FS_CardinalityType
<1>2. ASSUME NEW x \in S
      PROVE  IsFiniteSet(Low(x)) /\ Cardinality(Low(x)) \in 1 .. n
  <2>1. Low(x) \in SUBSET S /\ x \in Low(x)
    BY DEF Orders
  <2>. HIDE DEF Low
  <2>2. IsFiniteSet(Low(x)) /\ Cardinality(Low(x)) <= n
    BY <2>1, FS_Subset
  <2>3. Cardinality(Low(x)) \in Nat /\ Cardinality(Low(x)) # 0
    BY <2>1, <2>2, FS_CardinalityType, FS_EmptySet
  <2>. QED  BY <1>1, <2>2, <2>3
<1>3. ASSUME NEW x \in S, NEW y \in S, <<x, y>> \in R PROVE P[x] < P[y]
  <2>1. Low(x) \in SUBSET Low(y) /\ y \in Low(y) /\ y \notin Low(x)
    <3>1. ASSUME NEW z \in S, <<x, z>> \notin R PROVE <<y, z>> \notin R
      BY <1>3, <3>1 DEF Orders
    <3>. QED  BY <1>3, <3>1 DEF Orders
  <2>2. P[x] = Cardinality(Low(x)) /\ P[y] = Cardinality(Low(y))
    BY DEF PlaceIn
  <2>3. IsFiniteSet(Low(y)) /\ P[x] \in 1 .. n /\ P[y] \in 1 .. n
    BY <1>2, <2>2
  <2>. HIDE DEF Low, P
  <2>4. Cardinality(Low(x)) <= Cardinality(Low(y)) /\ Cardinality(Low(x)) # Cardinality(Low(y))
    BY <2>1, <2>3, FS_Subset
  <2>. QED  BY <1>1, <2>2, <2>3, <2>4
<1>4. P \in [S -> 1 .. n]
  BY <1>2 DEF PlaceIn
<1>. HIDE DEF P
<1>5. \A x, y \in S : P[x] = P[y] => x = y
  <2>. SUFFICES ASSUME NEW x \in S, NEW y \in S, P[x] = P[y], x # y PROVE FALSE
    OBVIOUS
  <2>1. P[x] \in 1 .. n /\ P[y] \in 1 .. n
    BY <1>4
  <2>2. P[x] < P[y] \/ P[y] < P[x]
    BY <1>3 DEF Orders
  <2>. QED  BY <1>1, <2>1, <2>2
<1>6. P \in Surjection(S, 1 .. n)
  <2>1. P \in Injection(S, 1 .. n)
    BY <1>4, <1>5 DEF Injection, IsInjective
  <2>2. IsFiniteSet(1 .. n) /\ Cardinality(1 .. n) = n
    BY <1>1, FS_Interval
  <2>. QED  BY <2>1, <2>2, FS_Injection
<1>7. \A i \in 1 .. n : \E x \in S : P[x] = i
  BY <1>6 DEF Surjection
<1>8. \A x, y \in S : <<x, y>> \in R => P[x] < P[y]
  BY <1>3
<1>. QED  BY <1>1, <1>4, <1>5, <1>7, <1>8 DEF P

LEMMA ListIs ==
  ASSUME NEW S, NEW n \in Nat, NEW s \in [1 .. n -> S]
  PROVE  s \in Seq(S) /\ Len(s) = n /\ DOMAIN s = 1 .. n
OBVIOUS

\* A list that has at every place the element of that place is the order.
LEMMA OrderIs ==
  ASSUME NEW S, IsFiniteSet(S), NEW R, Orders(R, S), NEW s,
         s = [i \in 1 .. Cardinality(S) |-> s[i]],
         \A i \in 1 .. Cardinality(S), x \in S :
           PlaceIn(R, S, x) = i => s[i] \in S /\ PlaceIn(R, S, s[i]) = i
  PROVE  IsOrder(s, S, R)
<1>. DEFINE n == Cardinality(S)
<1>1. n \in Nat /\ \A i \in 1 .. n : s[i] \in S /\ PlaceIn(R, S, s[i]) = i
  BY PlacesAre
<1>2. s \in Seq(S) /\ Len(s) = n /\ DOMAIN s = 1 .. n
  <2>. HIDE DEF n
  <2>1. s = [i \in 1 .. n |-> s[i]]
    BY DEF n
  <2>2. s \in [1 .. n -> S]
    BY <1>1, <2>1
  <2>. QED  BY <1>1, <2>2, ListIs
<1>3. \A x \in S : \E i \in 1 .. n : s[i] = x
  BY <1>1, PlacesAre
<1>4. Range(s) = S
  BY <1>1, <1>2, <1>3 DEF Range
<1>. QED  BY <1>1, <1>2, <1>4 DEF IsOrder

\* No element is in it twice.
LEMMA OrderOnce ==
  ASSUME NEW S, NEW R, NEW s, IsOrder(s, S, R)
  PROVE  \A i, j \in 1 .. Len(s) : s[i] = s[j] => i = j
BY DEF IsOrder

LEMMA ByKeyIs ==
  ASSUME NEW S \in SUBSET Nat, IsFiniteSet(S)
  PROVE  /\ ByKey(S) \in Seq(S) /\ Range(ByKey(S)) = S
         /\ \A i, j \in 1 .. Len(ByKey(S)) : ByKey(S)[i] = ByKey(S)[j] => i = j
<1>. DEFINE R == {p \in S \X S : p[1] < p[2]}
            s == ByKey(S)
<1>1. \A x, y \in S : <<x, y>> \in R <=> x < y
  OBVIOUS
<1>. HIDE DEF R
<1>2. Orders(R, S)
  BY <1>1 DEF Orders
<1>3. \A x \in S : PlaceIn(R, S, x) = Cardinality({y \in S : ~ (x < y)})
  <2>. SUFFICES ASSUME NEW x \in S PROVE {y \in S : <<x, y>> \notin R} = {y \in S : ~ (x < y)}
    BY DEF PlaceIn
  <2>. QED  BY <1>1
<1>. DEFINE at(i) == CHOOSE x \in S : Cardinality({y \in S : ~ (x < y)}) = i
<1>4. s = [i \in 1 .. Cardinality(S) |-> at(i)]
  BY DEF ByKey, InOrder
<1>5. \A i \in 1 .. Cardinality(S), x \in S :
        PlaceIn(R, S, x) = i => at(i) \in S /\ PlaceIn(R, S, at(i)) = i
  BY <1>3
<1>. HIDE DEF s, at
<1>6. /\ s = [i \in 1 .. Cardinality(S) |-> s[i]]
      /\ \A i \in 1 .. Cardinality(S), x \in S :
           PlaceIn(R, S, x) = i => s[i] \in S /\ PlaceIn(R, S, s[i]) = i
  BY <1>4, <1>5
<1>7. IsOrder(s, S, R)
  BY <1>2, <1>6, OrderIs
<1>. QED  BY <1>7, OrderOnce DEF IsOrder, s

LEMMA NewestIs ==
  ASSUME NEW S, IsFiniteSet(S), NEW idx, \A x \in S : idx[x].date \in Nat,
         \A x, y \in S : idx[x].date = idx[y].date => x = y
  PROVE  Range(Newest(idx, S)) = S /\ Len(Newest(idx, S)) = Cardinality(S)
<1>. DEFINE R == {p \in S \X S : idx[p[1]].date > idx[p[2]].date}
            s == Newest(idx, S)
<1>1. \A x, y \in S : <<x, y>> \in R <=> idx[x].date > idx[y].date
  OBVIOUS
<1>. HIDE DEF R
<1>2. Orders(R, S)
  BY <1>1 DEF Orders
<1>3. \A x \in S : PlaceIn(R, S, x) = Cardinality({y \in S : ~ (idx[x].date > idx[y].date)})
  <2>. SUFFICES ASSUME NEW x \in S
                PROVE  {y \in S : <<x, y>> \notin R} = {y \in S : ~ (idx[x].date > idx[y].date)}
    BY DEF PlaceIn
  <2>. QED  BY <1>1
<1>. DEFINE at(i) == CHOOSE x \in S : Cardinality({y \in S : ~ (idx[x].date > idx[y].date)}) = i
<1>4. s = [i \in 1 .. Cardinality(S) |-> at(i)]
  BY DEF Newest, InOrder
<1>5. \A i \in 1 .. Cardinality(S), x \in S :
        PlaceIn(R, S, x) = i => at(i) \in S /\ PlaceIn(R, S, at(i)) = i
  BY <1>3
<1>. HIDE DEF s, at
<1>6. /\ s = [i \in 1 .. Cardinality(S) |-> s[i]]
      /\ \A i \in 1 .. Cardinality(S), x \in S :
           PlaceIn(R, S, x) = i => s[i] \in S /\ PlaceIn(R, S, s[i]) = i
  BY <1>4, <1>5
<1>7. IsOrder(s, S, R)
  BY <1>2, <1>6, OrderIs
<1>. QED  BY <1>7 DEF IsOrder, s

\* The rank of a folder is its place among the names.
LEMMA RankIs ==
  /\ \A f \in Folder : Rank(f) \in 1 .. Len(Names) /\ Names[Rank(f)] = f
  /\ \A f, g \in Folder : Rank(f) = Rank(g) => f = g
<1>1. Names \in Seq(Folder)
  BY DeskAssumption
<1>2. DOMAIN Names = 1 .. Len(Names)
  BY <1>1
<1>3. ASSUME NEW f \in Folder PROVE Rank(f) \in DOMAIN Names /\ Names[Rank(f)] = f
  BY DEF Folder, Range, Rank
<1>. QED  BY <1>2, <1>3

LEMMA OwnIs ==
  ASSUME NEW idx, NEW d, IsFiniteSet(DOMAIN idx), \A x \in DOMAIN idx : idx[x].folder \in Folder
  PROVE  LET own == {idx[x].folder : x \in DOMAIN idx} \ Range(SystemFolders)
             s   == OwnFolders(idx, d)
         IN /\ s \in Seq(own) /\ Range(s) = own
            /\ \A i, j \in 1 .. Len(s) : s[i] = s[j] => i = j
<1>. DEFINE all == {idx[x].folder : x \in DOMAIN idx}
            S == all \ Range(SystemFolders)
            R == {p \in S \X S : Rank(p[1]) < Rank(p[2])}
            s == OwnFolders(idx, d)
<1>0. IsFiniteSet(S) /\ S \subseteq Folder
  <2>1. IsFiniteSet(all)
    <3>. DEFINE h == [x \in DOMAIN idx |-> idx[x].folder]
    <3>1. h \in Surjection(DOMAIN idx, all)
      BY DEF Surjection
    <3>. QED  BY <3>1, FS_Surjection
  <2>. QED  BY <2>1, FS_Subset
<1>. DEFINE at(i) == CHOOSE f \in S : Cardinality({g \in S : ~ (Rank(f) < Rank(g))}) = i
<1>4. s = [i \in 1 .. Cardinality(S) |-> at(i)]
  BY DEF OwnFolders, InOrder
<1>. HIDE DEF S, s
<1>1. \A f, g \in S : <<f, g>> \in R <=> Rank(f) < Rank(g)
  OBVIOUS
<1>. HIDE DEF R
<1>2. Orders(R, S)
  <2>1. \A f \in S : Rank(f) \in Nat
    BY <1>0, RankIs, DeskAssumption
  <2>2. \A f, g \in S : Rank(f) = Rank(g) => f = g
    BY <1>0, RankIs
  <2>. QED  BY <1>1, <2>1, <2>2 DEF Orders
<1>3. \A f \in S : PlaceIn(R, S, f) = Cardinality({g \in S : ~ (Rank(f) < Rank(g))})
  <2>. SUFFICES ASSUME NEW f \in S
                PROVE  {g \in S : <<f, g>> \notin R} = {g \in S : ~ (Rank(f) < Rank(g))}
    BY DEF PlaceIn
  <2>. QED  BY <1>1
<1>5. \A i \in 1 .. Cardinality(S), x \in S :
        PlaceIn(R, S, x) = i => at(i) \in S /\ PlaceIn(R, S, at(i)) = i
  BY <1>3
<1>. HIDE DEF at
<1>6. /\ s = [i \in 1 .. Cardinality(S) |-> s[i]]
      /\ \A i \in 1 .. Cardinality(S), x \in S :
           PlaceIn(R, S, x) = i => s[i] \in S /\ PlaceIn(R, S, s[i]) = i
  BY <1>4, <1>5
<1>7. IsOrder(s, S, R)
  BY <1>0, <1>2, <1>6, OrderIs
<1>. QED  BY <1>7, OrderOnce DEF IsOrder, S, s

-----------------------------------------------------------------------------
(* What the rules do to a document.                                          *)

LEMMA TagStep ==
  ASSUME NEW M, NEW W, NEW x \in M, NEW op, op.t = "tags", op.mids = {x}, op.add \in Seq(W)
  PROVE  IsMark(op, M, W, x, "tags")
<1>1. Recasts(op) = {}
  BY DEF Recasts
<1>. QED  BY <1>1 DEF IsMark, IsStep, Kind

LEMMA MarkStep ==
  ASSUME NEW M, NEW W, NEW x \in M, NEW op, NEW t \in {"ruled", "flags"}, op.t = t, op.mids = {x}
  PROVE  IsMark(op, M, W, x, t)
<1>1. Recasts(op) = {}
  BY DEF Recasts
<1>. QED  BY <1>1 DEF IsMark, IsStep, Kind

LEMMA MarkGains ==
  ASSUME NEW M, NEW W, IsFiniteSet(W), NEW d, IsData(d, M, W), NEW x \in M,
         NEW op, IsMark(op, M, W, x, "ruled"), NEW a, a = Apply(d, op)
  PROVE  /\ Gains(a, d, M, W, x) /\ Entry(a, x) = Seen(Entry(d, x))
         /\ x \in DOMAIN d.msgs /\ Entry(d, x).ruled = TRUE => a = d
<1>1. IsStep(op, M, W) /\ op.t = "ruled" /\ op.mids = {x} /\ Recasts(op) = {}
  BY DEF IsMark
<1>2. AfterRuled(a, d, M, W, op)
  BY <1>1, RuledOf
<1>3. Listed(d, {}) => Listed(a, {})
  BY <1>1, ApplyListed
<1>4. Gains(a, d, M, W, x) /\ Entry(a, x) = Seen(Entry(d, x))
  BY <1>1, <1>2, <1>3 DEF AfterRuled, Gains
<1>5. ASSUME x \in DOMAIN d.msgs, Entry(d, x).ruled = TRUE PROVE a = d
  <2>1. Seen(Entry(d, x)) = Entry(d, x)
    BY <1>5, EntryIs DEF Seen, Marks
  <2>2. \A y : Entry(a, y) = Entry(d, y)
    BY <1>1, <1>2, <2>1 DEF AfterRuled
  <2>3. IsData(a, M, W) /\ DOMAIN a.msgs = DOMAIN d.msgs /\ a.tags = d.tags /\ a.rules = d.rules /\ a.filters = d.filters
    BY <1>1, <1>2, <1>5 DEF AfterRuled
  <2>. QED  BY <2>2, <2>3, SameData
<1>. QED  BY <1>4, <1>5

LEMMA TagGains ==
  ASSUME NEW M, NEW W, IsFiniteSet(W), NEW d, IsData(d, M, W), NEW x \in M,
         NEW op, IsMark(op, M, W, x, "tags"), op.remove = {}, NEW a, a = Apply(d, op)
  PROVE  GainsTags(a, d, M, W, x, op.add)
<1>. DEFINE e == Entry(d, x)
            f == Entry(a, x)
<1>1. IsStep(op, M, W) /\ op.t = "tags" /\ op.mids = {x} /\ Recasts(op) = {} /\ op.add \in Seq(W)
  BY DEF IsMark, IsStep
<1>3. AfterTags(a, d, M, W, op)
  BY <1>1, TagsOf
<1>4. Listed(d, {}) => Listed(a, {})
  BY <1>1, ApplyListed
<1>5. e \in Marks(W)
  BY EntryIs
<1>. HIDE DEF e
<1>6. /\ Range(Tagged(e, op).tags) = (Range(e.tags) \ op.remove) \cup Range(op.add)
      /\ Tagged(e, op).read = e.read /\ Tagged(e, op).star = e.star /\ Tagged(e, op).ruled = e.ruled
  <2>1. op.add \in Seq(W)
    BY <1>1
  <2>. QED  BY <1>5, <2>1, TaggedOf, ZenonT(60)
<1>7. f = Tagged(e, op)
  BY <1>1, <1>3 DEF AfterTags, e
<1>. HIDE DEF f
<1>8. Gains(a, d, M, W, x)
  BY <1>1, <1>3, <1>4 DEF AfterTags, Gains
<1>9. ASSUME x \in DOMAIN d.msgs, Range(op.add) \subseteq Range(e.tags), Range(op.add) \subseteq DOMAIN d.tags
      PROVE  a = d
  <2>1. e.tags \in Seq(W) /\ Range(e.tags) \cap op.remove = {}
    BY <1>5 DEF Marks
  <2>2. Strip(e.tags, op.remove) = e.tags
    BY <2>1, StripNothing
  <2>3. FoldLeft(Enlist, e.tags, op.add) = e.tags
    BY <1>1, <1>9, <2>1, EnlistOf
  <2>4. Tagged(e, op) = e
    <3>1. Tagged(e, op) = [e EXCEPT !.tags = FoldLeft(Enlist, Strip(e.tags, op.remove), op.add)]
      BY DEF Tagged
    <3>. QED  BY <1>5, <2>2, <2>3, <3>1 DEF Marks
  <2>5. a.tags = d.tags
    <3>. DEFINE tags == d.tags
    <3>1. IsTags(tags, W) /\ Range(op.add) \subseteq DOMAIN tags
      BY <1>9 DEF IsData
    <3>. HIDE DEF tags
    <3>2. FoldLeft(Named, tags, op.add) = tags
      BY <1>1, <3>1, NamedOf
    <3>. QED  BY <1>3, <3>2 DEF AfterTags, tags
  <2>6. \A y : Entry(a, y) = Entry(d, y)
    BY <1>1, <1>3, <2>4 DEF AfterTags, e
  <2>7. IsData(a, M, W) /\ DOMAIN a.msgs = DOMAIN d.msgs /\ a.rules = d.rules /\ a.filters = d.filters
    BY <1>1, <1>3, <1>9 DEF AfterTags
  <2>. QED  BY <2>5, <2>6, <2>7, SameData
<1>10. Range(f.tags) = Range(e.tags) \cup Range(op.add)
  BY <1>6, <1>7
<1>. QED  BY <1>6, <1>7, <1>8, <1>9, <1>10 DEF e, f, GainsTags

LEMMA FlagGains ==
  ASSUME NEW M, NEW W, IsFiniteSet(W), NEW d, IsData(d, M, W), NEW x \in M,
         NEW op, IsMark(op, M, W, x, "flags"), op.read \in {{}, {TRUE}}, op.star \in {{}, {TRUE}},
         NEW a, a = Apply(d, op)
  PROVE  GainsFlags(a, d, M, W, x, op.read, op.star)
<1>. DEFINE e == Entry(d, x)
            f == Entry(a, x)
<1>1. IsStep(op, M, W) /\ op.t = "flags" /\ op.mids = {x} /\ Recasts(op) = {}
  BY DEF IsMark
<1>3. AfterFlags(a, d, M, W, op)
  BY <1>1, FlagsOf
<1>4. Listed(d, {}) => Listed(a, {})
  BY <1>1, ApplyListed
<1>5. e \in Marks(W)
  BY EntryIs
<1>. HIDE DEF e
<1>6. \A b : Set(b, op.read) = Raise(b, op.read) /\ Set(b, op.star) = Raise(b, op.star)
  <2>1. \A b : Set(b, {}) = b /\ Set(b, {TRUE}) = (TRUE \in {TRUE})
    BY DEF Set
  <2>2. (TRUE \in {TRUE}) = TRUE
    OBVIOUS
  <2>3. \A b : Raise(b, {}) = b /\ Raise(b, {TRUE}) = TRUE
    BY DEF Raise
  <2>. QED  BY <2>1, <2>2, <2>3
<1>7. Flagged(e, op) = [e EXCEPT !.read = Raise(e.read, op.read), !.star = Raise(e.star, op.star)]
  BY <1>6 DEF Flagged
<1>8. /\ Flagged(e, op).tags = e.tags /\ Flagged(e, op).ruled = e.ruled
      /\ Flagged(e, op).read = Raise(e.read, op.read)
      /\ Flagged(e, op).star = Raise(e.star, op.star)
  BY <1>5, <1>7 DEF Marks
<1>9. f = Flagged(e, op)
  BY <1>1, <1>3 DEF AfterFlags, e
<1>. HIDE DEF f
<1>10. Gains(a, d, M, W, x)
  BY <1>1, <1>3, <1>4 DEF AfterFlags, Gains
<1>11. ASSUME x \in DOMAIN d.msgs, op.read = {} \/ e.read = TRUE, op.star = {} \/ e.star = TRUE PROVE a = d
  <2>1. Flagged(e, op) = e
    <3>1. Raise(e.read, op.read) = e.read /\ Raise(e.star, op.star) = e.star
      BY <1>11 DEF Raise
    <3>. QED  BY <1>5, <1>7, <3>1 DEF Marks
  <2>2. \A y : Entry(a, y) = Entry(d, y)
    BY <1>1, <1>3, <2>1 DEF AfterFlags, e
  <2>3. IsData(a, M, W) /\ DOMAIN a.msgs = DOMAIN d.msgs /\ a.tags = d.tags /\ a.rules = d.rules /\ a.filters = d.filters
    BY <1>1, <1>3, <1>11 DEF AfterFlags
  <2>. QED  BY <2>2, <2>3, SameData
<1>. QED  BY <1>8, <1>9, <1>10, <1>11 DEF e, f, GainsFlags

LEMMA GainsTwice ==
  ASSUME NEW a, NEW b, NEW d, NEW M, NEW W, NEW x, Gains(b, d, M, W, x), Gains(a, b, M, W, x)
  PROVE  Gains(a, d, M, W, x)
<1>1. IsData(a, M, W) /\ a.rules = d.rules /\ a.filters = d.filters /\ DOMAIN d.tags \subseteq DOMAIN a.tags
  BY DEF Gains
<1>2. DOMAIN a.msgs = DOMAIN d.msgs \cup {x} /\ \A y : y # x => Entry(a, y) = Entry(d, y)
  BY DEF Gains
<1>3. Listed(d, {}) => Listed(a, {})
  BY DEF Gains
<1>. QED  BY <1>1, <1>2, <1>3 DEF Gains

LEMMA GainsNothing ==
  ASSUME NEW d, NEW M, NEW W, IsData(d, M, W), NEW x \in DOMAIN d.msgs
  PROVE  Gains(d, d, M, W, x)
<1>1. DOMAIN d.msgs = DOMAIN d.msgs \cup {x}
  OBVIOUS
<1>. QED  BY <1>1 DEF Gains

LEMMA TreatIs ==
  ASSUME NEW M, NEW W, IsFiniteSet(W), NEW d, IsData(d, M, W), Listed(d, {}), NEW x \in M,
         NEW hit, IsHit(hit, W), NEW a, a = Treat(d, x, hit)
  PROVE  /\ Gains(a, d, M, W, x) /\ Settled(Entry(a, x), hit)
         /\ Settled(Entry(d, x), hit) => a = d
<1>. DEFINE op1 == [t |-> "ruled", mids |-> {x}]
            b == Apply(d, op1)
            e == Entry(d, x)
<1>1. /\ Gains(b, d, M, W, x) /\ Entry(b, x) = Seen(e)
      /\ x \in DOMAIN d.msgs /\ e.ruled = TRUE => b = d
  <2>1. IsMark(op1, M, W, x, "ruled")
    <3>1. op1.t = "ruled" /\ op1.mids = {x}
      OBVIOUS
    <3>. HIDE DEF op1
    <3>. QED  BY <3>1, MarkStep
  <2>. HIDE DEF op1
  <2>. QED  BY <2>1, MarkGains
<1>2. e \in Marks(W) /\ (e.ruled = TRUE => x \in DOMAIN d.msgs)
  BY EntryIs DEF Entry, Fresh
<1>3. Entry(b, x).ruled = TRUE /\ Entry(b, x).tags = e.tags /\ Entry(b, x).read = e.read /\ Entry(b, x).star = e.star
  BY <1>1, <1>2 DEF Seen, Marks
<1>4. CASE hit = <<>>
  <2>1. a = b
    BY <1>4 DEF Treat
  <2>. HIDE DEF b
  <2>. QED  BY <1>1, <1>2, <1>3, <1>4, <2>1 DEF Settled
<1>5. CASE hit # <<>>
  <2>. DEFINE r == hit[1]
              op2 == [t |-> "tags", mids |-> {x}, add |-> r.tags, remove |-> {}]
              c == IF r.tags = <<>> THEN b ELSE Apply(b, op2)
              op3 == [t |-> "flags", mids |-> {x}, read |-> IF r.read THEN {TRUE} ELSE {},
                      star |-> IF r.star THEN {TRUE} ELSE {}]
  <2>1. a = Apply(c, op3)
    BY <1>5 DEF Treat
  <2>2. r.tags \in Seq(W) /\ r.read \in BOOLEAN /\ r.star \in BOOLEAN
    BY <1>5 DEF IsHit
  <2>3. IsData(b, M, W) /\ x \in DOMAIN b.msgs
    BY <1>1 DEF Gains
  <2>4. /\ op2.t = "tags" /\ op2.mids = {x} /\ op2.add = r.tags /\ op2.remove = {}
        /\ op3.t = "flags" /\ op3.mids = {x}
        /\ op3.read = (IF r.read THEN {TRUE} ELSE {}) /\ op3.star = (IF r.star THEN {TRUE} ELSE {})
    OBVIOUS
  <2>. HIDE DEF op1, b, r, op2, op3
  <2>5. /\ Gains(c, b, M, W, x)
        /\ Range(Entry(c, x).tags) = Range(Entry(b, x).tags) \cup Range(r.tags)
        /\ Entry(c, x).read = Entry(b, x).read /\ Entry(c, x).star = Entry(b, x).star
        /\ Entry(c, x).ruled = Entry(b, x).ruled
        /\ Range(r.tags) \subseteq Range(Entry(b, x).tags) \cap DOMAIN b.tags => c = b
    <3>1. CASE r.tags = <<>>
      <4>1. c = b /\ Range(r.tags) = {}
        BY <3>1 DEF Range
      <4>2. Gains(b, b, M, W, x)
        BY <2>3, GainsNothing
      <4>. QED  BY <4>1, <4>2
    <3>2. CASE r.tags # <<>>
      <4>1. c = Apply(b, op2)
        BY <3>2
      <4>2. IsMark(op2, M, W, x, "tags")
        BY <2>2, <2>4, TagStep
      <4>. HIDE DEF c
      <4>3. GainsTags(c, b, M, W, x, op2.add)
        BY <2>3, <2>4, <4>1, <4>2, TagGains
      <4>. QED  BY <2>3, <2>4, <4>3 DEF GainsTags
    <3>. QED  BY <3>1, <3>2
  <2>. HIDE DEF c
  <2>6. IsData(c, M, W) /\ x \in DOMAIN c.msgs
    BY <2>5 DEF Gains
  <2>7. op3.read \in {{}, {TRUE}} /\ op3.star \in {{}, {TRUE}}
    BY <2>4
  <2>8. IsMark(op3, M, W, x, "flags")
    BY <2>4, MarkStep
  <2>9. /\ Gains(a, c, M, W, x) /\ Entry(a, x).tags = Entry(c, x).tags /\ Entry(a, x).ruled = Entry(c, x).ruled
        /\ Entry(a, x).read = Raise(Entry(c, x).read, op3.read)
        /\ Entry(a, x).star = Raise(Entry(c, x).star, op3.star)
        /\ (op3.read = {} \/ Entry(c, x).read = TRUE) /\ (op3.star = {} \/ Entry(c, x).star = TRUE) => a = c
    <3>1. GainsFlags(a, c, M, W, x, op3.read, op3.star)
      BY <2>1, <2>6, <2>7, <2>8, FlagGains
    <3>. QED  BY <2>6, <3>1 DEF GainsFlags
  <2>10. Gains(a, d, M, W, x)
    BY <1>1, <2>5, <2>9, GainsTwice
  <2>11. Settled(Entry(a, x), hit)
    <3>1. Entry(a, x).ruled = TRUE /\ Range(r.tags) \subseteq Range(Entry(a, x).tags)
      BY <1>3, <2>5, <2>9
    <3>2. (r.read => Entry(a, x).read = TRUE) /\ (r.star => Entry(a, x).star = TRUE)
      BY <2>4, <2>9 DEF Raise
    <3>. QED  BY <3>1, <3>2 DEF Settled, r
  <2>12. ASSUME Settled(e, hit) PROVE a = d
    <3>1. /\ e.ruled = TRUE /\ Range(r.tags) \subseteq Range(e.tags)
          /\ (r.read => e.read = TRUE) /\ (r.star => e.star = TRUE)
      BY <1>5, <2>12 DEF Settled, r
    <3>2. b = d
      BY <1>1, <1>2, <3>1
    <3>3. Range(e.tags) \subseteq DOMAIN d.tags
      BY DEF Listed
    <3>4. c = b
      BY <1>3, <2>5, <3>1, <3>2, <3>3
    <3>5. (op3.read = {} \/ Entry(c, x).read = TRUE) /\ (op3.star = {} \/ Entry(c, x).star = TRUE)
      BY <2>4, <3>1, <3>2, <3>4
    <3>. QED  BY <2>9, <3>2, <3>4, <3>5
  <2>. QED  BY <2>10, <2>11, <2>12
<1>. QED  BY <1>4, <1>5

LEMMA TreatedMore ==
  ASSUME NEW M, NEW W, IsFiniteSet(W), NEW d, NEW plan, NEW ms, NEW b, Treated(b, d, M, W, plan, ms),
         NEW x \in M, IsHit(plan[x], W), NEW a, a = Treat(b, x, plan[x])
  PROVE  Treated(a, d, M, W, plan, ms \cup {x})
<1>. DEFINE hit == plan[x]
<1>1. IsData(b, M, W) /\ Listed(b, {})
  BY DEF Treated
<1>2. Gains(a, b, M, W, x) /\ Settled(Entry(a, x), plan[x]) /\ (Settled(Entry(b, x), plan[x]) => a = b)
  <2>1. IsHit(hit, W) /\ a = Treat(b, x, hit)
    OBVIOUS
  <2>. HIDE DEF hit
  <2>2. Gains(a, b, M, W, x) /\ Settled(Entry(a, x), hit) /\ (Settled(Entry(b, x), hit) => a = b)
    BY <1>1, <2>1, TreatIs
  <2>. QED  BY <2>2 DEF hit
<1>3. /\ IsData(a, M, W) /\ Listed(a, {}) /\ a.rules = d.rules /\ a.filters = d.filters
      /\ DOMAIN a.msgs = DOMAIN d.msgs \cup (ms \cup {x})
  BY <1>1, <1>2 DEF Gains, Treated
<1>4. ASSUME NEW y \in ms \cup {x} PROVE Settled(Entry(a, y), plan[y])
  BY <1>2 DEF Gains, Treated
<1>5. ASSUME NEW y, y \notin ms \cup {x} PROVE Entry(a, y) = Entry(d, y)
  BY <1>2, <1>5 DEF Gains, Treated
<1>6. ASSUME \A y \in ms \cup {x} : Settled(Entry(d, y), plan[y]) PROVE a = d
  <2>1. b = d
    BY <1>6 DEF Treated
  <2>. QED  BY <1>2, <1>6, <2>1
<1>. QED  BY <1>3, <1>4, <1>5, <1>6 DEF Treated

LEMMA RuledDocIs ==
  ASSUME NEW M, NEW W, IsFiniteSet(W), NEW d, IsData(d, M, W), Listed(d, {}),
         NEW plan, IsPlan(plan, M, W)
  PROVE  Treated(RuledDoc(d, plan), d, M, W, plan, DOMAIN plan)
<1>. DEFINE list == ByKey(DOMAIN plan)
            done(k) == {list[j] : j \in 1 .. k}
<1>1. list \in Seq(DOMAIN plan) /\ Range(list) = DOMAIN plan
  BY ByKeyIs DEF IsPlan
<1>2. RuledDoc(d, plan) = FoldLeft(LAMBDA e, x : Treat(e, x, plan[x]), d, list)
  BY DEF RuledDoc
<1>. HIDE DEF list
<1>3. PICK g : Treating(g, d, list, plan)
  BY <1>1, TreatSteps
<1>4. /\ g[0] = d /\ \A k \in 1 .. Len(list) : g[k] = Treat(g[k - 1], list[k], plan[list[k]])
      /\ RuledDoc(d, plan) = g[Len(list)]
  BY <1>2, <1>3 DEF Treating
<1>5. /\ done(0) = {} /\ Range(list) = done(Len(list))
      /\ \A k \in 1 .. Len(list) : list[k] \in DOMAIN plan /\ done(k) = done(k - 1) \cup {list[k]}
  <2>. DEFINE S == DOMAIN plan
  <2>1. list \in Seq(S)
    BY <1>1
  <2>. HIDE DEF S
  <2>2. /\ done(0) = {} /\ Range(list) = done(Len(list))
        /\ \A k \in 1 .. Len(list) : list[k] \in S /\ done(k) = done(k - 1) \cup {list[k]}
    BY <2>1, FirstPlaces
  <2>. QED  BY <2>2 DEF S
<1>. DEFINE T == {k \in 0 .. Len(list) : Treated(g[k], d, M, W, plan, done(k))}
<1>. HIDE DEF done
<1>6. Treated(g[0], d, M, W, plan, done(0))
  BY <1>4, <1>5 DEF Treated
<1>7. ASSUME NEW k \in 1 .. Len(list), k - 1 \in T PROVE k \in T
  <2>1. Treated(g[k - 1], d, M, W, plan, done(k - 1))
    BY <1>7
  <2>2. list[k] \in M /\ IsHit(plan[list[k]], W)
    BY <1>5 DEF IsPlan
  <2>3. g[k] = Treat(g[k - 1], list[k], plan[list[k]])
    BY <1>4
  <2>4. Treated(g[k], d, M, W, plan, done(k - 1) \cup {list[k]})
    BY <2>1, <2>2, <2>3, TreatedMore
  <2>5. Treated(g[k], d, M, W, plan, done(k))
    BY <1>5, <2>4
  <2>. QED  BY <2>5
<1>8. Len(list) \in Nat /\ 0 \in T
  BY <1>1, <1>6
<1>9. Len(list) \in T
  <2>. HIDE DEF T
  <2>1. \A k \in 0 .. Len(list) : k \in T
    BY <1>7, <1>8, ByCounting
  <2>. QED  BY <1>8, <2>1
<1>10. Treated(g[Len(list)], d, M, W, plan, done(Len(list)))
  BY <1>9
<1>. QED  BY <1>1, <1>4, <1>5, <1>10

-----------------------------------------------------------------------------
(* Rules.                                                                    *)

LEMMA SystemIs ==
  /\ {Inbox, Trash, Spam, Sent, Drafts} \subseteq Folder /\ Inbox \in Range(SystemFolders)
  /\ SystemFolders \in Seq(Folder) /\ Range(SystemFolders) = {Inbox, Drafts, Sent, "archiv", Spam, Trash}
<1>1. /\ DOMAIN SystemFolders = 1 .. 6 /\ SystemFolders[1] = Inbox /\ SystemFolders[2] = Drafts
      /\ SystemFolders[3] = Sent /\ SystemFolders[4] = "archiv" /\ SystemFolders[5] = Spam
      /\ SystemFolders[6] = Trash
  BY DEF SystemFolders
<1>2. Range(SystemFolders) = {Inbox, Drafts, Sent, "archiv", Spam, Trash}
  <2>1. \A i : i \in 1 .. 6 <=> i \in {1, 2, 3, 4, 5, 6}
    OBVIOUS
  <2>. QED  BY <1>1, <2>1 DEF Range
<1>3. Range(SystemFolders) \subseteq Folder
  BY DeskAssumption
<1>4. SystemFolders \in Seq(Folder)
  BY <1>2, <1>3 DEF SystemFolders
<1>. QED  BY <1>2, <1>3, <1>4

\* One folder has the most of some messages and is the first of those that have.
LEMMA StrongestIs ==
  ASSUME NEW S, IsFiniteSet(S), NEW idx
  PROVE  Strongest(idx, S) \in Folder
<1>. DEFINE n == [f \in Folder |-> Cardinality({x \in S : idx[x].folder = f})]
            Wins(f) == \A g \in Folder : n[f] > n[g] \/ (n[f] = n[g] /\ Rank(f) <= Rank(g))
            all == Cardinality(S)
<1>1. Strongest(idx, S) = CHOOSE f \in Folder : Wins(f)
  BY DEF Strongest
<1>2. \A f \in Folder : n[f] \in Nat /\ n[f] <= all
  <2>. SUFFICES ASSUME NEW f \in Folder PROVE n[f] \in Nat /\ n[f] <= all
    OBVIOUS
  <2>. DEFINE here == {x \in S : idx[x].folder = f}
  <2>1. here \in SUBSET S
    OBVIOUS
  <2>2. n[f] = Cardinality(here)
    OBVIOUS
  <2>. HIDE DEF here, n
  <2>. QED  BY <2>1, <2>2, FS_Subset, FS_CardinalityType
<1>3. all \in Nat
  BY FS_CardinalityType
<1>. HIDE DEF n, all
<1>4. \A f \in Folder : Rank(f) \in Nat
  <2>1. Len(Names) \in Nat
    BY DeskAssumption
  <2>. QED  BY <2>1, RankIs
<1>5. PICK c \in {k \in Nat : \E f \in Folder : k = all - n[f]} :
        \A k \in {k \in Nat : \E f \in Folder : k = all - n[f]} : c <= k
  <2>. DEFINE T == {k \in Nat : \E f \in Folder : k = all - n[f]}
  <2>1. T # {}
    <3>1. all - n[Inbox] \in Nat /\ Inbox \in Folder
      BY <1>2, <1>3, SystemIs
    <3>. QED  BY <3>1
  <2>2. T \in SUBSET Nat
    OBVIOUS
  <2>. HIDE DEF T
  <2>3. \E c \in T : \A k \in T : c <= k
    BY <2>1, <2>2, LeastNumber
  <2>. QED  BY <2>3 DEF T
<1>6. \A f \in Folder : n[f] <= all - c
  <2>. SUFFICES ASSUME NEW f \in Folder PROVE n[f] <= all - c
    OBVIOUS
  <2>1. all - n[f] \in Nat
    BY <1>2, <1>3
  <2>2. c <= all - n[f]
    BY <1>5, <2>1
  <2>. QED  BY <1>2, <1>3, <2>2
<1>. DEFINE Best == {f \in Folder : n[f] = all - c}
<1>7. Best # {}
  <2>1. PICK f \in Folder : c = all - n[f]
    OBVIOUS
  <2>. QED  BY <1>2, <1>3, <2>1
<1>8. PICK r \in {Rank(f) : f \in Best} : \A k \in {Rank(f) : f \in Best} : r <= k
  <2>. DEFINE T == {Rank(f) : f \in Best}
  <2>1. T # {} /\ T \in SUBSET Nat
    BY <1>4, <1>7
  <2>. HIDE DEF T
  <2>2. \E c2 \in T : \A k \in T : c2 <= k
    BY <2>1, LeastNumber
  <2>. QED  BY <2>2 DEF T
<1>9. PICK f \in Best : r = Rank(f)
  OBVIOUS
<1>10. Wins(f)
  <2>. SUFFICES ASSUME NEW g \in Folder PROVE n[f] > n[g] \/ (n[f] = n[g] /\ Rank(f) <= Rank(g))
    OBVIOUS
  <2>1. n[g] <= n[f] /\ n[g] \in Nat /\ n[f] \in Nat
    BY <1>2, <1>6
  <2>2. n[g] = n[f] => Rank(f) <= Rank(g)
    BY <1>8, <1>9
  <2>. QED  BY <2>1, <2>2
<1>11. f \in Folder /\ Wins(f)
  BY <1>10
<1>. HIDE DEF Wins
<1>. QED  BY <1>1, <1>11

LEMMA OfferedIs ==
  ASSUME NEW r \in Offered
  PROVE  /\ r = [field |-> r.field, contains |-> r.contains, folder |-> r.folder, tags |-> r.tags,
                 star |-> r.star, read |-> r.read, enabled |-> r.enabled]
         /\ r.field \in Fields /\ r.contains \in Needles /\ r.tags \in Seq(Labels)
         /\ r.star \in BOOLEAN /\ r.read \in BOOLEAN /\ r.enabled \in BOOLEAN
         /\ r.folder \subseteq Folder => r \in Rules
<1>1. r = [field |-> r.field, contains |-> r.contains, folder |-> r.folder, tags |-> r.tags,
           star |-> r.star, read |-> r.read, enabled |-> r.enabled]
  BY DeskAssumption
<1>2. r.tags \in Seq(Labels) /\ {r.star, r.read, r.enabled} \subseteq BOOLEAN
  BY DeskAssumption
<1>3. r.field \in Fields /\ r.contains \in Needles
  BY DEF Fields, Needles
<1>. HIDE DEF Fields, Needles
<1>4. r.star \in BOOLEAN /\ r.read \in BOOLEAN /\ r.enabled \in BOOLEAN
  BY <1>2
<1>. QED  BY <1>1, <1>2, <1>3, <1>4 DEF Rules

-----------------------------------------------------------------------------
(* The sidebar's folders.                                                    *)

LEMMA ConcatIs ==
  ASSUME NEW S, NEW a \in Seq(S), NEW b \in Seq(S)
  PROVE  /\ a \o b \in Seq(S) /\ Len(a \o b) = Len(a) + Len(b) /\ DOMAIN (a \o b) = 1 .. Len(a) + Len(b)
         /\ \A i \in 1 .. Len(a) + Len(b) : (a \o b)[i] = IF i <= Len(a) THEN a[i] ELSE b[i - Len(a)]
<1>1. a \o b \in Seq(S) /\ Len(a \o b) = Len(a) + Len(b)
  OBVIOUS
<1>2. DOMAIN (a \o b) = 1 .. Len(a) + Len(b)
  BY <1>1
<1>3. \A i \in 1 .. Len(a) + Len(b) : (a \o b)[i] = IF i <= Len(a) THEN a[i] ELSE b[i - Len(a)]
  OBVIOUS
<1>. QED  BY <1>1, <1>2, <1>3

LEMMA SideIs == ASSUME NEW f, NEW idx, NEW d PROVE Side(f, idx, d).name = f
<1>. DEFINE c == Cardinality({x \in DOMAIN idx : idx[x].folder = f})
            u == Cardinality({x \in {x \in DOMAIN idx : idx[x].folder = f} : ~Entry(d, x).read})
<1>1. Side(f, idx, d) = [name |-> f, count |-> c, unread |-> u]
  BY DEF Side
<1>. HIDE DEF c, u
<1>. QED  BY <1>1

LEMMA FoldersAre ==
  ASSUME NEW idx, NEW d, IsFiniteSet(DOMAIN idx), \A x \in DOMAIN idx : idx[x].folder \in Folder
  PROVE  LET names == SideNames(idx, d)
         IN /\ names \in Seq(Folder) /\ DOMAIN Folders(idx, d) = 1 .. Len(names)
            /\ \A x \in DOMAIN idx : idx[x].folder \in Range(names)
            /\ \A i, j \in 1 .. Len(names) : names[i] = names[j] => i = j
            /\ \A i \in 1 .. Len(names) : Folders(idx, d)[i] = Side(names[i], idx, d)
<1>. DEFINE own == {idx[x].folder : x \in DOMAIN idx} \ Range(SystemFolders)
            s == OwnFolders(idx, d)
            names == SideNames(idx, d)
<1>1. s \in Seq(own) /\ Range(s) = own /\ \A i, j \in 1 .. Len(s) : s[i] = s[j] => i = j
  BY OwnIs
<1>2. own \subseteq Folder
  OBVIOUS
<1>3. names = SystemFolders \o s
  BY DEF SideNames
<1>. DEFINE k == Len(s)
<1>4. s \in Seq(Folder) /\ k \in Nat /\ DOMAIN s = 1 .. k /\ \A i \in 1 .. k : s[i] \in own
  <2>. HIDE DEF s, own
  <2>. QED  BY <1>1, <1>2
<1>5. Folders(idx, d) = [i \in DOMAIN names |-> Side(names[i], idx, d)]
  BY DEF Folders, Keys, Side, SideNames
<1>. HIDE DEF s, names
<1>6. SystemFolders \in Seq(Folder) /\ Len(SystemFolders) = 6
  BY SystemIs DEF SystemFolders
<1>7. /\ names \in Seq(Folder) /\ Len(names) = 6 + k /\ DOMAIN names = 1 .. 6 + k
      /\ \A i \in 1 .. 6 : names[i] = SystemFolders[i]
      /\ \A i \in 1 .. 6 + k : i > 6 => i - 6 \in 1 .. k /\ names[i] = s[i - 6]
  <2>. DEFINE a == SystemFolders
  <2>1. names = a \o s /\ a \in Seq(Folder) /\ Len(a) = 6
    BY <1>3, <1>6
  <2>. HIDE DEF a, k
  <2>2. s \in Seq(Folder) /\ Len(s) = k /\ k \in Nat
    BY <1>4 DEF k
  <2>2a. a \in Seq(Folder) /\ s \in Seq(Folder)
    BY <2>1, <2>2
  <2>2b. /\ a \o s \in Seq(Folder) /\ Len(a \o s) = Len(a) + Len(s) /\ DOMAIN (a \o s) = 1 .. Len(a) + Len(s)
         /\ \A i \in 1 .. Len(a) + Len(s) : (a \o s)[i] = IF i <= Len(a) THEN a[i] ELSE s[i - Len(a)]
    BY <2>2a, ConcatIs, Zenon
  <2>3. names \in Seq(Folder) /\ Len(names) = 6 + k
    BY <2>1, <2>2, <2>2b
  <2>4. \A i \in 1 .. 6 + k : names[i] = IF i <= 6 THEN a[i] ELSE s[i - 6]
    BY <2>1, <2>2, <2>2b
  <2>5. DOMAIN names = 1 .. 6 + k
    BY <2>3, <2>2
  <2>6. \A i \in 1 .. 6 : i \in 1 .. 6 + k /\ i <= 6
    BY <2>2
  <2>7. \A i \in 1 .. 6 + k : i > 6 => i - 6 \in 1 .. k /\ ~ (i <= 6)
    BY <2>2
  <2>. QED  BY <2>3, <2>4, <2>5, <2>6, <2>7 DEF a
<1>8. /\ \A i \in 1 .. 6 : SystemFolders[i] \in Range(SystemFolders)
      /\ \A i, j \in 1 .. 6 : SystemFolders[i] = SystemFolders[j] => i = j
  <2>1. DOMAIN SystemFolders = 1 .. 6
    BY DEF SystemFolders
  <2>2. \A i \in 1 .. 6 : SystemFolders[i] \in Range(SystemFolders)
    BY <2>1 DEF Range
  <2>3. \A i, j \in 1 .. 6 : SystemFolders[i] = SystemFolders[j] => i = j
    <3>1. /\ SystemFolders[1] = "" /\ SystemFolders[2] = "drafts" /\ SystemFolders[3] = "sent"
          /\ SystemFolders[4] = "archiv" /\ SystemFolders[5] = "spam" /\ SystemFolders[6] = "trash"
      BY DEF SystemFolders, Inbox, Trash, Spam, Sent, Drafts
    <3>2. \A i \in 1 .. 6 : i \in {1, 2, 3, 4, 5, 6}
      OBVIOUS
    <3>. QED  BY <3>1, <3>2
  <2>. QED  BY <2>2, <2>3
<1>9. ASSUME NEW i \in 1 .. 6 + k, NEW j \in 1 .. 6 + k, names[i] = names[j] PROVE i = j
  <2>1. CASE i <= 6 /\ j <= 6
    BY <1>4, <1>7, <1>8, <1>9, <2>1
  <2>2. CASE i > 6 /\ j > 6
    <3>1. i - 6 \in 1 .. k /\ j - 6 \in 1 .. k /\ s[i - 6] = s[j - 6]
      BY <1>4, <1>7, <1>9, <2>2
    <3>2. i - 6 = j - 6
      BY <1>1, <3>1
    <3>. QED  BY <1>4, <3>2
  <2>3. CASE i <= 6 /\ j > 6
    <3>1. names[i] \in Range(SystemFolders) /\ names[j] \in own
      BY SMTT(60), <1>4, <1>7, <1>8, <2>3
    <3>. QED  BY <1>9, <3>1
  <2>4. CASE i > 6 /\ j <= 6
    <3>1. names[j] \in Range(SystemFolders) /\ names[i] \in own
      BY <1>4, <1>7, <1>8, <2>4
    <3>. QED  BY <1>9, <3>1
  <2>. QED  BY <1>4, <2>1, <2>2, <2>3, <2>4
<1>10. ASSUME NEW f, f \in own \/ f \in Range(SystemFolders) PROVE f \in Range(names)
  <2>1. CASE f \in own
    <3>0. f \in Range(s)
      BY <1>1, <2>1
    <3>1. PICK i \in 1 .. k : f = s[i]
      <4>1. DOMAIN s = 1 .. k
        BY <1>4
      <4>. HIDE DEF own, k
      <4>. QED  BY <3>0, <4>1 DEF Range
    <3>2. i + 6 \in 1 .. 6 + k /\ i + 6 > 6 /\ (i + 6) - 6 = i
      BY <1>4
    <3>3. names[i + 6] = f
      BY <1>7, <3>1, <3>2
    <3>. QED  BY <1>7, <3>2, <3>3 DEF Range
  <2>2. CASE f \in Range(SystemFolders)
    <3>1. DOMAIN SystemFolders = 1 .. 6
      BY DEF SystemFolders
    <3>2. PICK i \in 1 .. 6 : f = SystemFolders[i]
      BY <2>2, <3>1 DEF Range
    <3>3. i \in 1 .. 6 + k /\ names[i] = f
      BY <1>4, <1>7, <3>2
    <3>. QED  BY <1>7, <3>3 DEF Range
  <2>. QED  BY <1>10, <2>1, <2>2
<1>11. \A x \in DOMAIN idx : idx[x].folder \in own \/ idx[x].folder \in Range(SystemFolders)
  OBVIOUS
<1>. HIDE DEF own
<1>12. \A x \in DOMAIN idx : idx[x].folder \in Range(names)
  BY <1>10, <1>11
<1>. QED  BY <1>5, <1>7, <1>9, <1>12 DEF names

-----------------------------------------------------------------------------
(* What may be saved, and what becomes of it.                                *)

LEMMA CleanRuleIs ==
  ASSUME NEW r \in Rules
  PROVE  CleanRule(r) \in Rules /\ CleanRule(r).contains = r.contains
<1>. DEFINE field == IF r.field \in {"from", "to", "subject"} THEN r.field ELSE "any"
            tags  == IF Len(r.tags) > MaxTags THEN SubSeq(r.tags, 1, MaxTags) ELSE r.tags
<1>1. CleanRule(r) = [r EXCEPT !.field = field, !.tags = tags]
  BY DEF CleanRule
<1>2. field \in Fields
  BY DEF Rules, Fields
<1>3. tags \in Seq(Labels)
  <2>. DEFINE t == r.tags
  <2>1. t \in Seq(Labels) /\ MaxTags \in Nat
    BY DeskAssumption DEF Rules
  <2>2. tags = IF Len(t) > MaxTags THEN SubSeq(t, 1, MaxTags) ELSE t
    OBVIOUS
  <2>. HIDE DEF t, tags
  <2>. QED  BY <2>1, <2>2
<1>. HIDE DEF field, tags
<1>. QED  BY <1>1, <1>2, <1>3 DEF Rules

LEMMA CleanRulesAre ==
  ASSUME NEW rules \in Seq(Rules)
  PROVE  CleanRules(rules) \in Seq(Rules) /\ \A r \in Range(CleanRules(rules)) : r.contains # Blank
<1>. DEFINE gone == {r \in Range(rules) : r.contains = Blank}
            kept == Strip(rules, gone)
            clean == CleanRules(rules)
<1>1. clean = [i \in DOMAIN kept |-> CleanRule(kept[i])]
  BY DEF CleanRules
<1>2. kept \in Seq(Rules) /\ Range(kept) = Range(rules) \ gone
  BY StripOf
<1>3. \A r \in Range(kept) : r.contains # Blank
  BY <1>2
<1>. HIDE DEF kept, clean
<1>4. /\ Len(kept) \in Nat /\ DOMAIN kept = 1 .. Len(kept)
      /\ \A i \in 1 .. Len(kept) : kept[i] \in Rules /\ kept[i] \in Range(kept)
  BY <1>2 DEF Range
<1>5. \A i \in 1 .. Len(kept) : CleanRule(kept[i]) \in Rules /\ CleanRule(kept[i]).contains = kept[i].contains
  BY <1>4, CleanRuleIs
<1>6. clean \in Seq(Rules)
  BY <1>1, <1>4, <1>5
<1>7. \A r \in Range(clean) : r.contains # Blank
  BY <1>1, <1>3, <1>4, <1>5 DEF Range
<1>. QED  BY <1>6, <1>7 DEF clean

LEMMA RowIs ==
  ASSUME NEW r \in Offered \cup Rules, IsFiniteSet(DOMAIN index), \A x \in DOMAIN index : index[x].folder \in Folder
  PROVE  Row(r) \in Rules /\ Row(r).contains = r.contains
<1>. DEFINE folder == {f \in r.folder : \E e \in Range(Folders(index, doc)) : e.name = f}
<1>1. folder \subseteq Folder
  <2>. DEFINE names == SideNames(index, doc)
  <2>1. /\ names \in Seq(Folder) /\ DOMAIN Folders(index, doc) = 1 .. Len(names)
        /\ \A i \in 1 .. Len(names) : Folders(index, doc)[i] = Side(names[i], index, doc)
    BY FoldersAre
  <2>. HIDE DEF names
  <2>2. \A i \in 1 .. Len(names) : Folders(index, doc)[i].name = names[i] /\ names[i] \in Folder
    BY <2>1, SideIs
  <2>. QED  BY <2>1, <2>2 DEF Range
<1>2. Row(r) = [r EXCEPT !.folder = folder, !.star = FALSE, !.read = FALSE, !.enabled = TRUE]
  BY DEF Row
<1>. HIDE DEF folder
<1>3. CASE r \in Rules
  BY <1>1, <1>2, <1>3 DEF Rules
<1>4. CASE r \in Offered
  <2>1. /\ r = [field |-> r.field, contains |-> r.contains, folder |-> r.folder, tags |-> r.tags,
                star |-> r.star, read |-> r.read, enabled |-> r.enabled]
        /\ r.field \in Fields /\ r.contains \in Needles /\ r.tags \in Seq(Labels)
    BY <1>4, OfferedIs
  <2>2. Row(r) = [field |-> r.field, contains |-> r.contains, folder |-> folder, tags |-> r.tags,
                  star |-> FALSE, read |-> FALSE, enabled |-> TRUE]
    BY <1>2, <2>1
  <2>. QED  BY <1>1, <2>1, <2>2 DEF Rules
<1>. QED  BY <1>3, <1>4

LEMMA RowsAre ==
  ASSUME NEW rules \in Seq(Offered \cup Rules), IsFiniteSet(DOMAIN index),
         \A x \in DOMAIN index : index[x].folder \in Folder
  PROVE  Rows(rules) \in Seq(Rules) /\ Len(Rows(rules)) = Len(rules)
<1>1. Len(rules) \in Nat /\ DOMAIN rules = 1 .. Len(rules) /\ \A i \in 1 .. Len(rules) : rules[i] \in Offered \cup Rules
  OBVIOUS
<1>2. \A i \in 1 .. Len(rules) : Row(rules[i]) \in Rules
  BY <1>1, RowIs
<1>. QED  BY <1>1, <1>2 DEF Rows

LEMMA SuggestedIs ==
  ASSUME NEW idx, IsFiniteSet(DOMAIN idx), NEW rules, NEW s \in Suggest(idx, rules)
  PROVE  /\ s.contains \in Addr /\ s.folder \in Folder /\ ~Covered(rules, s.contains)
         /\ Suggested(s) \in Rules
<1>. DEFINE sug(a) == [contains |-> a, folder |-> Strongest(idx, Evidence(idx, a)),
                       count |-> Cardinality(Evidence(idx, a)),
                       agree |-> Cardinality({x \in Evidence(idx, a) : idx[x].folder = Strongest(idx, Evidence(idx, a))})]
<1>1. PICK a \in Addr : s.contains = a /\ s.folder = Strongest(idx, Evidence(idx, a))
  <2>1. s \in {sug(a) : a \in Addr}
    BY DEF Suggest
  <2>2. PICK a \in Addr : s = sug(a)
    BY <2>1
  <2>. DEFINE S == Evidence(idx, a)
              f == Strongest(idx, S)
              c == Cardinality(S)
              g == Cardinality({x \in S : idx[x].folder = f})
  <2>3. s = [contains |-> a, folder |-> f, count |-> c, agree |-> g]
    BY <2>2
  <2>. HIDE DEF f, c, g
  <2>4. s.contains = a /\ s.folder = f
    BY <2>3
  <2>. QED  BY <2>4 DEF f
<1>2. ~Covered(rules, s.contains)
  BY DEF Suggest
<1>3. s.folder \in Folder
  <2>. DEFINE S == Evidence(idx, a)
  <2>1. S \in SUBSET DOMAIN idx
    BY DEF Evidence, Keys
  <2>. HIDE DEF S
  <2>2. IsFiniteSet(S)
    BY <2>1, FS_Subset
  <2>3. Strongest(idx, S) \in Folder
    BY <2>2, StrongestIs
  <2>. QED  BY <1>1, <2>3 DEF S
<1>4. a \in Needles /\ "from" \in Fields /\ <<>> \in Seq(Labels) /\ {s.folder} \in SUBSET Folder
  BY <1>3 DEF Needles, Fields
<1>5. Suggested(s) \in Rules
  BY <1>1, <1>4 DEF Suggested, Rules
<1>. QED  BY <1>1, <1>2, <1>3, <1>5

-----------------------------------------------------------------------------
(* Saved searches.                                                           *)

LEMMA PagesAre ==
  ASSUME NEW p \in Pages
  PROVE  /\ p = [name |-> p.name, query |-> p.query]
         /\ Cut[Cut[p.name]] = Cut[p.name] /\ (p.name # Blank => Cut[p.name] # Blank)
         /\ [p EXCEPT !.name = Cut[@]] \in Pages
<1>1. CASE p \in ToSave
  BY <1>1, DeskAssumption DEF Pages
<1>2. CASE p \notin ToSave
  <2>1. PICK f \in ToSave : p = [f EXCEPT !.name = Cut[@]]
    BY <1>2 DEF Pages
  <2>2. /\ f = [name |-> f.name, query |-> f.query]
        /\ Cut[Cut[f.name]] = Cut[f.name] /\ (f.name # Blank => Cut[f.name] # Blank)
    BY DeskAssumption
  <2>3. p = [name |-> Cut[f.name], query |-> f.query]
    BY <2>1, <2>2
  <2>4. p.name = Cut[f.name] /\ Cut[p.name] = p.name
    BY <2>2, <2>3
  <2>5. [p EXCEPT !.name = Cut[@]] = p
    BY <2>3, <2>4
  <2>. QED  BY <2>3, <2>4, <2>5
<1>. QED  BY <1>1, <1>2

LEMMA DistinctMore ==
  ASSUME NEW fs \in Seq(Pages), Distinct(fs), NEW f \in Pages,
         \A i \in 1 .. Len(fs) : Lower[fs[i].name] # Lower[f.name]
  PROVE  Distinct(Append(fs, f))
<1>. DEFINE n == Len(fs)
            s == Append(fs, f)
<1>1. /\ n \in Nat /\ Len(s) = n + 1 /\ s[n + 1] = f /\ \A i \in 1 .. n : s[i] = fs[i]
      /\ \A i \in 1 .. n + 1 : i \in 1 .. n \/ i = n + 1
  OBVIOUS
<1>. HIDE DEF s, n
<1>2. ASSUME NEW i \in 1 .. n + 1, NEW j \in 1 .. n + 1, Lower[s[i].name] = Lower[s[j].name] PROVE i = j
  <2>1. CASE i \in 1 .. n /\ j \in 1 .. n
    BY <1>1, <1>2, <2>1 DEF Distinct, n
  <2>2. CASE i \in 1 .. n /\ j = n + 1
    BY <1>1, <1>2, <2>2 DEF n
  <2>3. CASE i = n + 1 /\ j \in 1 .. n
    BY <1>1, <1>2, <2>3 DEF n
  <2>. QED  BY <1>1, <2>1, <2>2, <2>3
<1>. QED  BY <1>1, <1>2 DEF Distinct, s

LEMMA AcceptKeeps ==
  ASSUME NEW fs, CleanOnes(fs), NEW f \in Pages
  PROVE  CleanOnes(Accept(fs, f))
<1>. DEFINE c == [f EXCEPT !.name = Cut[@]]
<1>1. c = [name |-> Cut[f.name], query |-> f.query] /\ c \in Pages
  BY PagesAre
<1>2. Cut[Cut[f.name]] = Cut[f.name] /\ (f.name # Blank => Cut[f.name] # Blank)
  BY PagesAre
<1>3. CASE \/ f.name = Blank \/ f.query = Blank \/ Len(fs) = MaxFilters
           \/ \E g \in Range(fs) : Lower[g.name] = Lower[Cut[f.name]]
  BY <1>3 DEF Accept
<1>4. CASE ~ (\/ f.name = Blank \/ f.query = Blank \/ Len(fs) = MaxFilters
              \/ \E g \in Range(fs) : Lower[g.name] = Lower[Cut[f.name]])
  <2>1. Accept(fs, f) = Append(fs, c)
    BY <1>4 DEF Accept
  <2>. HIDE DEF c
  <2>2. c.name = Cut[f.name] /\ c.query = f.query
    BY <1>1
  <2>3. fs \in Seq(Pages) /\ Len(fs) \in Nat /\ DOMAIN fs = 1 .. Len(fs) /\ Len(fs) <= MaxFilters /\ MaxFilters \in Nat
    BY SMTT(60), DeskAssumption DEF CleanOnes
  <2>4. \A i \in 1 .. Len(fs) : Lower[fs[i].name] # Lower[c.name]
    BY <1>4, <2>2, <2>3 DEF Range
  <2>5. Distinct(Append(fs, c))
    BY <1>1, <2>3, <2>4, DistinctMore DEF CleanOnes
  <2>6. Append(fs, c) \in Seq(Pages) /\ Len(Append(fs, c)) = Len(fs) + 1 /\ Len(fs) + 1 <= MaxFilters
    BY <1>1, <1>4, <2>3
  <2>7. \A i \in 1 .. Len(fs) + 1 : Append(fs, c)[i] = IF i = Len(fs) + 1 THEN c ELSE fs[i]
    BY <2>3
  <2>8. ASSUME NEW i \in 1 .. Len(fs) + 1
        PROVE  LET p == Append(fs, c)[i] IN p.name # Blank /\ p.query # Blank /\ Cut[p.name] = p.name
    <3>1. CASE i = Len(fs) + 1
      BY <1>2, <1>4, <2>2, <2>7, <3>1
    <3>2. CASE i # Len(fs) + 1
      <4>1. i \in 1 .. Len(fs) /\ Append(fs, c)[i] = fs[i]
        BY <2>3, <2>7, <3>2
      <4>. QED  BY <4>1 DEF CleanOnes
    <3>. QED  BY <3>1, <3>2
  <2>. QED  BY <2>1, <2>5, <2>6, <2>8 DEF CleanOnes
<1>. QED  BY <1>3, <1>4

LEMMA CleanFiltersAre ==
  ASSUME NEW list \in Seq(Pages)
  PROVE  CleanOnes(CleanFilters(list))
<1>. DEFINE n == Len(list)
<1>1. PICK g : Filtering(g, list)
  BY FilterSteps
<1>2. g[0] = <<>> /\ (\A k \in 1 .. n : g[k] = Accept(g[k - 1], list[k])) /\ CleanFilters(list) = g[n]
  BY <1>1 DEF Filtering
<1>3. n \in Nat /\ n \in 0 .. n /\ 0 \in 0 .. n /\ \A k \in 1 .. n : k \in 0 .. n /\ list[k] \in Pages
  OBVIOUS
<1>. HIDE DEF n
<1>. DEFINE T == {k \in 0 .. n : CleanOnes(g[k])}
<1>4. 0 \in T
  <2>1. CleanOnes(<<>>)
    BY DeskAssumption DEF CleanOnes, Distinct
  <2>. QED  BY <1>2, <1>3, <2>1
<1>5. \A k \in 1 .. n : k - 1 \in T => k \in T
  BY <1>2, <1>3, AcceptKeeps
<1>. HIDE DEF T
<1>6. n \in T
  BY <1>3, <1>4, <1>5, ByCounting
<1>. QED  BY <1>2, <1>6 DEF T

\* What is stored is taken as it is.
LEMMA FirstStay ==
  ASSUME NEW fs, CleanOnes(fs), NEW list \in Seq(Pages), Len(fs) <= Len(list),
         \A i \in 1 .. Len(fs) : list[i] = fs[i], NEW g, Filtering(g, list)
  PROVE  g[Len(fs)] = fs
<1>. DEFINE n == Len(fs)
            T == {k \in 0 .. n : g[k] = SubSeq(fs, 1, k)}
<1>1. g[0] = <<>> /\ \A k \in 1 .. Len(list) : g[k] = Accept(g[k - 1], list[k])
  BY DEF Filtering
<1>2. /\ fs \in Seq(Pages) /\ n \in Nat /\ n <= MaxFilters /\ MaxFilters \in Nat /\ Len(list) \in Nat /\ n <= Len(list)
      /\ DOMAIN fs = 1 .. n
  BY DeskAssumption DEF CleanOnes
<1>. HIDE DEF n
<1>3. 0 \in T
  <2>1. SubSeq(fs, 1, 0) = <<>> /\ 0 \in 0 .. n
    BY <1>2
  <2>. QED  BY <1>1, <2>1
<1>4. ASSUME NEW k \in 1 .. n, k - 1 \in T PROVE k \in T
  <2>. DEFINE b == SubSeq(fs, 1, k - 1)
              f == fs[k]
  <2>1. g[k - 1] = b /\ k \in 1 .. Len(list) /\ list[k] = f
    BY <1>2, <1>4 DEF n
  <2>2. g[k] = Accept(b, f)
    BY <1>1, <2>1
  <2>3. /\ Len(b) = k - 1 /\ DOMAIN b = 1 .. k - 1 /\ \A i \in 1 .. k - 1 : b[i] = fs[i] /\ i \in 1 .. n /\ i # k
    BY <1>2
  <2>4. f \in Pages /\ f.name # Blank /\ f.query # Blank /\ Cut[f.name] = f.name
    BY <1>2 DEF CleanOnes, n
  <2>5. SubSeq(fs, 1, k) = Append(b, f)
    BY <1>2
  <2>. HIDE DEF b
  <2>6. \A h \in Range(b) : Lower[h.name] # Lower[Cut[f.name]]
    BY <2>3, <2>4 DEF Range, CleanOnes, Distinct, n
  <2>7. [f EXCEPT !.name = Cut[@]] = f
    <3>. HIDE DEF f
    <3>1. f = [name |-> f.name, query |-> f.query]
      BY <2>4, PagesAre
    <3>. QED  BY <2>4, <3>1
  <2>8. Len(b) # MaxFilters
    BY <1>2, <2>3
  <2>. HIDE DEF f
  <2>9. Accept(b, f) = Append(b, f)
    BY <2>4, <2>6, <2>7, <2>8 DEF Accept
  <2>10. g[k] = SubSeq(fs, 1, k)
    BY <2>2, <2>5, <2>9
  <2>11. k \in 0 .. n
    BY <1>2
  <2>. QED  BY <2>10, <2>11
<1>. HIDE DEF T
<1>5. n \in T
  <2>1. \A k \in 0 .. n : k \in T
    BY <1>2, <1>3, <1>4, ByCounting
  <2>. QED  BY <1>2, <2>1
<1>6. SubSeq(fs, 1, n) = fs
  BY <1>2 DEF n
<1>. QED  BY <1>5, <1>6 DEF T, n

LEMMA StripClean ==
  ASSUME NEW fs, CleanOnes(fs), NEW gone
  PROVE  CleanOnes(Strip(fs, gone))
<1>. DEFINE n == Len(fs)
            Upto(k) == {fs[j] : j \in 1 .. k}
<1>1. PICK g : Stripping(g, fs, gone)
  BY StripSteps DEF CleanOnes
<1>2. /\ g[0] = <<>> /\ Strip(fs, gone) = g[n]
      /\ \A k \in 1 .. n : g[k] = IF fs[k] \in gone THEN g[k - 1] ELSE Append(g[k - 1], fs[k])
  BY <1>1 DEF Stripping
<1>3. fs \in Seq(Pages) /\ n <= MaxFilters /\ MaxFilters \in Nat /\ n \in Nat
  BY DeskAssumption DEF CleanOnes
<1>4. /\ Upto(0) = {} /\ Range(fs) = Upto(n)
      /\ \A k \in 1 .. n : fs[k] \in Pages /\ Upto(k) = Upto(k - 1) \cup {fs[k]}
  BY <1>3, FirstPlaces
<1>. DEFINE Good(s, k) == s \in Seq(Pages) /\ Len(s) <= k /\ Range(s) \subseteq Upto(k) /\ Distinct(s)
            T == {k \in 0 .. n : Good(g[k], k)}
<1>5. 0 \in T
  <2>1. Good(<<>>, 0)
    BY DEF Distinct, Range
  <2>2. 0 \in 0 .. n
    BY <1>3
  <2>. HIDE DEF Good
  <2>. QED  BY <1>2, <2>1, <2>2
<1>6. ASSUME NEW k \in 1 .. n, k - 1 \in T PROVE k \in T
  <2>. DEFINE s == g[k - 1]
              f == fs[k]
  <2>1. s \in Seq(Pages) /\ Len(s) \in Nat /\ Len(s) <= k - 1 /\ Range(s) \subseteq Upto(k - 1) /\ Distinct(s)
    BY <1>6
  <2>2. f \in Pages /\ Upto(k) = Upto(k - 1) \cup {f} /\ k \in 0 .. n /\ k \in Nat
    BY <1>3, <1>4
  <2>3. g[k] = IF f \in gone THEN s ELSE Append(s, f)
    BY <1>2
  <2>4. \A i \in 1 .. Len(s) : \E j \in 1 .. k - 1 : s[i] = fs[j]
    <3>1. \A i \in 1 .. Len(s) : s[i] \in Range(s)
      BY <2>1 DEF Range
    <3>. HIDE DEF s
    <3>. QED  BY <2>1, <3>1
  <2>. HIDE DEF s, f, Upto
  <2>5. Good(s, k)
    BY <2>1, <2>2
  <2>6. Good(Append(s, f), k)
    <3>1. Append(s, f) \in Seq(Pages) /\ Len(Append(s, f)) <= k
      BY <2>1, <2>2
    <3>2. Range(Append(s, f)) \subseteq Upto(k)
      BY <2>1, <2>2, AppendRange
    <3>3. \A i \in 1 .. Len(s) : Lower[s[i].name] # Lower[f.name]
      <4>1. \A j \in 1 .. k - 1 : j \in 1 .. n /\ j # k
        BY <1>3
      <4>2. \A j \in 1 .. k - 1 : Lower[fs[j].name] # Lower[fs[k].name]
        BY <4>1 DEF CleanOnes, Distinct
      <4>. QED  BY <2>4, <4>2 DEF f
    <3>4. Distinct(Append(s, f))
      BY <2>1, <2>2, <3>3, DistinctMore
    <3>. QED  BY <3>1, <3>2, <3>4
  <2>. HIDE DEF Good
  <2>7. Good(g[k], k)
    BY <2>3, <2>5, <2>6
  <2>. QED  BY <2>2, <2>7
<1>7. Good(g[n], n)
  <2>. HIDE DEF Good, T, n
  <2>1. \A k \in 0 .. n : k \in T
    BY <1>3, <1>5, <1>6, ByCounting
  <2>2. n \in T
    BY <1>3, <2>1
  <2>. QED  BY <2>2 DEF T
<1>. DEFINE s == Strip(fs, gone)
<1>8. s \in Seq(Pages) /\ Len(s) <= n /\ Len(s) \in Nat /\ Range(s) \subseteq Upto(n) /\ Distinct(s)
  BY <1>2, <1>7
<1>. HIDE DEF s
<1>9. ASSUME NEW i \in 1 .. Len(s)
      PROVE  s[i].name # Blank /\ s[i].query # Blank /\ Cut[s[i].name] = s[i].name
  <2>1. s[i] \in Range(s)
    BY <1>8 DEF Range
  <2>2. PICK j \in 1 .. n : s[i] = fs[j]
    BY <1>8, <2>1
  <2>. QED  BY <2>2 DEF CleanOnes
<1>10. Len(s) <= MaxFilters
  BY <1>3, <1>8
<1>. QED  BY <1>8, <1>9, <1>10 DEF CleanOnes, s

LEMMA SearchesStay ==
  ASSUME CleanOnes(doc.filters)
  PROVE  FiltersStay
<1>. DEFINE fs == doc.filters
<1>1. CleanFilters(fs) = fs
  <2>1. CleanOnes(fs) /\ fs \in Seq(Pages) /\ Len(fs) \in Nat
    BY DEF CleanOnes
  <2>. HIDE DEF fs
  <2>2. PICK g : Filtering(g, fs)
    BY <2>1, FilterSteps
  <2>3. g[Len(fs)] = fs
    BY <2>1, <2>2, FirstStay
  <2>. QED  BY <2>2, <2>3 DEF Filtering
<1>2. ASSUME NEW f \in ToSave PROVE IsPrefix(Besides(f), CleanFilters(Append(Besides(f), f)))
  <2>. DEFINE b == Besides(f)
              list == Append(b, f)
              n == Len(b)
  <2>1. CleanOnes(b)
    BY StripClean DEF Besides
  <2>. HIDE DEF b
  <2>2. b \in Seq(Pages) /\ n \in Nat /\ f \in Pages
    BY <2>1 DEF CleanOnes, Pages
  <2>3. list \in Seq(Pages) /\ Len(list) = n + 1 /\ list[n + 1] = f /\ \A i \in 1 .. n : list[i] = b[i]
    BY <2>2
  <2>. HIDE DEF list
  <2>4. PICK g : Filtering(g, list)
    BY <2>3, FilterSteps
  <2>5. Len(b) <= Len(list)
    BY <2>2, <2>3
  <2>6. g[n] = b
    BY <2>1, <2>3, <2>4, <2>5, FirstStay
  <2>7. CleanFilters(list) = Accept(b, f)
    <3>1. g[n + 1] = Accept(g[n + 1 - 1], list[n + 1]) /\ CleanFilters(list) = g[n + 1]
      BY <2>2, <2>3, <2>4 DEF Filtering
    <3>2. n + 1 - 1 = n
      BY <2>2
    <3>. QED  BY <2>3, <2>6, <3>1, <3>2
  <2>8. CleanFilters(list) = b \/ \E c : CleanFilters(list) = Append(b, c)
    BY <2>7 DEF Accept
  <2>9. IsPrefix(b, b) /\ \A c : IsPrefix(b, Append(b, c))
    BY <2>2 DEF IsPrefix
  <2>. QED  BY <2>8, <2>9 DEF list, b
<1>. QED  BY <1>1, <1>2 DEF FiltersStay

-----------------------------------------------------------------------------
(* The index and the plan.                                                   *)

LEMMA SameFolder ==
  ASSUME NEW t, NEW m, IsMail(m, t) PROVE m = [m EXCEPT !.folder = m.folder] /\ m.folder \in Folder
BY DEF IsMail

LEMMA MailFiled ==
  ASSUME NEW t, NEW m, IsMail(m, t), NEW f \in Folder, NEW new, new = [m EXCEPT !.folder = f]
  PROVE  /\ IsMail(new, t) /\ new.folder = f
         /\ new.from = m.from /\ new.name = m.name /\ new.to = m.to /\ new.words = m.words /\ new.date = m.date
<1>1. new = [from |-> m.from, name |-> m.name, to |-> m.to, words |-> m.words, date |-> m.date, folder |-> f]
  BY DEF IsMail
<1>. QED  BY <1>1 DEF IsMail

LEMMA RefiledIs ==
  ASSUME NEW t, NEW idx, IsIndex(idx, t), NEW new, Refiled(new, idx)
  PROVE  /\ IsIndex(new, t)
         /\ \A x \in DOMAIN idx : /\ new[x].from = idx[x].from /\ new[x].name = idx[x].name /\ new[x].to = idx[x].to
                                  /\ new[x].words = idx[x].words /\ new[x].date = idx[x].date
<1>1. ASSUME NEW x \in DOMAIN idx
      PROVE  /\ IsMail(new[x], t)
             /\ new[x].from = idx[x].from /\ new[x].name = idx[x].name /\ new[x].to = idx[x].to
             /\ new[x].words = idx[x].words /\ new[x].date = idx[x].date
  <2>1. PICK f \in Folder : new[x] = [idx[x] EXCEPT !.folder = f]
    BY DEF Refiled
  <2>2. IsMail(idx[x], t)
    BY DEF IsIndex
  <2>. QED  BY <2>1, <2>2, MailFiled
<1>2. DOMAIN new = DOMAIN idx /\ new = [x \in DOMAIN new |-> new[x]] /\ DOMAIN new \subseteq Key
  BY DEF Refiled, IsIndex
<1>3. \A x, y \in DOMAIN new : new[x].date = new[y].date => x = y
  BY <1>1, <1>2 DEF IsIndex
<1>. QED  BY <1>1, <1>2, <1>3 DEF IsIndex

LEMMA MinIs ==
  ASSUME NEW S \in SUBSET Nat, S # {}
  PROVE  Min(S) \in S /\ \A y \in S : Min(S) <= y
<1>1. \E x \in S : \A y \in S : x <= y
  BY LeastNumber
<1>. QED  BY <1>1 DEF Min

\* The rule that decides is the first that is enabled and hits.
LEMMA DecidingIs ==
  ASSUME NEW S, NEW rules \in Seq(S), NEW m
  PROVE  LET hits == {i \in DOMAIN rules : rules[i].enabled /\ Hits(rules[i], m)}
         IN \/ hits = {} /\ Deciding(rules, m) = <<>>
            \/ \E i \in hits : Deciding(rules, m) = <<rules[i]>> /\ \A j \in hits : i <= j
<1>. DEFINE hits == {i \in DOMAIN rules : rules[i].enabled /\ Hits(rules[i], m)}
<1>1. hits \in SUBSET Nat
  OBVIOUS
<1>2. Deciding(rules, m) = IF hits = {} THEN <<>> ELSE <<rules[Min(hits)]>>
  BY DEF Deciding
<1>. HIDE DEF hits
<1>3. ASSUME hits # {} PROVE \E i \in hits : Deciding(rules, m) = <<rules[i]>> /\ \A j \in hits : i <= j
  BY <1>1, <1>2, <1>3, MinIs
<1>4. \/ hits = {} /\ Deciding(rules, m) = <<>>
      \/ \E i \in hits : Deciding(rules, m) = <<rules[i]>> /\ \A j \in hits : i <= j
  BY <1>2, <1>3
<1>. QED  BY <1>4 DEF hits

LEMMA DecidesARule ==
  ASSUME NEW S, NEW rules \in Seq(S), NEW m
  PROVE  Deciding(rules, m) = <<>> \/ \E r \in S : Deciding(rules, m) = <<r>>
<1>1. \A i \in DOMAIN rules : rules[i] \in S
  OBVIOUS
<1>. DEFINE hits == {i \in DOMAIN rules : rules[i].enabled /\ Hits(rules[i], m)}
<1>2. \/ hits = {} /\ Deciding(rules, m) = <<>>
      \/ \E i \in hits : Deciding(rules, m) = <<rules[i]>> /\ \A j \in hits : i <= j
  BY DecidingIs
<1>3. \A i \in hits : i \in DOMAIN rules
  OBVIOUS
<1>. HIDE DEF hits
<1>. QED  BY <1>1, <1>2, <1>3

LEMMA PlanIs ==
  ASSUME NEW t, NEW idx, IsIndex(idx, t), NEW d, d.rules \in Seq(Rules), NEW force
  PROVE  LET plan == PlanRules(idx, d, force)
         IN /\ IsPlan(plan, DOMAIN idx, Labels)
            /\ \A x \in DOMAIN plan : plan[x] = <<>> \/ \E r \in Rules : plan[x] = <<r>>
<1>. DEFINE plan == PlanRules(idx, d, force)
            xs == {x \in DOMAIN idx : /\ \E r \in Range(d.rules) : r.enabled
                                      /\ force \/ ~Entry(d, x).ruled}
<1>1. /\ DOMAIN plan = xs
      /\ \A x \in xs : plan[x] = IF idx[x].folder \in SkipsRules /\ ~force THEN <<>> ELSE Deciding(d.rules, idx[x])
  BY DEF PlanRules
<1>2. xs \in SUBSET DOMAIN idx
  OBVIOUS
<1>. HIDE DEF plan, xs
<1>3. DOMAIN idx \in SUBSET Nat /\ IsFiniteSet(DOMAIN idx)
  BY DeskAssumption, FS_Subset DEF IsIndex
<1>4. IsFiniteSet(xs)
  BY <1>2, <1>3, FS_Subset
<1>5. ASSUME NEW x \in xs PROVE plan[x] = <<>> \/ \E r \in Rules : plan[x] = <<r>>
  <2>1. Deciding(d.rules, idx[x]) = <<>> \/ \E r \in Rules : Deciding(d.rules, idx[x]) = <<r>>
    BY DecidesARule
  <2>. QED  BY <1>1, <2>1
<1>6. ASSUME NEW x \in xs PROVE IsHit(plan[x], Labels)
  BY <1>5 DEF IsHit, Rules
<1>. QED  BY <1>1, <1>2, <1>3, <1>4, <1>5, <1>6 DEF IsPlan, plan

LEMMA RuledIndexIs ==
  ASSUME NEW t, NEW idx, IsIndex(idx, t), NEW plan,
         \A x \in DOMAIN plan : plan[x] = <<>> \/ \E r \in Rules : plan[x] = <<r>>
  PROVE  Refiled(RuledIndex(idx, plan), idx)
<1>. DEFINE new == RuledIndex(idx, plan)
<1>1. new = [x \in DOMAIN idx |->
               IF x \in DOMAIN plan /\ plan[x] # <<>> /\ plan[x][1].folder # {}
                 THEN [idx[x] EXCEPT !.folder = CHOOSE f \in plan[x][1].folder : TRUE] ELSE idx[x]]
  BY DEF RuledIndex
<1>. HIDE DEF new
<1>2. ASSUME NEW x \in DOMAIN idx PROVE \E f \in Folder : new[x] = [idx[x] EXCEPT !.folder = f]
  <2>1. CASE x \in DOMAIN plan /\ plan[x] # <<>> /\ plan[x][1].folder # {}
    <3>1. PICK r \in Rules : plan[x] = <<r>>
      BY <2>1
    <3>. DEFINE f == CHOOSE f \in plan[x][1].folder : TRUE
    <3>2. f \in plan[x][1].folder
      BY <2>1
    <3>3. plan[x][1] = r /\ r.folder \subseteq Folder
      BY <3>1 DEF Rules
    <3>4. new[x] = [idx[x] EXCEPT !.folder = f]
      BY <1>1, <2>1
    <3>. HIDE DEF f
    <3>. QED  BY <3>2, <3>3, <3>4
  <2>2. CASE ~ (x \in DOMAIN plan /\ plan[x] # <<>> /\ plan[x][1].folder # {})
    <3>1. new[x] = idx[x] /\ IsMail(idx[x], t)
      BY <1>1, <2>2 DEF IsIndex
    <3>. QED  BY <3>1, SameFolder
  <2>. QED  BY <2>1, <2>2
<1>3. DOMAIN new = DOMAIN idx /\ new = [x \in DOMAIN idx |-> new[x]]
  BY <1>1
<1>. QED  BY <1>2, <1>3 DEF Refiled, new

-----------------------------------------------------------------------------
(* The steps of the desk.                                                    *)

LEMMA LabelsFinite == IsFiniteSet(Labels)
BY DeskAssumption

LEMMA IndexIs ==
  ASSUME NEW t, NEW idx, IsIndex(idx, t)
  PROVE  /\ IsFiniteSet(DOMAIN idx) /\ DOMAIN idx \subseteq Nat
         /\ \A x \in DOMAIN idx : idx[x].folder \in Folder /\ idx[x].date \in 1 .. t - 1
<1>1. IsFiniteSet(DOMAIN idx) /\ DOMAIN idx \subseteq Nat
  BY DeskAssumption, FS_Subset DEF IsIndex
<1>. QED  BY <1>1 DEF IsIndex, IsMail

LEMMA DeskStep ==
  ASSUME DeskInv, Step
  PROVE  steps' \in 0 .. MaxSteps /\ steps' = steps + 1 /\ steps \in Nat /\ now \in 1 .. steps' + 1 /\ now \in Nat
BY DeskAssumption DEF DeskInv, Step

LEMMA DeskInit == ASSUME Init PROVE DeskInv
<1>1. index = <<>> /\ doc = NewData /\ now = 1 /\ steps = 0
  BY DEF Init
<1>2. steps \in 0 .. MaxSteps /\ now \in 1 .. steps + 1
  BY <1>1, DeskAssumption
<1>3. IsIndex(index, now)
  BY <1>1 DEF IsIndex
<1>4. IsDoc(doc, DOMAIN index)
  <2>1. \A M : IsData(doc, M, Labels) /\ Listed(doc, {})
    BY <1>1, NewIs, NothingListed
  <2>2. doc.rules = <<>> /\ doc.filters = <<>>
    BY <1>1 DEF NewData
  <2>3. CleanOnes(<<>>)
    BY DeskAssumption DEF CleanOnes, Distinct
  <2>4. <<>> \in Seq(Rules)
    OBVIOUS
  <2>. QED  BY <2>1, <2>2, <2>3, <2>4 DEF IsDoc
<1>. QED  BY <1>2, <1>3, <1>4 DEF DeskInv

LEMMA DataOfMore ==
  ASSUME NEW d, NEW M, IsDoc(d, M), NEW N, M \subseteq N PROVE IsDoc(d, N)
BY DEF IsDoc, IsData

LEMMA DeskArrive ==
  ASSUME DeskInv, NEW x \in Key, NEW l \in Letters, Arrive(x, l)
  PROVE  DeskInv'
<1>. DEFINE m == [from |-> l.from, name |-> l.name, to |-> l.to, words |-> l.words,
                  date |-> now, folder |-> IF l.from = Me THEN Sent ELSE Inbox]
<1>1. Step /\ x \notin DOMAIN index /\ now' = now + 1 /\ index' = Put(index, x, m) /\ doc' = doc
  BY DEF Arrive
<1>2. steps' \in 0 .. MaxSteps /\ now' \in 1 .. steps' + 1 /\ now \in Nat /\ now >= 1
  BY <1>1, DeskStep DEF DeskInv
<1>3. IsMail(m, now') /\ m.date = now
  <2>. DEFINE f == IF l.from = Me THEN Sent ELSE Inbox
  <2>1. f \in Folder
    BY SystemIs
  <2>2. now \in 1 .. now' - 1
    BY <1>1, <1>2
  <2>3. m = [from |-> l.from, name |-> l.name, to |-> l.to, words |-> l.words, date |-> now, folder |-> f]
    OBVIOUS
  <2>. HIDE DEF m, f
  <2>. QED  BY <2>1, <2>2, <2>3 DEF IsMail
<1>. HIDE DEF m
<1>4. /\ DOMAIN index' = DOMAIN index \cup {x} /\ index' = [y \in DOMAIN index' |-> index'[y]]
      /\ \A y \in DOMAIN index' : index'[y] = IF y = x THEN m ELSE index[y]
  BY <1>1 DEF Put
<1>5. \A y \in DOMAIN index : IsMail(index[y], now') /\ index[y].date < now /\ index[y].date \in Nat
  <2>. SUFFICES ASSUME NEW y \in DOMAIN index
                PROVE  IsMail(index[y], now') /\ index[y].date < now /\ index[y].date \in Nat
    OBVIOUS
  <2>1. IsMail(index[y], now)
    BY DEF DeskInv, IsIndex
  <2>2. index[y].date \in 1 .. now - 1
    BY <2>1 DEF IsMail
  <2>3. index[y].date \in 1 .. now' - 1 /\ index[y].date < now /\ index[y].date \in Nat
    BY <1>1, <1>2, <2>2
  <2>. QED  BY <2>1, <2>3 DEF IsMail
<1>6. IsIndex(index, now)'
  <2>1. DOMAIN index' \subseteq Key
    BY <1>4 DEF DeskInv, IsIndex
  <2>2. \A y \in DOMAIN index' : IsMail(index'[y], now')
    BY <1>3, <1>4, <1>5
  <2>3. ASSUME NEW y \in DOMAIN index', NEW z \in DOMAIN index', index'[y].date = index'[z].date
        PROVE  y = z
    <3>1. CASE y # x /\ z # x
      BY <1>4, <2>3, <3>1 DEF DeskInv, IsIndex
    <3>2. CASE y = x /\ z # x
      <4>1. index'[y].date = now /\ index'[z].date < now
        BY <1>3, <1>4, <1>5, <3>2
      <4>. QED  BY <1>2, <2>3, <4>1
    <3>3. CASE y # x /\ z = x
      <4>1. index'[z].date = now /\ index'[y].date < now
        BY <1>3, <1>4, <1>5, <3>3
      <4>. QED  BY <1>2, <2>3, <4>1
    <3>. QED  BY <3>1, <3>2, <3>3
  <2>. QED  BY <1>4, <2>1, <2>2, <2>3 DEF IsIndex
<1>7. IsDoc(doc', DOMAIN index')
  BY <1>1, <1>4, DataOfMore DEF DeskInv
<1>. QED  BY <1>2, <1>6, <1>7 DEF DeskInv

LEMMA DeskMove ==
  ASSUME DeskInv, NEW x \in DOMAIN index, NEW f \in Folder, Move(x, f)
  PROVE  DeskInv'
<1>1. Step /\ index' = [index EXCEPT ![x].folder = f] /\ doc' = doc /\ now' = now
  BY DEF Move
<1>2. steps' \in 0 .. MaxSteps /\ now' \in 1 .. steps' + 1
  BY <1>1, DeskStep
<1>3. Refiled(index', index)
  <2>1. DOMAIN index' = DOMAIN index /\ index' = [y \in DOMAIN index |-> index'[y]]
    BY <1>1
  <2>2. ASSUME NEW y \in DOMAIN index PROVE \E g \in Folder : index'[y] = [index[y] EXCEPT !.folder = g]
    <3>1. CASE y = x
      BY <1>1, <3>1
    <3>2. CASE y # x
      <4>1. index'[y] = index[y] /\ IsMail(index[y], now)
        BY <1>1, <3>2 DEF DeskInv, IsIndex
      <4>. QED  BY <4>1, SameFolder
    <3>. QED  BY <3>1, <3>2
  <2>. QED  BY <2>1, <2>2 DEF Refiled
<1>4. IsIndex(index', now') /\ DOMAIN index' = DOMAIN index
  <2>1. IsIndex(index, now)
    BY DEF DeskInv
  <2>2. IsIndex(index', now)
    BY <1>3, <2>1, RefiledIs, Zenon
  <2>. QED  BY <1>1, <1>3, <2>2 DEF Refiled
<1>. QED  BY <1>1, <1>2, <1>4 DEF DeskInv

\* The document changes, and the index does not.
LEMMA DocChanges ==
  ASSUME DeskInv, Step, UNCHANGED <<index, now>>, IsDoc(doc', DOMAIN index)
  PROVE  DeskInv'
<1>1. steps' \in 0 .. MaxSteps /\ now' \in 1 .. steps' + 1
  BY DeskStep
<1>. QED  BY <1>1 DEF DeskInv

LEMMA DeskRead ==
  ASSUME DeskInv, NEW x \in DOMAIN index, Read(x)
  PROVE  DeskInv'
<1>. DEFINE op == [t |-> "flags", mids |-> {x}, read |-> {TRUE}, star |-> {}]
<1>1. Step /\ doc' = Apply(doc, op) /\ UNCHANGED <<index, now>>
  BY DEF Read
<1>2. op.t = "flags" /\ op.mids = {x}
  OBVIOUS
<1>. HIDE DEF op
<1>3. IsStep(op, DOMAIN index, Labels) /\ Recasts(op) = {}
  BY <1>2, MarkStep DEF IsMark
<1>4. IsData(doc, DOMAIN index, Labels) /\ Listed(doc, {})
  BY DEF DeskInv, IsDoc
<1>5. AfterFlags(doc', doc, DOMAIN index, Labels, op)
  BY <1>1, <1>2, <1>3, <1>4, FlagsOf
<1>6. Listed(doc', {})
  BY <1>1, <1>3, <1>4, LabelsFinite, ApplyListed
<1>7. IsDoc(doc', DOMAIN index)
  BY <1>5, <1>6 DEF AfterFlags, DeskInv, IsDoc
<1>. QED  BY <1>1, <1>7, DocChanges

\* The rules are replaced, or the saved searches.
LEMMA RulesReplaced ==
  ASSUME NEW d, NEW M, IsDoc(d, M), NEW rules \in Seq(Rules),
         NEW a, a = Apply(d, [t |-> "rules", rules |-> rules])
  PROVE  IsDoc(a, M) /\ a.rules = rules
<1>. DEFINE op == [t |-> "rules", rules |-> rules]
<1>1. op.t = "rules" /\ op.rules = rules
  OBVIOUS
<1>2. a = Apply(d, op)
  OBVIOUS
<1>. HIDE DEF op
<1>3. AfterRules(a, d, M, Labels, op)
  BY <1>1, <1>2, RulesOf DEF IsDoc
<1>4. IsData(a, M, Labels) /\ a.msgs = d.msgs /\ a.tags = d.tags /\ a.rules = rules /\ a.filters = d.filters
  BY <1>1, <1>3 DEF AfterRules
<1>5. Listed(a, {})
  BY <1>4 DEF Listed, Entry, IsDoc
<1>. QED  BY <1>4, <1>5 DEF IsDoc

LEMMA FiltersReplaced ==
  ASSUME NEW d, NEW M, IsDoc(d, M), NEW fs, CleanOnes(fs),
         NEW a, a = Apply(d, [t |-> "filters", filters |-> fs])
  PROVE  IsDoc(a, M)
<1>. DEFINE op == [t |-> "filters", filters |-> fs]
<1>1. op.t = "filters" /\ op.filters = fs
  OBVIOUS
<1>2. a = Apply(d, op)
  OBVIOUS
<1>. HIDE DEF op
<1>3. AfterRules(a, d, M, Labels, op)
  BY <1>1, <1>2, RulesOf DEF IsDoc
<1>4. IsData(a, M, Labels) /\ a.msgs = d.msgs /\ a.tags = d.tags /\ a.rules = d.rules /\ a.filters = fs
  BY <1>1, <1>3 DEF AfterRules
<1>5. Listed(a, {})
  BY <1>4 DEF Listed, Entry, IsDoc
<1>. QED  BY <1>4, <1>5 DEF IsDoc

LEMMA DeskSaves ==
  ASSUME DeskInv, NEW rules \in Seq(Rules), SaveRules(rules)
  PROVE  DeskInv'
<1>1. Step /\ UNCHANGED <<index, now>> /\ doc' = Apply(doc, [t |-> "rules", rules |-> CleanRules(rules)])
  BY DEF SaveRules
<1>. DEFINE clean == CleanRules(rules)
<1>2. clean \in Seq(Rules)
  BY CleanRulesAre
<1>. HIDE DEF clean
<1>3. doc' = Apply(doc, [t |-> "rules", rules |-> clean])
  BY <1>1 DEF clean
<1>4. IsDoc(doc', DOMAIN index)
  BY <1>2, <1>3, RulesReplaced DEF DeskInv
<1>. QED  BY <1>1, <1>4, DocChanges

LEMMA RemoveIs ==
  ASSUME NEW S, NEW s \in Seq(S), NEW i \in DOMAIN s
  PROVE  RemoveAt(s, i) \in Seq(S)
<1>. DEFINE a == SubSeq(s, 1, i - 1)
            b == SubSeq(s, i + 1, Len(s))
<1>1. a \in Seq(S) /\ b \in Seq(S)
  OBVIOUS
<1>. HIDE DEF a, b
<1>2. a \o b \in Seq(S)
  BY <1>1
<1>. QED  BY <1>2 DEF RemoveAt, a, b

LEMMA DeskDialog == ASSUME DeskInv, Dialog PROVE DeskInv'
<1>0. /\ IsFiniteSet(DOMAIN index) /\ \A x \in DOMAIN index : index[x].folder \in Folder
      /\ doc.rules \in Seq(Rules)
  BY IndexIs DEF DeskInv, IsDoc
<1>1. ASSUME NEW s \in Suggest(index, doc.rules), SaveRules(Append(Rows(doc.rules), Suggested(s))) PROVE DeskInv'
  <2>. DEFINE r == Suggested(s)
              rows == Rows(doc.rules)
  <2>1. r \in Rules
    BY <1>0, SuggestedIs
  <2>2. doc.rules \in Seq(Offered \cup Rules)
    BY <1>0
  <2>3. rows \in Seq(Rules)
    BY <1>0, <2>2, RowsAre
  <2>. HIDE DEF r, rows
  <2>4. Append(rows, r) \in Seq(Rules)
    BY <2>1, <2>3
  <2>. QED  BY <1>1, <2>4, DeskSaves DEF r, rows
<1>2. ASSUME NEW more \in RuleLists, SaveRules(Rows(doc.rules \o more)) PROVE DeskInv'
  <2>. DEFINE all == doc.rules \o more
  <2>1. all \in Seq(Offered \cup Rules)
    <3>. DEFINE a == doc.rules
    <3>1. more \in Seq(Offered)
      BY DeskAssumption
    <3>2. a \in Seq(Offered \cup Rules) /\ more \in Seq(Offered \cup Rules)
      BY <1>0, <3>1
    <3>. HIDE DEF a
    <3>3. a \o more \in Seq(Offered \cup Rules)
      BY <3>2, ConcatIs
    <3>. QED  BY <3>3 DEF a
  <2>. HIDE DEF all
  <2>2. Rows(all) \in Seq(Rules)
    BY <1>0, <2>1, RowsAre
  <2>. QED  BY <1>2, <2>2, DeskSaves DEF all
<1>3. ASSUME NEW i \in DOMAIN doc.rules, SaveRules(Rows(RemoveAt(doc.rules, i))) PROVE DeskInv'
  <2>. DEFINE rest == RemoveAt(doc.rules, i)
  <2>1. rest \in Seq(Offered \cup Rules)
    <3>1. doc.rules \in Seq(Offered \cup Rules)
      BY <1>0
    <3>. QED  BY <3>1, RemoveIs
  <2>. HIDE DEF rest
  <2>2. Rows(rest) \in Seq(Rules)
    BY <1>0, <2>1, RowsAre
  <2>. QED  BY <1>3, <2>2, DeskSaves DEF rest
<1>. QED  BY <1>1, <1>2, <1>3 DEF Dialog

LEMMA DeskFilters ==
  ASSUME DeskInv, NEW list \in Seq(Pages), SetFilters(list)
  PROVE  DeskInv'
<1>1. Step /\ UNCHANGED <<index, now>> /\ doc' = Apply(doc, [t |-> "filters", filters |-> CleanFilters(list)])
  BY DEF SetFilters
<1>. DEFINE fs == CleanFilters(list)
<1>2. CleanOnes(fs)
  BY CleanFiltersAre
<1>. HIDE DEF fs
<1>3. doc' = Apply(doc, [t |-> "filters", filters |-> fs])
  BY <1>1 DEF fs
<1>4. IsDoc(doc', DOMAIN index)
  BY <1>2, <1>3, FiltersReplaced DEF DeskInv
<1>. QED  BY <1>1, <1>4, DocChanges

LEMMA DeskSearches ==
  ASSUME DeskInv, NEW f, (f \in ToSave /\ SaveFilter(f)) \/ DropFilter(f)
  PROVE  DeskInv'
<1>1. CleanOnes(doc.filters)
  BY DEF DeskInv, IsDoc
<1>2. CASE f \in ToSave /\ SaveFilter(f)
  <2>. DEFINE b == Besides(f)
  <2>1. b \in Seq(Pages)
    BY <1>1, StripClean DEF Besides, CleanOnes
  <2>. HIDE DEF b
  <2>2. Append(b, f) \in Seq(Pages)
    BY <1>2, <2>1 DEF Pages
  <2>. QED  BY <1>2, <2>2, DeskFilters DEF SaveFilter, b
<1>3. CASE DropFilter(f)
  <2>. DEFINE rest == Strip(doc.filters, {g \in Range(doc.filters) : g.name = f.name})
  <2>1. rest \in Seq(Pages)
    BY <1>1, StripClean DEF CleanOnes
  <2>2. SetFilters(rest)
    BY <1>3 DEF DropFilter
  <2>. HIDE DEF rest
  <2>. QED  BY <2>1, <2>2, DeskFilters
<1>. QED  BY <1>2, <1>3

\* Everything the rules leave in the document, and in the index.
LEMMA DeskApply ==
  ASSUME DeskInv, NEW force \in BOOLEAN, ApplyRules(force)
  PROVE  DeskInv'
<1>. DEFINE plan == PlanRules(index, doc, force)
<1>1. Step /\ index' = RuledIndex(index, plan) /\ doc' = RuledDoc(doc, plan) /\ now' = now
  BY DEF ApplyRules
<1>2. /\ IsIndex(index, now) /\ IsData(doc, DOMAIN index, Labels) /\ Listed(doc, {})
      /\ doc.rules \in Seq(Rules) /\ CleanOnes(doc.filters)
  BY DEF DeskInv, IsDoc
<1>3. IsPlan(plan, DOMAIN index, Labels) /\ \A x \in DOMAIN plan : plan[x] = <<>> \/ \E r \in Rules : plan[x] = <<r>>
  BY <1>2, PlanIs
<1>. HIDE DEF plan
<1>4. Refiled(index', index)
  BY <1>1, <1>2, <1>3, RuledIndexIs
<1>5. IsIndex(index', now) /\ DOMAIN index' = DOMAIN index
  <2>1. IsIndex(index', now)
    BY <1>2, <1>4, RefiledIs, Zenon
  <2>. QED  BY <1>4, <2>1 DEF Refiled
<1>6. Treated(doc', doc, DOMAIN index, Labels, plan, DOMAIN plan)
  BY <1>1, <1>2, <1>3, LabelsFinite, RuledDocIs
<1>7. IsDoc(doc', DOMAIN index)
  BY <1>2, <1>6 DEF Treated, IsDoc
<1>8. steps' \in 0 .. MaxSteps /\ now' \in 1 .. steps' + 1
  BY <1>1, DeskStep
<1>. QED  BY <1>1, <1>5, <1>7, <1>8 DEF DeskInv

-----------------------------------------------------------------------------
(* Imports.                                                                  *)

LEMMA StartsMore ==
  ASSUME NEW S, NEW a \in Seq(S), NEW b \in Seq(S), Starts(a, b), NEW r
  PROVE  Starts(a, Append(b, r))
<1>1. Len(a) \in Nat /\ Len(b) \in Nat /\ Len(Append(b, r)) = Len(b) + 1
  OBVIOUS
<1>2. \A i \in 1 .. Len(b) : Append(b, r)[i] = b[i]
  OBVIOUS
<1>. QED  BY <1>1, <1>2 DEF Starts

LEMMA JoinedMore ==
  ASSUME NEW base \in Seq(Rules), NEW list \in Seq(Rules), NEW n \in 1 .. Len(list), NEW m,
         Joined(m, base, list, n - 1)
  PROVE  Joined(Admit(m, list[n]), base, list, n)
<1>. DEFINE r == list[n]
<1>1. r \in Rules /\ \A i \in 1 .. n : i \in 1 .. n - 1 \/ i = n
  OBVIOUS
<1>2. m \in Seq(Rules) /\ Starts(base, m)
  BY DEF Joined
<1>3. \A i \in 1 .. n - 1 : HasKey(m, list[i])
  BY DEF Joined
<1>4. (\A i \in 1 .. n - 1 : HasKey(base, list[i])) => m = base
  BY DEF Joined
<1>5. \A i \in 1 .. n - 1 : i \in 1 .. n
  OBVIOUS
<1>6. n \in 1 .. n /\ list[n] = r
  OBVIOUS
<1>. HIDE DEF r
<1>7. CASE HasKey(m, r)
  <2>1. Admit(m, r) = m
    BY <1>7 DEF Admit, HasKey
  <2>2. \A i \in 1 .. n : HasKey(m, list[i])
    BY <1>1, <1>3, <1>6, <1>7
  <2>3. (\A i \in 1 .. n : HasKey(base, list[i])) => m = base
    BY <1>4, <1>5
  <2>. QED  BY <1>2, <1>6, <2>1, <2>2, <2>3 DEF Joined
<1>8. CASE ~ HasKey(m, r)
  <2>1. Admit(m, r) = Append(m, r)
    BY <1>8 DEF Admit, HasKey
  <2>2. Append(m, r) \in Seq(Rules) /\ Range(Append(m, r)) = Range(m) \cup {r}
    BY <1>1, <1>2, AppendRange
  <2>3. Starts(base, Append(m, r))
    BY <1>2, StartsMore
  <2>4. \A i \in 1 .. n : HasKey(Append(m, r), list[i])
    BY <1>1, <1>3, <1>6, <2>2 DEF HasKey
  <2>5. ~ (\A i \in 1 .. n : HasKey(base, list[i]))
    BY <1>4, <1>5, <1>6, <1>8
  <2>. QED  BY <1>6, <2>1, <2>2, <2>3, <2>4, <2>5 DEF Joined
<1>. QED  BY <1>7, <1>8

LEMMA MergeIs ==
  ASSUME NEW d, d.rules \in Seq(Rules), NEW in, in.rules \in Seq(Rules)
  PROVE  Joined(Merge(d, in), d.rules, in.rules, Len(in.rules))
<1>. DEFINE base == d.rules
            list == in.rules
            n == Len(list)
<1>1. base \in Seq(Rules) /\ list \in Seq(Rules) /\ Merge(d, in) = FoldLeft(Admit, base, list)
  BY DEF Merge
<1>. HIDE DEF base, list
<1>2. PICK g : Merging(g, base, list)
  BY <1>1, MergeSteps
<1>3. g[0] = base /\ (\A k \in 1 .. n : g[k] = Admit(g[k - 1], list[k])) /\ Merge(d, in) = g[n]
  BY <1>1, <1>2 DEF Merging
<1>. DEFINE T == {k \in 0 .. n : Joined(g[k], base, list, k)}
<1>4. n \in Nat /\ \A k \in 1 .. n : k \in 0 .. n
  BY <1>1
<1>. HIDE DEF n
<1>5. 0 \in T
  <2>1. Joined(base, base, list, 0)
    BY <1>1 DEF Joined, Starts
  <2>. QED  BY <1>3, <1>4, <2>1
<1>6. ASSUME NEW k \in 1 .. n, k - 1 \in T PROVE k \in T
  <2>1. Joined(g[k - 1], base, list, k - 1)
    BY <1>6
  <2>2. Joined(Admit(g[k - 1], list[k]), base, list, k)
    BY <1>1, <2>1, JoinedMore DEF n
  <2>. QED  BY <1>3, <1>4, <2>2
<1>. HIDE DEF T
<1>7. \A k \in 0 .. n : k \in T
  BY <1>4, <1>5, <1>6, ByCounting
<1>8. n \in T
  BY <1>4, <1>7
<1>9. Joined(g[n], base, list, n)
  BY <1>8 DEF T
<1>. QED  BY <1>3, <1>9 DEF base, list, n

LEMMA FileRules == ASSUME NEW in \in Files PROVE in.rules \in Seq(Rules)
<1>1. in.rules \in Seq({r \in Offered : r.folder \subseteq Folder})
  BY DeskAssumption
<1>2. \A r \in {r \in Offered : r.folder \subseteq Folder} : r \in Rules
  BY OfferedIs
<1>. HIDE DEF Rules
<1>. QED  BY <1>1, <1>2

LEMMA SetToSeqIs ==
  ASSUME NEW S, IsFiniteSet(S)
  PROVE  SetToSeq(S) \in Seq(S)
<1>1. PICK n \in Nat : ExistsBijection(1 .. n, S)
  BY FS_NatBijection
<1>2. n = Cardinality(S)
  BY <1>1, FS_CountingElements
<1>3. PICK f : f \in Bijection(1 .. n, S)
  BY <1>1 DEF ExistsBijection
<1>4. f \in [1 .. n -> S] /\ IsInjective(f)
  BY <1>3 DEF Bijection, Injection
<1>5. SetToSeq(S) \in [1 .. n -> S]
  BY <1>2, <1>4 DEF SetToSeq
<1>. QED  BY <1>5

LEMMA DeskImport ==
  ASSUME DeskInv, NEW in \in Files, Import(in)
  PROVE  DeskInv'
<1>. DEFINE tags == SetToSeq(in.tags \ DOMAIN doc.tags)
            merged == Merge(doc, in)
            ruled == Apply(doc, [t |-> "rules", rules |-> merged])
            op == [t |-> "tags", mids |-> {}, add |-> tags, remove |-> {}]
<1>1. /\ Step /\ UNCHANGED <<index, now>>
      /\ doc' = IF tags = <<>> THEN ruled ELSE Apply(ruled, op)
  BY DEF Import
<1>2. tags \in Seq(Labels)
  <2>. DEFINE S == in.tags \ DOMAIN doc.tags
  <2>1. S \subseteq Labels
    BY DEF Labels
  <2>. HIDE DEF S
  <2>2. IsFiniteSet(S)
    BY <2>1, LabelsFinite, FS_Subset
  <2>3. SetToSeq(S) \in Seq(S)
    BY <2>2, SetToSeqIs
  <2>4. SetToSeq(S) \in Seq(Labels)
    BY <2>1, <2>3
  <2>. QED  BY <2>4 DEF S
<1>3. merged \in Seq(Rules)
  BY FileRules, MergeIs DEF DeskInv, IsDoc, Joined
<1>. HIDE DEF merged
<1>4. IsDoc(ruled, DOMAIN index)
  BY <1>3, RulesReplaced DEF DeskInv
<1>. HIDE DEF ruled
<1>5. op.t = "tags" /\ op.mids = {} /\ op.add = tags
  OBVIOUS
<1>. HIDE DEF op, tags
<1>6. IsStep(op, DOMAIN index, Labels) /\ Recasts(op) = {}
  BY <1>2, <1>5 DEF IsStep, Kind, Recasts
<1>7. IsData(ruled, DOMAIN index, Labels) /\ Listed(ruled, {})
  BY <1>4 DEF IsDoc
<1>8. AfterTags(Apply(ruled, op), ruled, DOMAIN index, Labels, op)
  BY <1>5, <1>6, <1>7, LabelsFinite, TagsOf
<1>9. Listed(Apply(ruled, op), {})
  BY <1>6, <1>7, LabelsFinite, ApplyListed
<1>10. IsDoc(Apply(ruled, op), DOMAIN index)
  BY <1>4, <1>8, <1>9 DEF AfterTags, IsDoc
<1>11. IsDoc(doc', DOMAIN index)
  BY <1>1, <1>4, <1>10
<1>. QED  BY <1>1, <1>11, DocChanges

LEMMA DeskNext == ASSUME DeskInv, [Next]_vars PROVE DeskInv'
<1>1. CASE UNCHANGED vars
  BY <1>1 DEF vars, DeskInv
<1>2. ASSUME NEW x \in Key, NEW l \in Letters, Arrive(x, l) PROVE DeskInv'
  BY <1>2, DeskArrive
<1>3. ASSUME NEW x \in DOMAIN index, Read(x) PROVE DeskInv'
  BY <1>3, DeskRead
<1>4. ASSUME NEW x \in DOMAIN index, NEW f \in Folder, Move(x, f) PROVE DeskInv'
  BY <1>4, DeskMove
<1>5. ASSUME Dialog PROVE DeskInv'
  BY <1>5, DeskDialog
<1>6. ASSUME NEW force \in BOOLEAN, ApplyRules(force) PROVE DeskInv'
  BY <1>6, DeskApply
<1>7. ASSUME NEW in \in Files, Import(in) PROVE DeskInv'
  BY <1>7, DeskImport
<1>8. ASSUME NEW f, (f \in ToSave /\ SaveFilter(f)) \/ DropFilter(f) PROVE DeskInv'
  BY <1>8, DeskSearches
<1>. QED  BY <1>1, <1>2, <1>3, <1>4, <1>5, <1>6, <1>7, <1>8, Zenon DEF Next

LEMMA DeskTyped == ASSUME DeskInv PROVE TypeOK
<1>1. steps \in 0 .. MaxSteps /\ now \in 1 .. MaxSteps + 1
  BY DeskAssumption DEF DeskInv
<1>2. DOMAIN index \subseteq Key /\ \A x \in DOMAIN index : index[x].folder \in Folder /\ index[x].date \in 1 .. now - 1
  BY IndexIs DEF DeskInv, IsIndex
<1>3. \A x \in DOMAIN index : index[x].date < now
  BY <1>1, <1>2
<1>4. DOMAIN doc.msgs \subseteq DOMAIN index
  BY DEF DeskInv, IsDoc, IsData
<1>5. \A x \in DOMAIN doc.msgs : Range(doc.msgs[x].tags) \subseteq DOMAIN doc.tags
  BY DEF DeskInv, IsDoc, Listed, Entry
<1>. QED  BY <1>1, <1>2, <1>3, <1>4, <1>5 DEF TypeOK

-----------------------------------------------------------------------------
(* Decisions.                                                                *)

\* What comes behind does not decide where something decided before.
LEMMA DecidingStays ==
  ASSUME NEW a \in Seq(Rules), NEW b \in Seq(Rules), Starts(a, b), NEW m, Deciding(a, m) # <<>>
  PROVE  Deciding(b, m) = Deciding(a, m)
<1>. DEFINE H(s) == {i \in DOMAIN s : s[i].enabled /\ Hits(s[i], m)}
<1>1. PICK i \in H(a) : Deciding(a, m) = <<a[i]>> /\ \A j \in H(a) : i <= j
  BY DecidingIs
<1>2. \/ H(b) = {} /\ Deciding(b, m) = <<>>
      \/ \E j \in H(b) : Deciding(b, m) = <<b[j]>> /\ \A k \in H(b) : j <= k
  BY DecidingIs
<1>3. /\ Len(a) \in Nat /\ Len(b) \in Nat /\ Len(a) <= Len(b) /\ DOMAIN a = 1 .. Len(a) /\ DOMAIN b = 1 .. Len(b)
      /\ \A k \in 1 .. Len(a) : k \in 1 .. Len(b) /\ b[k] = a[k]
  BY DEF Starts
<1>4. \A k \in 1 .. Len(a) : k \in H(a) <=> k \in H(b)
  BY <1>3
<1>5. i \in 1 .. Len(a)
  BY <1>3
<1>6. \A k \in H(b) : k \in 1 .. Len(b)
  BY <1>3
<1>. HIDE DEF H
<1>7. PICK j \in H(b) : Deciding(b, m) = <<b[j]>> /\ \A k \in H(b) : j <= k
  BY <1>2, <1>4, <1>5
<1>8. j \in 1 .. Len(a)
  BY <1>3, <1>4, <1>5, <1>6, <1>7
<1>9. i = j
  BY <1>1, <1>3, <1>4, <1>5, <1>7, <1>8
<1>. QED  BY <1>1, <1>3, <1>5, <1>7, <1>9

LEMMA ImportsKeep == ASSUME DeskInv PROVE ImportKeepsDecisions
<1>1. doc.rules \in Seq(Rules) /\ IsData(doc, DOMAIN index, Labels)
  BY DEF DeskInv, IsDoc
<1>. DEFINE mine == doc.rules
            With(rules) == [doc EXCEPT !.rules = rules]
<1>2. \A rules : With(rules).rules = rules
  BY <1>1 DEF IsData
<1>3. ASSUME NEW in, in.rules \in Seq(Rules)
      PROVE  /\ Joined(Merge(doc, in), mine, in.rules, Len(in.rules))
             /\ Merge(With(Merge(doc, in)), in) = Merge(doc, in)
  <2>. DEFINE n == Len(in.rules)
              m == Merge(doc, in)
              d == With(m)
  <2>1. Joined(m, mine, in.rules, n)
    BY <1>1, <1>3, MergeIs
  <2>2. d.rules = m
    BY <1>2
  <2>. HIDE DEF m, d
  <2>3. m \in Seq(Rules) /\ \A i \in 1 .. n : HasKey(m, in.rules[i])
    BY <2>1 DEF Joined
  <2>4. Joined(Merge(d, in), d.rules, in.rules, n)
    BY <1>3, <2>2, <2>3, MergeIs
  <2>5. Merge(d, in) = m
    BY <2>2, <2>3, <2>4 DEF Joined
  <2>. QED  BY <2>1, <2>5 DEF m, d
<1>4. ASSUME NEW in \in Files
      PROVE  LET d == [doc EXCEPT !.rules = Merge(doc, in)] IN
             /\ \A x \in DOMAIN index :
                  LET r == Deciding(doc.rules, index[x]) IN r # <<>> => Deciding(d.rules, index[x]) = r
             /\ Merge(d, in) = d.rules
  <2>. DEFINE m == Merge(doc, in)
              d == With(m)
  <2>1. in.rules \in Seq(Rules)
    BY FileRules
  <2>2. Joined(m, mine, in.rules, Len(in.rules)) /\ Merge(d, in) = m
    BY <1>3, <2>1
  <2>3. d.rules = m
    BY <1>2
  <2>. HIDE DEF m
  <2>4. m \in Seq(Rules) /\ Starts(mine, m)
    BY <2>2 DEF Joined
  <2>5. ASSUME NEW x \in DOMAIN index, Deciding(mine, index[x]) # <<>>
        PROVE  Deciding(m, index[x]) = Deciding(mine, index[x])
    BY <1>1, <2>4, <2>5, DecidingStays
  <2>. QED  BY <2>2, <2>3, <2>5 DEF m
<1>5. Export(doc).rules = mine
  BY DEF Export
<1>. DEFINE out == Export(doc)
<1>. HIDE DEF out
<1>6. out.rules = mine /\ out.rules \in Seq(Rules)
  BY <1>1, <1>5 DEF out
<1>7. Merge(With(Merge(doc, out)), out) = Merge(doc, out) /\ Joined(Merge(doc, out), mine, mine, Len(mine))
  BY <1>3, <1>6
<1>8. \A i \in 1 .. Len(mine) : HasKey(mine, mine[i])
  BY <1>1 DEF HasKey, Range
<1>9. Merge(doc, out) = mine
  BY <1>7, <1>8 DEF Joined
<1>. QED  BY <1>4, <1>7, <1>9 DEF ImportKeepsDecisions, out

\* Where a message is filed is not what a rule looks at.
LEMMA HitsAnywhere ==
  ASSUME NEW r, NEW m, NEW n, m.from = n.from, m.name = n.name, m.to = n.to, m.words = n.words
  PROVE  Hits(r, m) = Hits(r, n)
BY DEF Hits

LEMMA DecidesAnywhere ==
  ASSUME NEW rules, NEW m, NEW n, m.from = n.from, m.name = n.name, m.to = n.to, m.words = n.words
  PROVE  Deciding(rules, m) = Deciding(rules, n)
<1>1. \A r : Hits(r, m) = Hits(r, n)
  BY HitsAnywhere
<1>2. {i \in DOMAIN rules : rules[i].enabled /\ Hits(rules[i], m)}
        = {i \in DOMAIN rules : rules[i].enabled /\ Hits(rules[i], n)}
  BY <1>1
<1>. QED  BY <1>2 DEF Deciding

LEMMA RulesRest == ASSUME DeskInv PROVE RulesSettle
<1>1. /\ IsIndex(index, now) /\ IsData(doc, DOMAIN index, Labels) /\ Listed(doc, {})
      /\ doc.rules \in Seq(Rules)
  BY DEF DeskInv, IsDoc
<1>2. ASSUME NEW force \in BOOLEAN
      PROVE  LET plan == PlanRules(index, doc, force)
                 idx == RuledIndex(index, plan)
                 d == RuledDoc(doc, plan)
             IN /\ IsPlan(plan, DOMAIN index, Labels)
                /\ \A x \in DOMAIN plan : plan[x] = <<>> \/ \E r \in Rules : plan[x] = <<r>>
                /\ Refiled(idx, index) /\ Treated(d, doc, DOMAIN index, Labels, plan, DOMAIN plan)
  <2>. DEFINE plan == PlanRules(index, doc, force)
  <2>1. /\ IsPlan(plan, DOMAIN index, Labels)
        /\ \A x \in DOMAIN plan : plan[x] = <<>> \/ \E r \in Rules : plan[x] = <<r>>
    BY <1>1, PlanIs
  <2>. HIDE DEF plan
  <2>2. Refiled(RuledIndex(index, plan), index)
    BY <1>1, <2>1, RuledIndexIs
  <2>3. Treated(RuledDoc(doc, plan), doc, DOMAIN index, Labels, plan, DOMAIN plan)
    BY <1>1, <2>1, LabelsFinite, RuledDocIs
  <2>. QED  BY <2>1, <2>2, <2>3 DEF plan
<1>3. ASSUME NEW x \in DOMAIN RuledIndex(index, PlanRules(index, doc, FALSE)), NEW f \in Folder
      PROVE  PlanRules([RuledIndex(index, PlanRules(index, doc, FALSE)) EXCEPT ![x].folder = f],
                       RuledDoc(doc, PlanRules(index, doc, FALSE)), FALSE) = <<>>
  <2>. DEFINE plan == PlanRules(index, doc, FALSE)
              d == RuledDoc(doc, plan)
              idx == [RuledIndex(index, plan) EXCEPT ![x].folder = f]
              again == PlanRules(idx, d, FALSE)
              xs == {y \in DOMAIN idx : /\ \E r \in Range(d.rules) : r.enabled
                                        /\ FALSE \/ ~Entry(d, y).ruled}
  <2>1. DOMAIN plan = {y \in DOMAIN index : /\ \E r \in Range(doc.rules) : r.enabled
                                            /\ FALSE \/ ~Entry(doc, y).ruled}
    BY DEF PlanRules
  <2>2. again = [y \in xs |-> IF idx[y].folder \in SkipsRules /\ ~FALSE THEN <<>> ELSE Deciding(d.rules, idx[y])]
    BY DEF PlanRules
  <2>3. Treated(d, doc, DOMAIN index, Labels, plan, DOMAIN plan) /\ Refiled(RuledIndex(index, plan), index)
    BY <1>2
  <2>4. DOMAIN idx = DOMAIN index
    BY <2>3 DEF Refiled
  <2>. HIDE DEF plan, d, idx, again
  <2>5. ASSUME NEW y \in DOMAIN index, \E r \in Range(d.rules) : r.enabled PROVE Entry(d, y).ruled
    <3>1. d.rules = doc.rules
      BY <2>3 DEF Treated
    <3>2. CASE y \in DOMAIN plan
      <4>1. Entry(d, y).ruled = TRUE
        BY <2>3, <3>2 DEF Treated, Settled
      <4>. QED  BY <4>1
    <3>3. CASE y \notin DOMAIN plan
      <4>1. Entry(doc, y).ruled
        BY <2>1, <2>5, <3>1, <3>3
      <4>2. Entry(d, y) = Entry(doc, y)
        BY <2>3, <3>3 DEF Treated
      <4>. QED  BY <4>1, <4>2
    <3>. QED  BY <3>2, <3>3
  <2>6. xs = {}
    BY <2>4, <2>5
  <2>7. again = <<>>
    BY <2>2, <2>6
  <2>. QED  BY <2>7 DEF again, idx, d, plan
<1>. DEFINE all == PlanRules(index, doc, TRUE)
            idx == RuledIndex(index, all)
            d == RuledDoc(doc, all)
            again == PlanRules(idx, d, TRUE)
<1>4. IsPlan(all, DOMAIN index, Labels) /\ Refiled(idx, index) /\ Treated(d, doc, DOMAIN index, Labels, all, DOMAIN all)
  BY <1>2
<1>5. all = [y \in {y \in DOMAIN index : (\E r \in Range(doc.rules) : r.enabled) /\ TRUE} |-> Deciding(doc.rules, index[y])]
  BY DEF PlanRules
<1>6. again = [y \in {y \in DOMAIN idx : (\E r \in Range(d.rules) : r.enabled) /\ TRUE} |-> Deciding(d.rules, idx[y])]
  BY DEF PlanRules
<1>7. idx = [x \in DOMAIN index |->
               IF x \in DOMAIN all /\ all[x] # <<>> /\ all[x][1].folder # {}
                 THEN [index[x] EXCEPT !.folder = CHOOSE f \in all[x][1].folder : TRUE] ELSE index[x]]
  BY DEF RuledIndex
<1>. HIDE DEF all, idx, d, again
<1>8. /\ IsIndex(idx, now) /\ DOMAIN idx = DOMAIN index
      /\ \A x \in DOMAIN index : idx[x].from = index[x].from /\ idx[x].name = index[x].name
                                 /\ idx[x].to = index[x].to /\ idx[x].words = index[x].words
  <2>1. DOMAIN idx = DOMAIN index
    BY <1>4 DEF Refiled
  <2>. QED  BY <1>1, <1>4, <2>1, RefiledIs
<1>9. d.rules = doc.rules /\ IsData(d, DOMAIN index, Labels) /\ Listed(d, {}) /\ \A x \in DOMAIN all : Settled(Entry(d, x), all[x])
  BY <1>4 DEF Treated
<1>10. again = all
  <2>1. \A x \in DOMAIN index : Deciding(doc.rules, index[x]) = Deciding(d.rules, idx[x])
    BY <1>8, <1>9, DecidesAnywhere
  <2>. QED  BY <1>5, <1>6, <1>8, <1>9, <2>1
<1>11. RuledIndex(idx, again) = idx
  <2>1. RuledIndex(idx, all) = [x \in DOMAIN idx |->
               IF x \in DOMAIN all /\ all[x] # <<>> /\ all[x][1].folder # {}
                 THEN [idx[x] EXCEPT !.folder = CHOOSE f \in all[x][1].folder : TRUE] ELSE idx[x]]
    BY DEF RuledIndex
  <2>2. ASSUME NEW x \in DOMAIN idx, x \in DOMAIN all, all[x] # <<>>, all[x][1].folder # {}
        PROVE  [idx[x] EXCEPT !.folder = CHOOSE f \in all[x][1].folder : TRUE] = idx[x]
    <3>. DEFINE f == CHOOSE f \in all[x][1].folder : TRUE
    <3>1. idx[x] = [index[x] EXCEPT !.folder = f]
      BY <1>7, <1>8, <2>2
    <3>2. IsMail(index[x], now)
      BY <1>1, <1>8 DEF IsIndex
    <3>. HIDE DEF f
    <3>3. [idx[x] EXCEPT !.folder = f] = idx[x]
      BY <3>1, <3>2 DEF IsMail
    <3>. QED  BY <3>3 DEF f
  <2>3. idx = [x \in DOMAIN idx |-> idx[x]]
    BY <1>8 DEF IsIndex
  <2>. QED  BY <1>10, <2>1, <2>2, <2>3
<1>12. RuledDoc(d, again) = d
  <2>1. Treated(RuledDoc(d, all), d, DOMAIN index, Labels, all, DOMAIN all)
    BY <1>4, <1>9, LabelsFinite, RuledDocIs
  <2>. QED  BY <1>9, <1>10, <2>1 DEF Treated
<1>. QED  BY <1>3, <1>11, <1>12 DEF RulesSettle, again, idx, d, all

\* What is not taken out of the end of a list stays its end.
LEMMA StripLast ==
  ASSUME NEW S, NEW s \in Seq(S), NEW e \in S, NEW gone, e \notin gone
  PROVE  \E k \in Seq(S) : Strip(Append(s, e), gone) = Append(k, e)
<1>. DEFINE list == Append(s, e)
            n == Len(s)
<1>1. list \in Seq(S) /\ n \in Nat /\ Len(list) = n + 1 /\ list[n + 1] = e /\ \A i \in 1 .. n : list[i] = s[i]
  OBVIOUS
<1>. HIDE DEF list, n
<1>2. PICK g : Stripping(g, list, gone)
  BY <1>1, StripSteps
<1>3. /\ g[0] = <<>> /\ Strip(list, gone) = g[n + 1]
      /\ \A k \in 1 .. n + 1 : g[k] = IF list[k] \in gone THEN g[k - 1] ELSE Append(g[k - 1], list[k])
  BY <1>1, <1>2 DEF Stripping
<1>. DEFINE T == {k \in 0 .. n : g[k] \in Seq(S)}
<1>4. 0 \in T
  <2>1. <<>> \in Seq(S) /\ 0 \in 0 .. n
    BY <1>1
  <2>. QED  BY <1>3, <2>1
<1>5. ASSUME NEW k \in 1 .. n, k - 1 \in T PROVE k \in T
  <2>1. k \in 1 .. n + 1 /\ k \in 0 .. n /\ list[k] \in S /\ g[k - 1] \in Seq(S)
    BY <1>1, <1>5
  <2>2. Append(g[k - 1], list[k]) \in Seq(S)
    BY <2>1
  <2>3. g[k] = g[k - 1] \/ g[k] = Append(g[k - 1], list[k])
    BY <1>3, <2>1
  <2>. QED  BY <2>1, <2>2, <2>3
<1>. HIDE DEF T
<1>6. \A k \in 0 .. n : k \in T
  BY <1>1, <1>4, <1>5, ByCounting
<1>7. g[n] \in Seq(S)
  BY <1>1, <1>6 DEF T
<1>8. g[n + 1] = Append(g[n], e)
  <2>1. ASSUME NEW k \in 1 .. n + 1, k = n + 1 PROVE g[k] = Append(g[n], e)
    <3>1. list[k] \notin gone /\ list[k] = e /\ k - 1 = n
      BY <1>1, <2>1
    <3>2. g[k] = Append(g[k - 1], list[k])
      BY <1>3, <3>1
    <3>. QED  BY <3>1, <3>2
  <2>2. n + 1 \in 1 .. n + 1
    BY <1>1
  <2>. QED  BY <2>1, <2>2
<1>. QED  BY <1>3, <1>7, <1>8 DEF list

LEMMA SuggestedStays ==
  ASSUME NEW s, Suggested(s) \in Rules
  PROVE  CleanRule(Suggested(s)) = Suggested(s)
<1>. DEFINE r == Suggested(s)
<1>1. r.field = "from" /\ r.tags = <<>> /\ Len(<<>>) = 0 /\ MaxTags \in Nat
  BY DeskAssumption DEF Suggested
<1>2. r = [field |-> r.field, contains |-> r.contains, folder |-> r.folder, tags |-> r.tags,
           star |-> r.star, read |-> r.read, enabled |-> r.enabled]
  BY DEF Suggested
<1>. HIDE DEF r
<1>3. CleanRule(r) = [r EXCEPT !.field = r.field, !.tags = r.tags]
  <2>1. (IF r.field \in {"from", "to", "subject"} THEN r.field ELSE "any") = r.field
    BY <1>1
  <2>2. (IF Len(r.tags) > MaxTags THEN SubSeq(r.tags, 1, MaxTags) ELSE r.tags) = r.tags
    BY <1>1
  <2>. QED  BY <2>1, <2>2, Zenon DEF CleanRule
<1>4. CleanRule(r) = r
  BY <1>2, <1>3
<1>. QED  BY <1>4 DEF r

\* The accepted row stays the last of the rules.
LEMMA AcceptedIsLast ==
  ASSUME NEW rows \in Seq(Rules), NEW s, Suggested(s) \in Rules, s.contains # Blank
  PROVE  LET rules == CleanRules(Append(rows, Suggested(s)))
         IN rules \in Seq(Rules) /\ Len(rules) > 0 /\ rules[Len(rules)] = Suggested(s)
<1>. DEFINE r == Suggested(s)
            list == Append(rows, r)
            gone == {q \in Range(list) : q.contains = Blank}
            rules == CleanRules(list)
<1>1. list \in Seq(Rules) /\ r.contains = s.contains
  BY DEF Suggested
<1>2. rules \in Seq(Rules)
  BY <1>1, CleanRulesAre
<1>3. rules = [i \in DOMAIN Strip(list, gone) |-> CleanRule(Strip(list, gone)[i])]
  BY DEF CleanRules
<1>4. r \notin gone
  BY <1>1
<1>5. CleanRule(r) = r
  BY SuggestedStays
<1>6. r \in Rules
  OBVIOUS
<1>. HIDE DEF r, gone
<1>7. PICK k \in Seq(Rules) : Strip(list, gone) = Append(k, r)
  BY <1>4, <1>6, StripLast
<1>. HIDE DEF list, rules
<1>8. Len(k) \in Nat /\ DOMAIN Append(k, r) = 1 .. Len(k) + 1 /\ Append(k, r)[Len(k) + 1] = r
  OBVIOUS
<1>9. rules = [i \in 1 .. Len(k) + 1 |-> CleanRule(Append(k, r)[i])]
  BY <1>3, <1>7, <1>8
<1>10. Len(rules) = Len(k) + 1 /\ rules[Len(k) + 1] = CleanRule(r)
  BY <1>2, <1>8, <1>9
<1>11. Len(rules) > 0 /\ rules[Len(rules)] = r
  BY <1>5, <1>8, <1>10
<1>. QED  BY <1>2, <1>11 DEF rules, list, r

LEMMA SuggestionRests == ASSUME DeskInv PROVE SuggestionSettles
<1>1. /\ IsFiniteSet(DOMAIN index) /\ \A x \in DOMAIN index : index[x].folder \in Folder
      /\ doc.rules \in Seq(Rules)
  BY IndexIs DEF DeskInv, IsDoc
<1>2. ASSUME NEW s \in Suggest(index, doc.rules)
      PROVE  LET rules == CleanRules(Append(Rows(doc.rules), Suggested(s))) IN
             /\ ~Refused(Append(Rows(doc.rules), Suggested(s)))
             /\ \A t \in Suggest(index, rules) : t.contains # s.contains
             /\ \A x \in Evidence(index, s.contains) :
                  LET r == Deciding(rules, index[x]) IN
                  r # <<>> /\ (r[1].folder = {s.folder} \/ \E q \in Range(SubSeq(rules, 1, Len(rules) - 1)) : q = r[1])
  <2>. DEFINE rows == Rows(doc.rules)
              last == Suggested(s)
              rules == CleanRules(Append(rows, last))
              n == Len(rules)
  <2>1. s.contains \in Addr /\ last \in Rules
    BY <1>1, SuggestedIs
  <2>2. s.contains # Blank /\ s.contains \in Within[s.contains]
    BY <2>1, DeskAssumption
  <2>3. rows \in Seq(Rules)
    <3>1. doc.rules \in Seq(Offered \cup Rules)
      BY <1>1
    <3>. QED  BY <1>1, <3>1, RowsAre
  <2>4. /\ last.field = "from" /\ last.contains = s.contains /\ last.folder = {s.folder} /\ last.enabled = TRUE
    BY DEF Suggested
  <2>. HIDE DEF rows
  <2>5. rules \in Seq(Rules) /\ n > 0 /\ rules[n] = last
    BY <2>1, <2>2, <2>3, AcceptedIsLast
  <2>6. ~Refused(Append(rows, last))
    <3>. HIDE DEF last
    <3>1. Range(Append(rows, last)) = Range(rows) \cup {last}
      BY <2>3, AppendRange
    <3>2. \A q \in Range(rows) : q \in Rules
      BY <2>3 DEF Range
    <3>3. \A q \in Range(Append(rows, last)) : q.folder \subseteq Folder
      BY <2>1, <3>1, <3>2 DEF Rules
    <3>. QED  BY <3>3 DEF Refused
  <2>. HIDE DEF rules, last
  <2>7. n \in Nat /\ n \in DOMAIN rules /\ DOMAIN rules = 1 .. n
    BY <2>5
  <2>8. ASSUME NEW t \in Suggest(index, rules) PROVE t.contains # s.contains
    <3>1. ~Covered(rules, t.contains)
      BY <1>1, SuggestedIs
    <3>2. Covered(rules, s.contains)
      BY <2>2, <2>4, <2>5, <2>7 DEF Covered, Range
    <3>. QED  BY <3>1, <3>2
  <2>9. ASSUME NEW x \in Evidence(index, s.contains)
        PROVE  LET r == Deciding(rules, index[x]) IN
               r # <<>> /\ (r[1].folder = {s.folder} \/ \E q \in Range(SubSeq(rules, 1, n - 1)) : q = r[1])
    <3>. DEFINE m == index[x]
                hits == {i \in DOMAIN rules : rules[i].enabled /\ Hits(rules[i], m)}
    <3>1. m.from = s.contains
      BY DEF Evidence, Keys
    <3>2. Found(s.contains, {m.from, m.name})
      BY <2>2, <3>1 DEF Found
    <3>. HIDE DEF m
    <3>3. Hits(last, m)
      BY <2>4, <3>2 DEF Hits
    <3>4. n \in hits
      BY <2>4, <2>5, <2>7, <3>3
    <3>5. PICK i \in hits : Deciding(rules, m) = <<rules[i]>> /\ \A j \in hits : i <= j
      BY <2>5, <3>4, DecidingIs
    <3>6. i \in 1 .. n
      BY <2>7
    <3>. HIDE DEF hits, n
    <3>7. Deciding(rules, m) # <<>> /\ Deciding(rules, m)[1] = rules[i]
      BY <3>5
    <3>8. CASE i = n
      BY <2>4, <2>5, <3>7, <3>8 DEF m, n
    <3>9. CASE i # n
      <4>. DEFINE front == SubSeq(rules, 1, n - 1)
      <4>1. i \in 1 .. n - 1 /\ n - 1 \in Nat
        BY <2>7, <3>6, <3>9
      <4>2. DOMAIN front = 1 .. n - 1 /\ front[i] = rules[i]
        BY <2>5, <2>7, <4>1
      <4>3. rules[i] \in Range(front)
        BY <4>1, <4>2 DEF Range
      <4>. QED  BY <3>7, <4>3 DEF m, n
    <3>. QED  BY <3>8, <3>9 DEF n
  <2>. QED  BY <2>6, <2>8, <2>9 DEF rules, rows, last
<1>. QED  BY <1>2 DEF SuggestionSettles

LEMMA DeskIsSound == Spec => []DeskInv
<1>1. Init => DeskInv
  BY DeskInit
<1>2. DeskInv /\ [Next]_vars => DeskInv'
  BY DeskNext
<1>. QED  BY <1>1, <1>2, PTL DEF Spec

\* The document, the index and the suggestions keep their types (core/state.go
\* Data, core/folder.go, core/suggest.go).
THEOREM TypeCorrect == Spec => []TypeOK
<1>1. DeskInv => TypeOK
  BY DeskTyped
<1>. QED  BY <1>1, DeskIsSound, PTL

\* Rules that have run find nothing more to do, whatever one moves by hand
\* afterwards (core/rules.go); a suggestion one accepts is not made again and
\* moves nothing that agrees with it (core/suggest.go); an import overrules no
\* rule in force (core/portable.go); and saving one search costs no other
\* (core/filters.go).
THEOREM DecisionsHold ==
  Spec => [](RulesSettle /\ SuggestionSettles /\ ImportKeepsDecisions /\ FiltersStay)
<1>1. DeskInv => RulesSettle /\ SuggestionSettles /\ ImportKeepsDecisions /\ FiltersStay
  <2>. SUFFICES ASSUME DeskInv
                PROVE  RulesSettle /\ SuggestionSettles /\ ImportKeepsDecisions /\ FiltersStay
    OBVIOUS
  <2>1. CleanOnes(doc.filters)
    BY DEF DeskInv, IsDoc
  <2>. QED  BY <2>1, RulesRest, SuggestionRests, ImportsKeep, SearchesStay
<1>. QED  BY <1>1, DeskIsSound, PTL

-----------------------------------------------------------------------------
(* The pages of one index.                                                   *)

LEMMA SearchIs ==
  ASSUME NEW t, NEW idx, IsIndex(idx, t), NEW d, NEW terms, NEW filters, NEW o
  PROVE  LET S == Finds(idx, d, terms, filters, o)
         IN Search(idx, d, terms, filters, o) = Newest(idx, S)
              /\ Len(Search(idx, d, terms, filters, o)) = Cardinality(S)
<1>. DEFINE S == Finds(idx, d, terms, filters, o)
<1>1. Search(idx, d, terms, filters, o) = Newest(idx, S)
  BY DEF Search, Finds
<1>2. S \in SUBSET DOMAIN idx
  BY DEF Finds
<1>. HIDE DEF S
<1>3. IsFiniteSet(S)
  BY <1>2, IndexIs, FS_Subset
<1>4. \A x \in S : idx[x].date \in Nat
  BY <1>2, IndexIs
<1>5. \A x, y \in S : idx[x].date = idx[y].date => x = y
  BY <1>2 DEF IsIndex
<1>6. Len(Newest(idx, S)) = Cardinality(S)
  BY <1>3, <1>4, <1>5, NewestIs
<1>. QED  BY <1>1, <1>6 DEF S

LEMMA MatchesIs ==
  ASSUME NEW idx, NEW d, NEW x, NEW w
  PROVE  /\ Matches(idx, d, x, "in", w) <=> w \in Called(idx[x].folder)
         /\ Matches(idx, d, x, "is", "unread") <=> ~Entry(d, x).read
<1>1. Matches(idx, d, x, "in", w) <=> w \in Called(idx[x].folder)
  BY DEF Matches
<1>2. Matches(idx, d, x, "is", "unread") <=> ~Entry(d, x).read
  BY DEF Matches
<1>. QED  BY <1>1, <1>2

LEMMA FindsIs ==
  ASSUME NEW idx, NEW d, NEW filters, NEW o, o.star = FALSE, o.tag = {}
  PROVE  \A x : x \in Finds(idx, d, {}, filters, o) <=>
           /\ x \in DOMAIN idx
           /\ o.folder = {} \/ idx[x].folder \in o.folder
           /\ o.unread => ~Entry(d, x).read
           /\ \A g \in filters : Matches(idx, d, x, g[1], g[2])
BY DEF Finds

LEMMA FindsFolder ==
  ASSUME NEW idx, NEW d, NEW f
  PROVE  /\ Finds(idx, d, {}, {}, [Options EXCEPT !.folder = {f}]) = InFolder(idx, f)
         /\ Finds(idx, d, {}, {}, [Options EXCEPT !.folder = {f}, !.unread = TRUE]) = FreshIn(idx, d, f)
<1>. DEFINE o1 == [Options EXCEPT !.folder = {f}]
            o2 == [Options EXCEPT !.folder = {f}, !.unread = TRUE]
<1>1. /\ o1.star = FALSE /\ o1.tag = {} /\ o1.folder = {f} /\ o1.unread = FALSE
      /\ o2.star = FALSE /\ o2.tag = {} /\ o2.folder = {f} /\ o2.unread = TRUE
  BY DEF Options
<1>. HIDE DEF o1, o2
<1>2. \A x : x \in Finds(idx, d, {}, {}, o1) <=> x \in InFolder(idx, f)
  BY <1>1, FindsIs DEF InFolder
<1>3. \A x : x \in Finds(idx, d, {}, {}, o2) <=> x \in FreshIn(idx, d, f)
  BY <1>1, FindsIs DEF InFolder, FreshIn
<1>4. Finds(idx, d, {}, {}, o1) = InFolder(idx, f)
  <2>1. Finds(idx, d, {}, {}, o1) \subseteq DOMAIN idx
    BY DEF Finds
  <2>. QED  BY <1>2, <2>1
<1>5. Finds(idx, d, {}, {}, o2) = FreshIn(idx, d, f)
  BY <1>3
<1>. QED  BY <1>4, <1>5 DEF o1, o2

\* A word that is one folder's own finds that folder.
LEMMA OwnWord ==
  ASSUME NEW idx, NEW d, \A x \in DOMAIN idx : idx[x].folder \in Folder, NEW f,
         NEW w, w \in Called(f), \A g \in Folder : w \in Called(g) => g = f
  PROVE  /\ Finds(idx, d, {}, {<<"in", w>>}, Options) = InFolder(idx, f)
         /\ Finds(idx, d, {}, {<<"in", w>>, <<"is", "unread">>}, Options) = FreshIn(idx, d, f)
<1>. DEFINE g == <<"in", w>>
            h == <<"is", "unread">>
<1>1. g[1] = "in" /\ g[2] = w /\ h[1] = "is" /\ h[2] = "unread"
  OBVIOUS
<1>2. Options.star = FALSE /\ Options.tag = {} /\ Options.folder = {} /\ Options.unread = FALSE
  BY DEF Options
<1>. HIDE DEF g, h
<1>3. \A x \in DOMAIN idx : w \in Called(idx[x].folder) <=> idx[x].folder = f
  OBVIOUS
<1>4. \A x : (\A k \in {g} : Matches(idx, d, x, k[1], k[2])) <=> w \in Called(idx[x].folder)
  BY <1>1, MatchesIs, Zenon
<1>5. \A x : (\A k \in {g, h} : Matches(idx, d, x, k[1], k[2]))
                <=> w \in Called(idx[x].folder) /\ ~Entry(d, x).read
  BY <1>1, MatchesIs, Zenon
<1>6. /\ \A x : x \in Finds(idx, d, {}, {g}, Options)
                  <=> x \in DOMAIN idx /\ \A k \in {g} : Matches(idx, d, x, k[1], k[2])
      /\ \A x : x \in Finds(idx, d, {}, {g, h}, Options)
                  <=> x \in DOMAIN idx /\ \A k \in {g, h} : Matches(idx, d, x, k[1], k[2])
  BY ZenonT(60), <1>2, FindsIs
<1>7. \A x : x \in Finds(idx, d, {}, {g}, Options) <=> x \in InFolder(idx, f)
  <2>1. \A x : x \in InFolder(idx, f) <=> x \in DOMAIN idx /\ idx[x].folder = f
    BY DEF InFolder
  <2>. QED  BY <1>3, <1>4, <1>6, <2>1, Zenon
<1>8. \A x : x \in Finds(idx, d, {}, {g, h}, Options) <=> x \in FreshIn(idx, d, f)
  <2>1. \A x : x \in FreshIn(idx, d, f) <=> x \in DOMAIN idx /\ idx[x].folder = f /\ ~Entry(d, x).read
    BY DEF InFolder, FreshIn
  <2>. QED  BY <1>3, <1>5, <1>6, <2>1, Zenon
<1>9. Finds(idx, d, {}, {g}, Options) = InFolder(idx, f)
  BY <1>7 DEF Finds, InFolder
<1>10. Finds(idx, d, {}, {g, h}, Options) = FreshIn(idx, d, f)
  BY <1>8 DEF Finds, FreshIn
<1>. QED  BY <1>9, <1>10 DEF g, h

-----------------------------------------------------------------------------
(* The sidebar counts what the list shows.                                   *)

LEMMA SideCounts ==
  ASSUME NEW f, NEW idx, NEW d
  PROVE  /\ Side(f, idx, d).count = Cardinality(InFolder(idx, f))
         /\ Side(f, idx, d).unread = Cardinality(FreshIn(idx, d, f))
<1>. DEFINE c == Cardinality(InFolder(idx, f))
            u == Cardinality(FreshIn(idx, d, f))
<1>1. Side(f, idx, d) = [name |-> f, count |-> c, unread |-> u]
  BY DEF Side, InFolder, FreshIn
<1>. HIDE DEF c, u
<1>2. Side(f, idx, d).count = c /\ Side(f, idx, d).unread = u
  BY <1>1
<1>. QED  BY <1>2 DEF c, u

LEMMA CountedMore ==
  ASSUME NEW idx, IsFiniteSet(DOMAIN idx), NEW names, NEW k \in Nat \ {0}, NEW v, Counted(v, idx, names, k - 1),
         \A i \in 1 .. k - 1 : names[i] # names[k]
  PROVE  Counted(v + Cardinality(InFolder(idx, names[k])), idx, names, k)
<1>. DEFINE before == InFirst(idx, names, k - 1)
            here == InFolder(idx, names[k])
            b == Cardinality(before)
            c == Cardinality(here)
<1>1. v = b
  BY DEF Counted
<1>2. before \cap here = {}
  BY DEF InFirst, InFolder
<1>3. InFirst(idx, names, k) = before \cup here
  <2>1. \A i : i \in 1 .. k <=> i \in 1 .. k - 1 \/ i = k
    OBVIOUS
  <2>. QED  BY <2>1 DEF InFirst, InFolder
<1>4. IsFiniteSet(before) /\ IsFiniteSet(here)
  <2>1. before \in SUBSET DOMAIN idx /\ here \in SUBSET DOMAIN idx
    BY DEF InFirst, InFolder
  <2>. HIDE DEF before, here
  <2>. QED  BY <2>1, FS_Subset
<1>. HIDE DEF before, here
<1>5. Cardinality(before \cup here) = b + c - Cardinality(before \cap here)
  BY <1>4, FS_Union
<1>6. b \in Nat /\ c \in Nat /\ Cardinality(before \cap here) = 0
  BY <1>2, <1>4, FS_CardinalityType, FS_EmptySet
<1>7. Cardinality(InFirst(idx, names, k)) = v + c
  <2>. HIDE DEF b, c
  <2>. QED  BY <1>1, <1>3, <1>5, <1>6
<1>. QED  BY <1>7 DEF Counted, here

\* The folders' counts add up: each message is in the folder of one row only.
LEMMA CountsAddUp ==
  ASSUME NEW idx, NEW d, IsFiniteSet(DOMAIN idx), \A x \in DOMAIN idx : idx[x].folder \in Folder
  PROVE  FoldLeft(LAMBDA n, e : n + e.count, 0, Folders(idx, d)) = Cardinality(DOMAIN idx)
<1>. DEFINE names == SideNames(idx, d)
            side == Folders(idx, d)
            n == Len(names)
            S == {side[i] : i \in 1 .. n}
<1>1. /\ names \in Seq(Folder) /\ DOMAIN side = 1 .. n /\ \A x \in DOMAIN idx : idx[x].folder \in Range(names)
      /\ \A i, j \in 1 .. n : names[i] = names[j] => i = j
      /\ \A i \in 1 .. n : side[i] = Side(names[i], idx, d)
  BY FoldersAre
<1>2. n \in Nat /\ DOMAIN names = 1 .. n
  BY <1>1
<1>3. side = [i \in 1 .. n |-> side[i]]
  <2>1. side = [i \in DOMAIN side |-> side[i]]
    BY DEF Folders
  <2>. HIDE DEF side, n
  <2>. QED  BY <1>1, <2>1
<1>4. \A i \in 1 .. n : side[i].count = Cardinality(InFolder(idx, names[i]))
  <2>. HIDE DEF names, n, side
  <2>. QED  BY <1>1, SideCounts
<1>. HIDE DEF names, n, side
<1>5. side \in Seq(S) /\ Len(side) = n
  BY <1>2, <1>3
<1>. HIDE DEF S
<1>6. PICK g : Summing(g, side)
  BY <1>5, SumSteps
<1>7. g[0] = 0 /\ (\A k \in 1 .. n : g[k] = g[k - 1] + side[k].count)
        /\ FoldLeft(LAMBDA m, e : m + e.count, 0, side) = g[n]
  BY <1>5, <1>6 DEF Summing
<1>. DEFINE T == {k \in 0 .. n : Counted(g[k], idx, names, k)}
<1>9. 0 \in T
  <2>1. InFirst(idx, names, 0) = {}
    BY DEF InFirst
  <2>2. Counted(0, idx, names, 0)
    BY <2>1, FS_EmptySet DEF Counted
  <2>3. Counted(g[0], idx, names, 0)
    BY <1>7, <2>2, Zenon
  <2>. QED  BY <1>2, <2>3
<1>10. ASSUME NEW k \in 1 .. n, k - 1 \in T PROVE k \in T
  <2>1. k \in Nat \ {0} /\ k \in 0 .. n /\ Counted(g[k - 1], idx, names, k - 1)
    BY <1>2, <1>10
  <2>2. \A i \in 1 .. k - 1 : names[i] # names[k]
    BY <1>1, <1>2
  <2>3. Counted(g[k - 1] + Cardinality(InFolder(idx, names[k])), idx, names, k)
    BY <2>1, <2>2, CountedMore
  <2>4. g[k] = g[k - 1] + Cardinality(InFolder(idx, names[k]))
    BY <1>4, <1>7
  <2>. QED  BY <2>1, <2>3, <2>4
<1>. HIDE DEF T
<1>11. \A k \in 0 .. n : k \in T
  BY <1>2, <1>9, <1>10, ByCounting
<1>12. InFirst(idx, names, n) = DOMAIN idx
  <2>1. \A x \in DOMAIN idx : \E i \in 1 .. n : idx[x].folder = names[i]
    BY <1>1, <1>2 DEF Range
  <2>. QED  BY <2>1 DEF InFirst
<1>13. n \in 0 .. n
  BY <1>2
<1>14. FoldLeft(LAMBDA m, e : m + e.count, 0, side) = Cardinality(DOMAIN idx)
  BY <1>7, <1>11, <1>12, <1>13 DEF T, Counted
<1>. QED  BY <1>14 DEF side

LEMMA SidebarIs == ASSUME DeskInv PROVE SidebarCountsList
<1>. DEFINE side == Folders(index, doc)
            any == [folder |-> {}, tag |-> {}, unread |-> FALSE, star |-> FALSE]
            names == SideNames(index, doc)
            own(f) == {w \in Called(f) : \A g \in Folder : w \in Called(g) => g = f}
<1>1. IsIndex(index, now) /\ IsFiniteSet(DOMAIN index) /\ \A x \in DOMAIN index : index[x].folder \in Folder
  <2>1. IsIndex(index, now)
    BY DEF DeskInv
  <2>. QED  BY <2>1, IndexIs
<1>2. FoldLeft(LAMBDA n, e : n + e.count, 0, side) = Cardinality(DOMAIN index)
  BY <1>1, CountsAddUp
<1>3. any = Options
  BY DEF Options
<1>. HIDE DEF any
<1>4. ASSUME NEW i \in DOMAIN side
      PROVE  LET e == side[i]
                 list == Search(index, doc, {}, {}, [any EXCEPT !.folder = {e.name}])
             IN /\ Len(list) = e.count
                /\ Len(Search(index, doc, {}, {}, [any EXCEPT !.folder = {e.name}, !.unread = TRUE])) = e.unread
                /\ \A w \in own(e.name) :
                     /\ Search(index, doc, {}, {<<"in", w>>}, any) = list
                     /\ Len(Search(index, doc, {}, {<<"in", w>>, <<"is", "unread">>}, any)) = e.unread
  <2>. DEFINE f == names[i]
              here == InFolder(index, f)
              fresh == FreshIn(index, doc, f)
              o1 == [any EXCEPT !.folder = {f}]
              o2 == [any EXCEPT !.folder = {f}, !.unread = TRUE]
  <2>1. side[i] = Side(f, index, doc)
    BY <1>1, FoldersAre
  <2>. HIDE DEF side, f
  <2>2. side[i].name = f /\ side[i].count = Cardinality(here) /\ side[i].unread = Cardinality(fresh)
    BY <2>1, SideIs, SideCounts
  <2>3. Finds(index, doc, {}, {}, o1) = here /\ Finds(index, doc, {}, {}, o2) = fresh
    BY <1>3, FindsFolder
  <2>. HIDE DEF here, fresh, o1, o2
  <2>4. Search(index, doc, {}, {}, o1) = Newest(index, here) /\ Len(Search(index, doc, {}, {}, o1)) = Cardinality(here)
    BY <1>1, <2>3, SearchIs
  <2>5. Len(Search(index, doc, {}, {}, o2)) = Cardinality(fresh)
    BY <1>1, <2>3, SearchIs
  <2>6. ASSUME NEW w \in own(f)
        PROVE  /\ Search(index, doc, {}, {<<"in", w>>}, any) = Search(index, doc, {}, {}, o1)
               /\ Len(Search(index, doc, {}, {<<"in", w>>, <<"is", "unread">>}, any)) = side[i].unread
    <3>. DEFINE F1 == {<<"in", w>>}
                F2 == {<<"in", w>>, <<"is", "unread">>}
    <3>1. w \in Called(f) /\ \A g \in Folder : w \in Called(g) => g = f
      BY <2>6
    <3>2. Finds(index, doc, {}, F1, any) = here /\ Finds(index, doc, {}, F2, any) = fresh
      <4>1. Finds(index, doc, {}, F1, Options) = here /\ Finds(index, doc, {}, F2, Options) = fresh
        BY <1>1, <3>1, OwnWord DEF here, fresh
      <4>. HIDE DEF F1, F2
      <4>. QED  BY <1>3, <4>1
    <3>. HIDE DEF F1, F2
    <3>4. Search(index, doc, {}, F1, any) = Newest(index, here)
      BY <1>1, <3>2, SearchIs
    <3>5. Len(Search(index, doc, {}, F2, any)) = Cardinality(fresh)
      BY <1>1, <3>2, SearchIs
    <3>. QED  BY <2>2, <2>4, <3>4, <3>5 DEF F1, F2
  <2>7. [any EXCEPT !.folder = {side[i].name}] = o1 /\ [any EXCEPT !.folder = {side[i].name}, !.unread = TRUE] = o2
    BY <2>2 DEF o1, o2
  <2>. HIDE DEF own
  <2>8. own(side[i].name) = own(f)
    BY <2>2
  <2>9. /\ Len(Search(index, doc, {}, {}, o1)) = side[i].count
        /\ Len(Search(index, doc, {}, {}, o2)) = side[i].unread
    BY <2>2, <2>4, <2>5
  <2>. QED  BY <2>6, <2>7, <2>8, <2>9
<1>. HIDE DEF side, own
<1>5. \A i \in DOMAIN side :
        LET e == side[i]
            list == Search(index, doc, {}, {}, [any EXCEPT !.folder = {e.name}])
        IN /\ Len(list) = e.count
           /\ Len(Search(index, doc, {}, {}, [any EXCEPT !.folder = {e.name}, !.unread = TRUE])) = e.unread
           /\ \A w \in own(e.name) :
                /\ Search(index, doc, {}, {<<"in", w>>}, any) = list
                /\ Len(Search(index, doc, {}, {<<"in", w>>, <<"is", "unread">>}, any)) = e.unread
  BY <1>4
<1>. QED  BY <1>2, <1>5 DEF SidebarCountsList, side, own, any

-----------------------------------------------------------------------------
(* Waiting mail and contacts.                                                *)

LEMMA MaxIs ==
  ASSUME NEW n \in Nat, NEW S \in SUBSET (0 .. n), S # {}
  PROVE  Max(S) \in S /\ \A y \in S : Max(S) >= y
<1>. DEFINE U == {n - y : y \in S}
<1>1. U \in SUBSET Nat /\ U # {}
  <2>1. \A y \in S : n - y \in Nat
    OBVIOUS
  <2>2. PICK y : y \in S
    OBVIOUS
  <2>3. n - y \in U
    BY <2>2
  <2>. QED  BY <2>1, <2>3
<1>2. PICK u \in U : \A v \in U : u <= v
  <2>. HIDE DEF U
  <2>. QED  BY <1>1, LeastNumber
<1>3. \E x \in S : \A y \in S : x >= y
  <2>1. PICK x \in S : u = n - x
    BY <1>2
  <2>2. ASSUME NEW y \in S PROVE x >= y
    <3>1. n - y \in U
      OBVIOUS
    <3>2. n - x <= n - y
      BY <1>2, <2>1, <3>1
    <3>. QED  BY <2>1, <3>2
  <2>. QED  BY <2>2
<1>. QED  BY <1>3 DEF Max

LEMMA LastInIs ==
  ASSUME NEW t \in Nat, NEW idx, IsIndex(idx, t), NEW a, NEW z \in Nat
  PROVE  LastIn(idx, a) <= z <=> \A y : FromThem(idx, a, y) => idx[y].date <= z
<1>. DEFINE K == {x \in DOMAIN idx : idx[x].from = a /\ idx[x].folder \notin {Sent, Drafts}}
            dates == {idx[x].date : x \in K}
            S == {0} \cup dates
<1>1. LastIn(idx, a) = Max(S)
  BY DEF LastIn, Keys
<1>2. \A y : y \in K <=> FromThem(idx, a, y)
  BY DEF FromThem
<1>3. \A x \in K : idx[x].date \in 0 .. t
  BY IndexIs
<1>. HIDE DEF K
<1>4. S \in SUBSET (0 .. t) /\ S # {}
  BY <1>3
<1>. HIDE DEF S
<1>5. Max(S) \in S /\ \A y \in S : Max(S) >= y
  BY <1>4, MaxIs
<1>6. \A v : v \in S <=> v = 0 \/ \E x \in K : v = idx[x].date
  BY DEF S
<1>. HIDE DEF dates
<1>7. Max(S) <= z <=> \A x \in K : idx[x].date <= z
  <2>1. Max(S) \in Nat
    <3>1. \A v \in S : v \in Nat
      BY <1>4
    <3>. QED  BY <1>5, <3>1
  <2>2. ASSUME Max(S) <= z, NEW x \in K PROVE idx[x].date <= z
    <3>1. idx[x].date \in S
      BY <1>6
    <3>. QED  BY <1>3, <1>5, <2>1, <2>2, <3>1
  <2>3. ASSUME \A x \in K : idx[x].date <= z PROVE Max(S) <= z
    BY <1>5, <1>6, <2>3
  <2>. QED  BY <2>2, <2>3
<1>. QED  BY <1>1, <1>2, <1>7

LEMMA ConversationIs ==
  ASSUME NEW t, NEW idx, IsIndex(idx, t), NEW a
  PROVE  \A y : y \in Range(Conversation(idx, a)) <=> WithThem(idx, a, y)
<1>. DEFINE S == {x \in DOMAIN idx : idx[x].folder # Drafts /\ a \in idx[x].to \cup {idx[x].from}}
<1>1. Conversation(idx, a) = Newest(idx, S)
  BY DEF Conversation, Keys
<1>2. \A y : y \in S <=> WithThem(idx, a, y)
  BY DEF WithThem
<1>3. S \in SUBSET DOMAIN idx
  OBVIOUS
<1>. HIDE DEF S
<1>4. IsFiniteSet(S) /\ \A x \in S : idx[x].date \in Nat
  BY <1>3, IndexIs, FS_Subset
<1>5. \A x, y \in S : idx[x].date = idx[y].date => x = y
  BY <1>3 DEF IsIndex
<1>6. Range(Newest(idx, S)) = S
  BY <1>4, <1>5, NewestIs
<1>. QED  BY <1>1, <1>2, <1>6

LEMMA WaitingIs ==
  ASSUME DeskInv, NEW x \in DOMAIN index, index[x].folder = Sent, index[x].to # {}, now - index[x].date >= Patience
  PROVE  x \in Unanswered(index) <=>
           \A a \in index[x].to, y \in UNION {Range(Conversation(index, b)) : b \in index[x].to} :
             index[y].from = a /\ index[y].date > index[x].date => index[y].folder = Sent
<1>. DEFINE z == index[x].date
            to == index[x].to
            All == UNION {Range(Conversation(index, b)) : b \in to}
<1>1. IsIndex(index, now) /\ now \in Nat
  BY DeskAssumption DEF DeskInv
<1>2. z \in Nat /\ \A y \in DOMAIN index : index[y].date \in Nat
  BY <1>1, IndexIs
<1>3. x \in Unanswered(index) <=> \A a \in to : LastIn(index, a) <= z
  BY DEF Unanswered, Keys
<1>4. \A y : y \in All <=> \E b \in to : y \in Range(Conversation(index, b))
  OBVIOUS
<1>. HIDE DEF All, z, to
<1>5. \A y : y \in All <=> \E b \in to : WithThem(index, b, y)
  BY <1>1, <1>4, ConversationIs
<1>6. \A a \in to : LastIn(index, a) <= z <=> \A y : FromThem(index, a, y) => index[y].date <= z
  BY <1>1, <1>2, LastInIs
<1>7. ASSUME \A a \in to : LastIn(index, a) <= z, NEW a \in to, NEW y \in All,
             index[y].from = a, index[y].date > z
      PROVE  index[y].folder = Sent
  <2>1. y \in DOMAIN index /\ index[y].folder # Drafts
    BY <1>5 DEF WithThem
  <2>2. ~FromThem(index, a, y)
    BY <1>2, <1>6, <1>7, <2>1
  <2>. QED  BY <1>7, <2>1, <2>2 DEF FromThem
<1>8. ASSUME \A a \in to, y \in All : index[y].from = a /\ index[y].date > z => index[y].folder = Sent,
             NEW a \in to, NEW y, FromThem(index, a, y)
      PROVE  index[y].date <= z
  <2>1. y \in DOMAIN index /\ index[y].from = a /\ index[y].folder # Sent /\ index[y].folder # Drafts
    BY <1>8 DEF FromThem
  <2>2. y \in All
    BY <1>5, <2>1 DEF WithThem
  <2>. QED  BY <1>2, <1>8, <2>1, <2>2
<1>9. (\A a \in to : LastIn(index, a) <= z)
        <=> \A a \in to, y \in All : index[y].from = a /\ index[y].date > z => index[y].folder = Sent
  BY <1>6, <1>7, <1>8
<1>. QED  BY <1>3, <1>9 DEF All, z, to

LEMMA NoteIs ==
  ASSUME NEW c, IsContact(c), NEW name, NEW date \in Nat, NEW e, e = Note(c, name, date)
  PROVE  /\ IsContact(e) /\ e.addr = c.addr /\ e.count = c.count + 1
         /\ e.last \in {c.last, date} /\ e.last >= c.last /\ e.last >= date
         /\ e.name = c.name \/ e.name = name
         /\ e.name = NoName <=> c.name = NoName /\ name = NoName
<1>. DEFINE n == IF c.name = NoName \/ (date > c.last /\ name # NoName) THEN name ELSE c.name
            l == IF date > c.last THEN date ELSE c.last
<1>1. e = [addr |-> c.addr, name |-> n, count |-> c.count + 1, last |-> l]
  BY DEF Note, IsContact
<1>2. (n = c.name \/ n = name) /\ (n = NoName <=> c.name = NoName /\ name = NoName)
  OBVIOUS
<1>3. l \in Nat /\ l \in {c.last, date} /\ l >= c.last /\ l >= date
  BY DEF IsContact
<1>. HIDE DEF n, l
<1>4. e.addr = c.addr /\ e.name = n /\ e.count = c.count + 1 /\ e.last = l
  BY <1>1
<1>5. IsContact(e)
  <2>1. c.count + 1 \in Nat
    BY DEF IsContact
  <2>2. e = [addr |-> e.addr, name |-> e.name, count |-> e.count, last |-> e.last]
    BY <1>1
  <2>. QED  BY <1>3, <1>4, <2>1, <2>2 DEF IsContact
<1>. QED  BY <1>2, <1>3, <1>4, <1>5

\* One message more in a set of those with a property.
LEMMA OneMailMore ==
  ASSUME NEW mail, IsFiniteSet(mail), NEW x, x \notin mail, NEW S, NEW T, S \subseteq mail,
         T = S \/ T = S \cup {x}
  PROVE  /\ Cardinality(S) \in Nat
         /\ T = S => Cardinality(T) = Cardinality(S)
         /\ T # S => Cardinality(T) = Cardinality(S) + 1
<1>1. IsFiniteSet(S) /\ x \notin S
  BY FS_Subset
<1>. QED  BY <1>1, FS_AddElement, FS_CardinalityType

\* One message more.
LEMMA KnownMore ==
  ASSUME NEW c, NEW mail, IsFiniteSet(mail), NEW idx, NEW a, KnownFrom(c, mail, idx, a),
         NEW x, x \notin mail, idx[x].date \in Nat, \A y \in mail : idx[y].date \in Nat
  PROVE  KnownFrom(NoteMessage(c, idx[x], a), mail \cup {x}, idx, a)
<1>. DEFINE m == idx[x]
            s == IF m.from = a THEN Note(c, m.name, m.date) ELSE c
            e == IF a \in m.to THEN Note(s, NoName, m.date) ELSE s
            named == m.from = a /\ m.name # NoName
            By(ms) == MailBy(idx, ms, a)
            To(ms) == MailTo(idx, ms, a)
<1>1. NoteMessage(c, m, a) = e
  BY DEF NoteMessage
<1>2. IsContact(c) /\ c.addr = a /\ c.count \in Nat /\ c.last \in Nat
  BY DEF KnownFrom, IsContact
<1>3. /\ IsContact(s) /\ s.addr = a
      /\ \/ m.from = a /\ s.count = c.count + 1 /\ s.last \in {c.last, m.date} /\ s.last >= m.date
         \/ m.from # a /\ s.count = c.count /\ s.last = c.last
      /\ s.last >= c.last
      /\ s.name = NoName <=> c.name = NoName /\ ~named
      /\ s.name = c.name \/ (m.from = a /\ s.name = m.name)
  <2>1. CASE m.from = a
    <3>1. s = Note(c, m.name, m.date)
      BY <2>1
    <3>. HIDE DEF s
    <3>2. /\ IsContact(s) /\ s.addr = c.addr /\ s.count = c.count + 1
          /\ s.last \in {c.last, m.date} /\ s.last >= c.last /\ s.last >= m.date
          /\ s.name = c.name \/ s.name = m.name
          /\ s.name = NoName <=> c.name = NoName /\ m.name = NoName
      BY <1>2, <3>1, NoteIs
    <3>. QED  BY <1>2, <2>1, <3>2
  <2>2. CASE m.from # a
    <3>1. s = c
      BY <2>2
    <3>. HIDE DEF s
    <3>. QED  BY <1>2, <2>2, <3>1
  <2>. QED  BY <2>1, <2>2
<1>. HIDE DEF s
<1>4. /\ IsContact(e) /\ e.addr = a /\ e.name = s.name
      /\ \/ a \in m.to /\ e.count = s.count + 1 /\ e.last \in {s.last, m.date} /\ e.last >= m.date
         \/ a \notin m.to /\ e.count = s.count /\ e.last = s.last
      /\ e.last >= s.last
  <2>1. CASE a \in m.to
    <3>1. e = Note(s, NoName, m.date)
      BY <2>1
    <3>. HIDE DEF e
    <3>2. /\ IsContact(e) /\ e.addr = s.addr /\ e.count = s.count + 1
          /\ e.last \in {s.last, m.date} /\ e.last >= s.last /\ e.last >= m.date
          /\ e.name = s.name \/ e.name = NoName
          /\ e.name = NoName <=> s.name = NoName
      BY <1>3, <3>1, NoteIs
    <3>. QED  BY <1>3, <2>1, <3>2
  <2>2. CASE a \notin m.to
    <3>1. e = s
      BY <2>2
    <3>. HIDE DEF e
    <3>2. e.last \in Nat
      BY <1>3, <3>1 DEF IsContact
    <3>. QED  BY <1>3, <2>2, <3>1, <3>2
  <2>. QED  BY <2>1, <2>2
<1>. HIDE DEF e
<1>5. s.count \in Nat /\ e.count \in Nat /\ s.last \in Nat /\ e.last \in Nat
  BY <1>3, <1>4 DEF IsContact
<1>6. /\ By(mail \cup {x}) = IF m.from = a THEN By(mail) \cup {x} ELSE By(mail)
      /\ To(mail \cup {x}) = IF a \in m.to THEN To(mail) \cup {x} ELSE To(mail)
      /\ By(mail) \subseteq mail /\ To(mail) \subseteq mail
  BY DEF MailBy, MailTo
<1>7. /\ c.count = Cardinality(By(mail)) + Cardinality(To(mail))
      /\ IF c.count = 0 THEN c.last = 0 ELSE \E y \in By(mail) \cup To(mail) : idx[y].date = c.last
      /\ \A y \in By(mail) \cup To(mail) : idx[y].date <= c.last
  BY DEF KnownFrom
<1>. HIDE DEF By, To
<1>8. /\ Cardinality(By(mail)) \in Nat /\ Cardinality(To(mail)) \in Nat
      /\ Cardinality(By(mail \cup {x})) = IF m.from = a THEN Cardinality(By(mail)) + 1 ELSE Cardinality(By(mail))
      /\ Cardinality(To(mail \cup {x})) = IF a \in m.to THEN Cardinality(To(mail)) + 1 ELSE Cardinality(To(mail))
  <2>1. x \notin By(mail) /\ x \notin To(mail)
    BY <1>6
  <2>. QED  BY <1>6, <2>1, OneMailMore
<1>9. e.count = Cardinality(By(mail \cup {x})) + Cardinality(To(mail \cup {x}))
  BY <1>2, <1>3, <1>4, <1>5, <1>7, <1>8
<1>10. IF e.count = 0 THEN e.last = 0
         ELSE \E y \in By(mail \cup {x}) \cup To(mail \cup {x}) : idx[y].date = e.last
  <2>1. CASE m.from = a \/ a \in m.to
    <3>1. x \in By(mail \cup {x}) \cup To(mail \cup {x}) /\ e.count # 0
      BY <1>2, <1>3, <1>4, <1>5, <1>6, <2>1
    <3>2. e.last = m.date \/ (e.last = c.last /\ c.last >= m.date)
      BY <1>2, <1>3, <1>4, <1>5, <2>1
    <3>3. CASE e.last = m.date
      BY <3>1, <3>3
    <3>4. CASE e.last = c.last /\ c.last >= m.date /\ e.last # m.date
      <4>1. c.count # 0
        BY <1>2, <1>7, <3>4
      <4>2. PICK y \in By(mail) \cup To(mail) : idx[y].date = c.last
        BY <1>7, <4>1
      <4>. QED  BY <1>6, <3>1, <3>4, <4>2
    <3>. QED  BY <3>2, <3>3, <3>4
  <2>2. CASE m.from # a /\ a \notin m.to
    BY <1>3, <1>4, <1>6, <1>7, <2>2
  <2>. QED  BY <2>1, <2>2
<1>11. \A y \in By(mail \cup {x}) \cup To(mail \cup {x}) : idx[y].date <= e.last
  <2>1. ASSUME NEW y \in By(mail) \cup To(mail) PROVE idx[y].date <= e.last
    <3>1. idx[y].date <= c.last /\ idx[y].date \in Nat
      BY <1>6, <1>7
    <3>. QED  BY <1>2, <1>3, <1>4, <1>5, <3>1
  <2>2. ASSUME m.from = a \/ a \in m.to PROVE m.date <= e.last
    BY <1>3, <1>4, <1>5, <2>2
  <2>. QED  BY <1>6, <2>1, <2>2
<1>12. e.name = NoName => \A y \in mail \cup {x} : idx[y].from = a => idx[y].name = NoName
  <2>1. c.name = NoName => \A y \in mail : idx[y].from = a => idx[y].name = NoName
    BY DEF KnownFrom
  <2>. QED  BY <1>3, <1>4, <2>1
<1>13. e.name # NoName => \E y \in mail \cup {x} : idx[y].from = a /\ idx[y].name = e.name
  <2>1. c.name # NoName => \E y \in mail : idx[y].from = a /\ idx[y].name = c.name
    BY DEF KnownFrom
  <2>. QED  BY <1>3, <1>4, <2>1
<1>. QED  BY <1>1, <1>4, <1>9, <1>10, <1>11, <1>12, <1>13 DEF KnownFrom, By, To

\* All of the index.
LEMMA ContactIs ==
  ASSUME NEW t, NEW idx, IsIndex(idx, t), NEW a
  PROVE  KnownFrom(Contact(idx, a), DOMAIN idx, idx, a)
<1>. DEFINE base == [addr |-> a, name |-> NoName, count |-> 0, last |-> 0]
            S == DOMAIN idx
            list == ByKey(S)
            n == Len(list)
<1>1. S \in SUBSET Nat /\ IsFiniteSet(S) /\ \A x \in S : idx[x].date \in Nat
  BY IndexIs
<1>2. /\ list \in Seq(S) /\ Range(list) = S
      /\ \A i, j \in 1 .. n : list[i] = list[j] => i = j
  <2>. HIDE DEF S
  <2>. QED  BY <1>1, ByKeyIs
<1>3. Contact(idx, a) = FoldLeft(LAMBDA c, x : NoteMessage(c, idx[x], a), base, list)
  BY DEF Contact
<1>4. KnownFrom(base, {}, idx, a)
  <2>1. MailBy(idx, {}, a) = {} /\ MailTo(idx, {}, a) = {} /\ Cardinality({}) = 0
    BY FS_EmptySet DEF MailBy, MailTo
  <2>. QED  BY <2>1 DEF KnownFrom, IsContact
<1>. HIDE DEF base, S, list
<1>5. PICK g : Noting(g, base, list, idx, a)
  BY <1>2, NoteSteps
<1>6. g[0] = base /\ (\A k \in 1 .. n : g[k] = NoteMessage(g[k - 1], idx[list[k]], a)) /\ Contact(idx, a) = g[n]
  BY <1>3, <1>5 DEF Noting
<1>7. n \in Nat /\ DOMAIN list = 1 .. n /\ \A k \in 1 .. n : list[k] \in S
  BY <1>2
<1>. HIDE DEF n
<1>. DEFINE FirstMail(k) == {list[i] : i \in 1 .. k}
            T == {k \in 0 .. n : KnownFrom(g[k], FirstMail(k), idx, a)}
<1>8. 0 \in T
  <2>1. FirstMail(0) = {}
    OBVIOUS
  <2>2. KnownFrom(g[0], FirstMail(0), idx, a)
    <3>. HIDE DEF FirstMail
    <3>. QED  BY <1>4, <1>6, <2>1
  <2>. QED  BY <1>7, <2>2
<1>9. ASSUME NEW k \in 1 .. n, k - 1 \in T PROVE k \in T
  <2>1. KnownFrom(g[k - 1], FirstMail(k - 1), idx, a) /\ k \in 0 .. n
    BY <1>7, <1>9
  <2>2. FirstMail(k) = FirstMail(k - 1) \cup {list[k]}
    <3>1. \A i : i \in 1 .. k <=> i \in 1 .. k - 1 \/ i = k
      BY <1>7
    <3>. QED  BY <3>1
  <2>3. KnownFrom(NoteMessage(g[k - 1], idx[list[k]], a), FirstMail(k - 1) \cup {list[k]}, idx, a)
    <3>1. FirstMail(k - 1) \subseteq S /\ list[k] \notin FirstMail(k - 1)
      BY <1>2, <1>7
    <3>. HIDE DEF FirstMail
    <3>2. IsFiniteSet(FirstMail(k - 1))
      BY <1>1, <3>1, FS_Subset
    <3>. QED  BY <1>1, <1>7, <2>1, <3>1, <3>2, KnownMore
  <2>4. KnownFrom(g[k], FirstMail(k), idx, a)
    <3>. HIDE DEF FirstMail
    <3>. QED  BY <1>6, <2>2, <2>3
  <2>. QED  BY <2>1, <2>4
<1>. HIDE DEF T
<1>10. \A k \in 0 .. n : k \in T
  BY <1>7, <1>8, <1>9, ByCounting
<1>11. KnownFrom(g[n], FirstMail(n), idx, a)
  <2>1. n \in T
    BY <1>7, <1>10
  <2>. HIDE DEF FirstMail
  <2>. QED  BY <2>1 DEF T
<1>12. FirstMail(n) = S
  <2>1. \A x \in S : \E i \in 1 .. n : list[i] = x
    BY <1>2, <1>7 DEF Range
  <2>. QED  BY <1>7, <2>1
<1>13. KnownFrom(g[n], S, idx, a)
  <2>. HIDE DEF FirstMail
  <2>. QED  BY <1>11, <1>12
<1>. QED  BY <1>6, <1>13 DEF S

LEMMA SpelledIs ==
  \A a \in Addr : Spelled(a) \in Nat /\ Book[Spelled(a)] = a
<1>1. Book \in Seq(Addr)
  BY DeskAssumption
<1>2. DOMAIN Book = 1 .. Len(Book) /\ Len(Book) \in Nat
  BY <1>1
<1>3. ASSUME NEW a \in Addr PROVE Spelled(a) \in DOMAIN Book /\ Book[Spelled(a)] = a
  BY DEF Addr, Range, Spelled
<1>. QED  BY <1>2, <1>3

\* No two contacts are of one address, and how often and when it was named last
\* is known of each.
LEMMA ContactsAre ==
  ASSUME NEW t, NEW idx, IsIndex(idx, t)
  PROVE  /\ AreContacts(Contacts(idx))
         /\ \A c \in Contacts(idx) : KnownFrom(c, DOMAIN idx, idx, c.addr) /\ c.count > 0
         /\ \A a \in Addr : MailBy(idx, DOMAIN idx, a) \cup MailTo(idx, DOMAIN idx, a) # {}
                             => \E c \in Contacts(idx) : c.addr = a
<1>. DEFINE all == {Contact(idx, a) : a \in Addr}
            known == Contacts(idx)
            By(a) == MailBy(idx, DOMAIN idx, a)
            To(a) == MailTo(idx, DOMAIN idx, a)
<1>1. \A a \in Addr : KnownFrom(Contact(idx, a), DOMAIN idx, idx, a)
  BY ContactIs
<1>2. \A a \in Addr : Contact(idx, a).addr = a /\ IsContact(Contact(idx, a))
  BY <1>1 DEF KnownFrom
<1>3. IsFiniteSet(all)
  <2>1. IsFiniteSet(Addr)
    <3>. DEFINE h == [i \in 1 .. Len(Book) |-> Book[i]]
    <3>1. Book \in Seq(Addr)
      BY DeskAssumption
    <3>2. Len(Book) \in Nat /\ DOMAIN Book = 1 .. Len(Book)
      BY <3>1
    <3>3. h \in Surjection(1 .. Len(Book), Addr)
      BY <3>1, <3>2 DEF Surjection, Addr, Range
    <3>4. IsFiniteSet(1 .. Len(Book))
      BY <3>2, FS_Interval
    <3>. QED  BY <3>3, <3>4, FS_Surjection
  <2>. DEFINE h == [a \in Addr |-> Contact(idx, a)]
  <2>2. h \in Surjection(Addr, all)
    BY DEF Surjection
  <2>. QED  BY <2>1, <2>2, FS_Surjection
<1>4. known = {c \in all : c.count > 0}
  BY DEF Contacts
<1>5. \A c \in known : c.addr \in Addr /\ c = Contact(idx, c.addr) /\ c.count > 0
  BY <1>2, <1>4
<1>. HIDE DEF known
<1>6. IsFiniteSet(known)
  BY <1>3, <1>4, FS_Subset
<1>7. AreContacts(known)
  BY <1>2, <1>5, <1>6 DEF AreContacts
<1>8. ASSUME NEW a \in Addr, By(a) \cup To(a) # {} PROVE \E c \in known : c.addr = a
  <2>. DEFINE c == Contact(idx, a)
  <2>1. c.count = Cardinality(By(a)) + Cardinality(To(a)) /\ c.addr = a /\ c \in all
    BY <1>1 DEF KnownFrom
  <2>2. IsFiniteSet(By(a)) /\ IsFiniteSet(To(a))
    <3>1. By(a) \subseteq DOMAIN idx /\ To(a) \subseteq DOMAIN idx
      BY DEF MailBy, MailTo
    <3>. QED  BY <3>1, IndexIs, FS_Subset
  <2>. HIDE DEF By, To, c
  <2>3. Cardinality(By(a)) \in Nat /\ Cardinality(To(a)) \in Nat
        /\ (Cardinality(By(a)) # 0 \/ Cardinality(To(a)) # 0)
    BY <1>8, <2>2, FS_CardinalityType, FS_EmptySet
  <2>4. c \in known
    BY <1>4, <2>1, <2>3
  <2>. QED  BY <2>1, <2>4
<1>. QED  BY <1>1, <1>5, <1>7, <1>8 DEF known

LEMMA AheadOrders ==
  ASSUME NEW known, AreContacts(known), NEW S \in SUBSET known
  PROVE  Orders(AheadIn(S), S)
<1>1. \A b, c \in S : <<b, c>> \in AheadIn(S) <=> Ahead(b, c)
  BY DEF AheadIn
<1>2. \A c \in S : c.count \in Nat /\ c.last \in Nat /\ Spelled(c.addr) \in Nat
  BY SpelledIs DEF AreContacts, IsContact
<1>3. \A b, c \in S : Spelled(b.addr) = Spelled(c.addr) => b = c
  BY SpelledIs DEF AreContacts
<1>4. ASSUME NEW b \in S, NEW c \in S
      PROVE  (Ahead(b, c) => ~Ahead(c, b)) /\ (b # c => Ahead(b, c) \/ Ahead(c, b))
  BY <1>2, <1>3 DEF Ahead
<1>5. ASSUME NEW b \in S, NEW c \in S, NEW d \in S, Ahead(b, c), Ahead(c, d) PROVE Ahead(b, d)
  BY <1>2, <1>5 DEF Ahead
<1>. QED  BY <1>1, <1>4, <1>5 DEF Orders

\* What is offered are the contacts whose place is not behind the limit.
LEMMA FirstAre ==
  ASSUME NEW known, AreContacts(known), NEW q, NEW limit \in Nat
  PROVE  LET S == Fitting(known, q)
             list == Addresses(known, q, limit)
         IN /\ IsFiniteSet(S) /\ Range(list) \subseteq S
            /\ Cardinality(Range(list)) = Len(list)
            /\ Len(list) = Min({limit, Cardinality(S)})
            /\ \A c \in S : c \in Range(list) <=> PlaceIn(AheadIn(S), S, c) <= limit
<1>. DEFINE S == Fitting(known, q)
            R == AheadIn(S)
            s == InOrder(S, Ahead)
            n == Cardinality(S)
            list == Addresses(known, q, limit)
<1>1. S \in SUBSET known /\ IsFiniteSet(S)
  <2>1. S \in SUBSET known
    BY DEF Fitting
  <2>. QED  BY <2>1, FS_Subset DEF AreContacts
<1>. DEFINE at(i) == CHOOSE c \in S : Cardinality({d \in S : ~Ahead(c, d)}) = i
<1>2. s = [i \in 1 .. n |-> at(i)]
  BY DEF InOrder
<1>3. list = IF Len(s) > limit THEN SubSeq(s, 1, limit) ELSE s
  BY DEF Addresses, Fitting
<1>4. \A b, c \in S : <<b, c>> \in R <=> Ahead(b, c)
  BY DEF AheadIn
<1>. HIDE DEF S, s, list
<1>5. Orders(R, S)
  BY <1>1, AheadOrders
<1>. HIDE DEF R
<1>6. \A c \in S : PlaceIn(R, S, c) = Cardinality({d \in S : ~Ahead(c, d)})
  <2>. SUFFICES ASSUME NEW c \in S PROVE {d \in S : <<c, d>> \notin R} = {d \in S : ~Ahead(c, d)}
    BY DEF PlaceIn
  <2>. QED  BY <1>4
<1>7. \A i \in 1 .. n, c \in S : PlaceIn(R, S, c) = i => at(i) \in S /\ PlaceIn(R, S, at(i)) = i
  BY <1>6
<1>. HIDE DEF at
<1>8. /\ s = [i \in 1 .. n |-> s[i]]
      /\ \A i \in 1 .. n, c \in S : PlaceIn(R, S, c) = i => s[i] \in S /\ PlaceIn(R, S, s[i]) = i
  BY <1>2, <1>7
<1>9. IsOrder(s, S, R)
  BY <1>1, <1>5, <1>8, OrderIs
<1>10. n \in Nat /\ \A c, d \in S : PlaceIn(R, S, c) = PlaceIn(R, S, d) => c = d
  BY <1>1, <1>5, PlacesAre
<1>11. /\ s \in Seq(S) /\ Len(s) = n /\ DOMAIN s = 1 .. n
       /\ \A i \in 1 .. n : s[i] \in S /\ PlaceIn(R, S, s[i]) = i
       /\ \A c \in S : PlaceIn(R, S, c) \in 1 .. n
  BY <1>1, <1>5, <1>9, <1>10, PlacesAre DEF IsOrder
<1>. DEFINE k == IF n > limit THEN limit ELSE n
<1>12. k \in Nat /\ k <= n /\ k = Min({limit, n}) /\ \A i \in 1 .. n : i <= k <=> i <= limit
  <2>1. Min({limit, n}) \in {limit, n} /\ \A m \in {limit, n} : Min({limit, n}) <= m
    BY <1>10, MinIs
  <2>. QED  BY <1>10, <2>1
<1>13. Len(list) = k /\ DOMAIN list = 1 .. k /\ \A i \in 1 .. k : list[i] = s[i]
  <2>1. CASE n > limit
    <3>1. list = SubSeq(s, 1, limit) /\ k = limit
      BY <1>3, <1>11, <2>1
    <3>2. list \in Seq(S) /\ Len(list) = limit /\ \A i \in 1 .. limit : list[i] = s[i]
      BY <1>10, <1>11, <2>1, <3>1
    <3>. QED  BY <3>1, <3>2
  <2>2. CASE ~ (n > limit)
    BY <1>3, <1>11, <2>2
  <2>. QED  BY <2>1, <2>2
<1>. HIDE DEF k
<1>14. Range(list) = {s[i] : i \in 1 .. k}
  BY <1>13 DEF Range
<1>15. Cardinality(Range(list)) = k
  <2>. DEFINE h == [i \in 1 .. k |-> s[i]]
  <2>1. h \in Injection(1 .. k, Range(list)) /\ h \in Surjection(1 .. k, Range(list))
    <3>1. \A i, j \in 1 .. k : s[i] = s[j] => i = j
      BY <1>9, <1>10, <1>11, <1>12, OrderOnce
    <3>. QED  BY <1>14, <3>1 DEF Injection, IsInjective, Surjection
  <2>2. h \in Bijection(1 .. k, Range(list))
    BY <2>1 DEF Bijection
  <2>3. IsFiniteSet(1 .. k) /\ Cardinality(1 .. k) = k
    BY <1>12, FS_Interval
  <2>. QED  BY <1>12, <2>2, <2>3, FS_Bijection DEF ExistsBijection
<1>16. \A c \in S : c \in Range(list) <=> PlaceIn(R, S, c) <= limit
  <2>. SUFFICES ASSUME NEW c \in S PROVE c \in Range(list) <=> PlaceIn(R, S, c) <= limit
    OBVIOUS
  <2>1. PlaceIn(R, S, c) \in 1 .. n /\ s[PlaceIn(R, S, c)] = c
    BY <1>10, <1>11
  <2>2. ASSUME c \in Range(list) PROVE PlaceIn(R, S, c) <= k
    <3>1. PICK i \in 1 .. k : c = s[i]
      BY <1>14, <2>2
    <3>2. i \in 1 .. n /\ i <= k
      BY <1>10, <1>12
    <3>. QED  BY <1>11, <3>1, <3>2
  <2>3. PlaceIn(R, S, c) <= k => c \in Range(list)
    BY <1>10, <1>12, <1>14, <2>1
  <2>. QED  BY <1>12, <2>1, <2>2, <2>3
<1>17. Range(list) \subseteq S
  BY <1>10, <1>11, <1>12, <1>14
<1>18. Len(list) = Min({limit, n}) /\ Cardinality(Range(list)) = Len(list)
  BY <1>12, <1>13, <1>15
<1>. QED  BY <1>1, <1>16, <1>17, <1>18 DEF S, R, list

LEMMA ContactsAreFirst == ASSUME DeskInv PROVE ContactsAreTheFirst
<1>. DEFINE known == Contacts(index)
            By(a) == Keys(index, LAMBDA m : m.from = a)
            To(a) == Keys(index, LAMBDA m : a \in m.to)
            signed(a) == {index[x].name : x \in By(a)} \ {NoName}
            often(a) == Cardinality(By(a)) + Cardinality(To(a))
<1>1. IsIndex(index, now)
  BY DEF DeskInv
<1>2. \A a : By(a) = MailBy(index, DOMAIN index, a) /\ To(a) = MailTo(index, DOMAIN index, a)
  BY DEF Keys, MailBy, MailTo
<1>3. /\ AreContacts(known)
      /\ \A c \in known : KnownFrom(c, DOMAIN index, index, c.addr) /\ c.count > 0
      /\ \A a \in Addr : By(a) \cup To(a) # {} => \E c \in known : c.addr = a
  BY <1>1, <1>2, ContactsAre
<1>. HIDE DEF known
<1>4. \A c \in known : /\ c.addr \in Addr /\ c.count = often(c.addr) /\ c.count > 0
                       /\ c.count \in Nat /\ c.last \in Nat
                       /\ \E x \in By(c.addr) \cup To(c.addr) : index[x].date = c.last
                       /\ \A x \in By(c.addr) \cup To(c.addr) : index[x].date <= c.last
  <2>. SUFFICES ASSUME NEW c \in known
                PROVE  /\ c.addr \in Addr /\ c.count = often(c.addr) /\ c.count > 0
                       /\ c.count \in Nat /\ c.last \in Nat
                       /\ \E x \in By(c.addr) \cup To(c.addr) : index[x].date = c.last
                       /\ \A x \in By(c.addr) \cup To(c.addr) : index[x].date <= c.last
    OBVIOUS
  <2>. DEFINE By2 == MailBy(index, DOMAIN index, c.addr)
              To2 == MailTo(index, DOMAIN index, c.addr)
  <2>1. By(c.addr) = By2 /\ To(c.addr) = To2
    BY <1>2
  <2>2. KnownFrom(c, DOMAIN index, index, c.addr) /\ c.count > 0
    BY <1>3
  <2>3. /\ c.count = Cardinality(By2) + Cardinality(To2) /\ c.count # 0
        /\ \E x \in By2 \cup To2 : index[x].date = c.last
        /\ \A x \in By2 \cup To2 : index[x].date <= c.last
    BY <2>2 DEF KnownFrom, IsContact
  <2>4. c.addr \in Addr /\ c.count \in Nat /\ c.last \in Nat
    BY <1>3 DEF AreContacts, IsContact
  <2>. HIDE DEF By, To, By2, To2
  <2>. QED  BY <2>1, <2>2, <2>3, <2>4
<1>5. {c.addr : c \in known} = {a \in Addr : By(a) \cup To(a) # {}}
  <2>. HIDE DEF By, To, often
  <2>1. \A c \in known : c.addr \in Addr /\ By(c.addr) \cup To(c.addr) # {}
    BY <1>4
  <2>2. \A a \in Addr : By(a) \cup To(a) # {} => \E c \in known : c.addr = a
    BY <1>3
  <2>. QED  BY <2>1, <2>2
<1>6. \A c \in known : IF signed(c.addr) = {} THEN c.name = NoName ELSE c.name \in signed(c.addr)
  <2>. SUFFICES ASSUME NEW c \in known
                PROVE  IF signed(c.addr) = {} THEN c.name = NoName ELSE c.name \in signed(c.addr)
    OBVIOUS
  <2>1. /\ c.name = NoName => \A x \in DOMAIN index : index[x].from = c.addr => index[x].name = NoName
        /\ c.name # NoName => \E x \in DOMAIN index : index[x].from = c.addr /\ index[x].name = c.name
    BY <1>3 DEF KnownFrom
  <2>. QED  BY <2>1 DEF Keys
<1>. HIDE DEF By, To, often, signed
<1>7. ASSUME NEW limit \in Nat, NEW q
      PROVE  LET list == Addresses(known, q, limit)
                 fits == {c \in known : Found(q, {c.addr, c.name})}
             IN /\ Range(list) \subseteq fits
                /\ Cardinality(Range(list)) = Len(list)
                /\ Len(list) = Min({limit, Cardinality(fits)})
                /\ \A b \in Range(list), c \in fits \ Range(list) :
                     \/ often(b.addr) > often(c.addr)
                     \/ /\ often(b.addr) = often(c.addr)
                        /\ \A y \in By(c.addr) \union To(c.addr) :
                             \E x \in By(b.addr) \union To(b.addr) : index[x].date >= index[y].date
                /\ fits \intersect Range(Addresses(known, Blank, limit)) \subseteq Range(list)
  <2>. DEFINE list == Addresses(known, q, limit)
              top  == Addresses(known, Blank, limit)
              S    == Fitting(known, q)
              P(c) == PlaceIn(AheadIn(S), S, c)
  <2>1. /\ IsFiniteSet(S) /\ Range(list) \subseteq S
        /\ Cardinality(Range(list)) = Len(list)
        /\ Len(list) = Min({limit, Cardinality(S)})
        /\ \A c \in S : c \in Range(list) <=> P(c) <= limit
    BY <1>3, FirstAre
  <2>2. S \subseteq known /\ Fitting(known, Blank) = known
    BY DEF Fitting, Found
  <2>3. \A c \in known : c \in Range(top) <=> PlaceIn(AheadIn(known), known, c) <= limit
    BY <1>3, <2>2, FirstAre
  <2>4. IsFiniteSet(known) /\ Orders(AheadIn(S), S) /\ Orders(AheadIn(known), known)
    BY <1>3, <2>2, AheadOrders DEF AreContacts
  <2>5. ASSUME NEW b \in Range(list), NEW c \in S \ Range(list) PROVE Ahead(b, c)
    <3>1. b \in S /\ b # c /\ P(b) <= limit /\ ~ (P(c) <= limit)
      BY <2>1
    <3>2. P(b) \in Nat /\ P(c) \in Nat /\ (<<c, b>> \in AheadIn(S) => P(c) < P(b))
      BY <2>1, <2>4, <3>1, PlacesAre
    <3>3. <<b, c>> \in AheadIn(S)
      BY <2>4, <3>1, <3>2 DEF Orders
    <3>. QED  BY <3>3 DEF AheadIn
  <2>6. ASSUME NEW b \in Range(list), NEW c \in S \ Range(list)
        PROVE  \/ often(b.addr) > often(c.addr)
               \/ /\ often(b.addr) = often(c.addr)
                  /\ \A y \in By(c.addr) \union To(c.addr) :
                       \E x \in By(b.addr) \union To(b.addr) : index[x].date >= index[y].date
    <3>1. b \in known /\ c \in known
      BY <2>1, <2>2
    <3>2. b.count > c.count \/ (b.count = c.count /\ b.last >= c.last)
      BY <1>4, <2>5, <3>1 DEF Ahead
    <3>3. ASSUME b.last >= c.last, NEW y \in By(c.addr) \union To(c.addr)
          PROVE  \E x \in By(b.addr) \union To(b.addr) : index[x].date >= index[y].date
      <4>1. PICK x \in By(b.addr) \union To(b.addr) : index[x].date = b.last
        BY <1>4, <3>1
      <4>2. index[y].date <= c.last /\ index[y].date \in Nat
        <5>1. y \in DOMAIN index
          BY DEF By, To, Keys
        <5>. QED  BY <1>1, <1>4, <3>1, <5>1, IndexIs
      <4>. QED  BY <1>4, <3>1, <3>3, <4>1, <4>2
    <3>. QED  BY <1>4, <3>1, <3>2, <3>3
  <2>7. S \intersect Range(top) \subseteq Range(list)
    <3>. SUFFICES ASSUME NEW c \in S, c \in Range(top) PROVE P(c) <= limit
      BY <2>1
    <3>. DEFINE here == {d \in S : <<c, d>> \notin AheadIn(S)}
                all  == {d \in known : <<c, d>> \notin AheadIn(known)}
    <3>1. here \in SUBSET all /\ all \in SUBSET known
      BY <2>2 DEF AheadIn
    <3>2. P(c) = Cardinality(here) /\ PlaceIn(AheadIn(known), known, c) = Cardinality(all)
      BY DEF PlaceIn
    <3>. HIDE DEF here, all
    <3>3. IsFiniteSet(all) /\ IsFiniteSet(here) /\ Cardinality(here) <= Cardinality(all)
      BY <2>4, <3>1, FS_Subset
    <3>4. Cardinality(here) \in Nat /\ Cardinality(all) \in Nat
      BY <3>3, FS_CardinalityType
    <3>5. Cardinality(all) <= limit
      BY <2>2, <2>3, <3>2
    <3>. QED  BY <3>2, <3>3, <3>4, <3>5
  <2>. QED  BY <2>1, <2>6, <2>7 DEF Fitting
<1>8. \A n : Limit(n) \in Nat
  BY DeskAssumption DEF Limit
<1>. QED  BY <1>5, <1>6, <1>7, <1>8 DEF ContactsAreTheFirst, known, By, To, often, signed

LEMMA WaitingWaits == ASSUME DeskInv PROVE WaitingIsWaiting
<1>1. IsIndex(index, now)
  BY DEF DeskInv
<1>2. ASSUME NEW x \in DOMAIN index, index[x].folder = Sent, index[x].to # {}, now - index[x].date >= Patience
      PROVE  x \in Unanswered(index) <=>
               \A a \in index[x].to, y \in UNION {Range(Conversation(index, b)) : b \in index[x].to} :
                 index[y].from = a /\ index[y].date > index[x].date => index[y].folder = Sent
  BY <1>1, <1>2, WaitingIs
<1>. QED  BY <1>2 DEF WaitingIsWaiting, Keys

\* The sidebar counts what opening a folder or searching for it by name lists,
\* mail that is called waiting has no answer in its conversations, and the
\* contacts offered are the first of those that fit, by how often the mail names
\* them and how late, each under a name it has signed with (core/folder.go,
\* search.go, followup.go, contacts.go).
THEOREM PagesAgreeAlways == Spec => []PagesAgree
<1>1. DeskInv => PagesAgree
  BY SidebarIs, WaitingWaits, ContactsAreFirst DEF PagesAgree
<1>. QED  BY <1>1, DeskIsSound, PTL

=============================================================================
