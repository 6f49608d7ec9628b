----------------------------- MODULE ProgramProofs -----------------------------
(* Theorems about Program, for any number of starts, wizard pages, mailboxes, *)
(* profiles, saves and faults.                                                *)
EXTENDS ProgramInv, TLAPS, FiniteSetTheorems, WellFoundedInduction, NaturalsInduction

-----------------------------------------------------------------------------
(* Places in a list.                                                         *)

\* The smaller-than relation on numbers, as a set of pairs.
Less == {p \in Nat \X Nat : p[1] < p[2]}

LEMMA LessIsWellFounded == IsWellFoundedOn(Less, Nat)
BY Zenon, NatLessThanWellFounded DEF OpToRel, Less

\* Every set of numbers that is not empty has a least one.
LEMMA LeastNumber ==
  ASSUME NEW T \in SUBSET Nat, T # {}
  PROVE  \E n \in T : \A k \in T : n =< k
<1>1. PICK n \in T : \A k \in T : ~ (<<k, n>> \in Less)
  BY LessIsWellFounded, WFMin
<1>2. \A k \in T : ~ (k < n)
  BY <1>1 DEF Less
<1>. QED  BY <1>2

\* Places have a least and a greatest one.
LEMMA LeastPlace ==
  ASSUME NEW n \in Nat, NEW s \in SUBSET (1 .. n), s # {}
  PROVE  Min(s) \in s
<1>1. s \in SUBSET Nat
  OBVIOUS
<1>2. \E x \in s : \A y \in s : x =< y
  BY <1>1, LeastNumber
<1>. QED  BY <1>2 DEF Min

LEMMA GreatestPlace ==
  ASSUME NEW n \in Nat, NEW s \in SUBSET (1 .. n), s # {}
  PROVE  Max(s) \in s
<1>. DEFINE T == {j \in Nat : \E k \in s : j = n - k}
<1>1. \A k \in s : k \in 1 .. n /\ n - k \in T
  OBVIOUS
<1>2. T \in SUBSET Nat /\ T # {}
  BY <1>1
<1>3. PICK j \in T : \A k \in T : j =< k
  BY <1>2, LeastNumber
<1>4. PICK x \in s : j = n - x
  BY <1>3
<1>. HIDE DEF T
<1>5. ASSUME NEW y \in s PROVE x >= y
  <2>1. j =< n - y /\ x \in 1 .. n /\ y \in 1 .. n
    BY <1>1, <1>3
  <2>. QED  BY <2>1, <1>4
<1>. QED  BY <1>5 DEF Max

\* A set of places is finite.
LEMMA PlacesAreFinite ==
  ASSUME NEW n \in Nat, NEW s \in SUBSET (1 .. n)
  PROVE  IsFiniteSet(s) /\ Cardinality(s) \in Nat /\ Cardinality(s) <= n
<1>1. IsFiniteSet(1 .. n) /\ Cardinality(1 .. n) = n
  BY FS_Interval
<1>. QED  BY <1>1, FS_Subset, FS_CardinalityType

-----------------------------------------------------------------------------
(* What is armed of a list.                                                  *)

\* FoldLeft goes over the sets of places of a sequence: of the greatest one of a
\* set, and of the set without it.
Pass(kept, e, bad) == IF e.id \in bad THEN kept ELSE Append(kept, e)
Below(list, bad, g, s) ==
  IF s = {} THEN <<>> ELSE Pass(g[s \ {Max(s)}], list[Max(s)], bad)
ArmedOver(list, bad) ==
  CHOOSE g : g = [s \in SUBSET DOMAIN list |-> Below(list, bad, g, s)]

LEMMA ArmedIsOver ==
  ASSUME NEW list, NEW bad
  PROVE  Armed(list, bad) = ArmedOver(list, bad)[DOMAIN list]
BY DEF Armed, FoldLeft, MapThenFoldSet, ArmedOver, Below, Pass

\* By the size of the sets: there is such a fold.
LEMMA ArmedExists ==
  ASSUME NEW bad, NEW S, NEW list \in Seq(S)
  PROVE  ArmedOver(list, bad) =
           [s \in SUBSET DOMAIN list |-> Below(list, bad, ArmedOver(list, bad), s)]
<1>. DEFINE n == Len(list)
            Sub(k) == {s \in SUBSET DOMAIN list : Cardinality(s) <= k}
            Has(k) == \E g : g = [s \in Sub(k) |-> Below(list, bad, g, s)]
            Missing == {k \in Nat : ~ Has(k)}
<1>1. n \in Nat /\ DOMAIN list = 1 .. n
  OBVIOUS
<1>2. \A s \in SUBSET DOMAIN list :
        /\ IsFiniteSet(s) /\ Cardinality(s) \in Nat /\ Cardinality(s) <= n
        /\ s # {} => /\ s \ {Max(s)} \in SUBSET DOMAIN list
                     /\ Cardinality(s \ {Max(s)}) = Cardinality(s) - 1
  <2>. SUFFICES ASSUME NEW s \in SUBSET DOMAIN list
                PROVE  /\ IsFiniteSet(s) /\ Cardinality(s) \in Nat /\ Cardinality(s) <= n
                       /\ s # {} => /\ s \ {Max(s)} \in SUBSET DOMAIN list
                                    /\ Cardinality(s \ {Max(s)}) = Cardinality(s) - 1
    OBVIOUS
  <2>2. IsFiniteSet(s) /\ Cardinality(s) \in Nat /\ Cardinality(s) <= n
    BY <1>1, PlacesAreFinite
  <2>3. s # {} => Max(s) \in s
    BY <1>1, GreatestPlace
  <2>4. s # {} => Cardinality(s \ {Max(s)}) = Cardinality(s) - 1
    BY <2>2, <2>3, FS_RemoveElement
  <2>. QED  BY <2>2, <2>3, <2>4
<1>3. Missing = {}
  <2>. SUFFICES ASSUME Missing # {} PROVE FALSE
    OBVIOUS
  <2>1. PICK k \in Missing : \A j \in Missing : k =< j
    <3>1. Missing \in SUBSET Nat
      OBVIOUS
    <3>. QED  BY <3>1, LeastNumber
  <2>2. k \in Nat /\ ~Has(k)
    BY <2>1
  <2>3. CASE k = 0
    <3>1. ASSUME NEW s \in Sub(0) PROVE s = {}
      <4>1. s \in SUBSET DOMAIN list /\ Cardinality(s) <= 0
        OBVIOUS
      <4>2. IsFiniteSet(s) /\ Cardinality(s) \in Nat
        BY <4>1, <1>2
      <4>3. Cardinality(s) = 0
        BY <4>1, <4>2
      <4>. QED  BY <4>2, <4>3, FS_EmptySet
    <3>2. [s \in Sub(0) |-> <<>>] = [s \in Sub(0) |-> Below(list, bad, [t \in Sub(0) |-> <<>>], s)]
      BY <3>1 DEF Below
    <3>3. Has(0)
      <4>. DEFINE g == [t \in Sub(0) |-> <<>>]
      <4>1. g = [s \in Sub(0) |-> Below(list, bad, g, s)]
        BY <3>2
      <4>. HIDE DEF g
      <4>. QED  BY <4>1
    <3>. QED  BY <2>2, <2>3, <3>3
  <2>4. CASE k > 0
    <3>1. k - 1 \in Nat /\ k - 1 \notin Missing
      <4>. HIDE DEF Missing
      <4>1. k - 1 \in Missing => k =< k - 1
        BY <2>1
      <4>. QED  BY <4>1, <2>2, <2>4
    <3>2. PICK g : g = [s \in Sub(k - 1) |-> Below(list, bad, g, s)]
      BY <3>1
    <3>. DEFINE h == [s \in Sub(k) |-> Below(list, bad, g, s)]
    <3>3. \A s \in Sub(k) : Below(list, bad, g, s) = Below(list, bad, h, s)
      <4>. SUFFICES ASSUME NEW s \in Sub(k), s # {}
                    PROVE  g[s \ {Max(s)}] = h[s \ {Max(s)}]
        BY DEF Below
      <4>. DEFINE t == s \ {Max(s)}
      <4>1. t \in Sub(k - 1) /\ t \in Sub(k)
        BY <1>2, <2>2
      <4>2. g[t] = Below(list, bad, g, t)
        BY <3>2, <4>1
      <4>3. h[t] = Below(list, bad, g, t)
        BY <4>1
      <4>. QED  BY <4>2, <4>3
    <3>4. h = [s \in Sub(k) |-> Below(list, bad, h, s)]
      BY <3>3
    <3>5. Has(k)
      <4>. HIDE DEF h
      <4>. QED  BY <3>4
    <3>. QED  BY <2>2, <3>5
  <2>. QED  BY <2>2, <2>3, <2>4
<1>4. Has(n)
  BY <1>1, <1>3
<1>5. Sub(n) = SUBSET DOMAIN list
  BY <1>2
<1>6. PICK g : g = [s \in SUBSET DOMAIN list |-> Below(list, bad, g, s)]
  BY <1>4, <1>5
<1>. QED  BY <1>6 DEF ArmedOver

\* What a list has after one is put behind it.
LEMMA RangeAppend ==
  ASSUME NEW S, NEW q \in Seq(S), NEW e \in S
  PROVE  Append(q, e) \in Seq(S) /\ Range(Append(q, e)) = Range(q) \cup {e}
<1>1. /\ Len(q) \in Nat /\ DOMAIN q = 1 .. Len(q) /\ Append(q, e) \in Seq(S)
      /\ DOMAIN Append(q, e) = 1 .. Len(q) + 1 /\ Append(q, e)[Len(q) + 1] = e
      /\ \A i \in 1 .. Len(q) : Append(q, e)[i] = q[i]
  OBVIOUS
<1>2. \A i \in 1 .. Len(q) + 1 : i \in 1 .. Len(q) \/ i = Len(q) + 1
  BY <1>1
<1>3. 1 .. Len(q) \subseteq 1 .. Len(q) + 1 /\ Len(q) + 1 \in 1 .. Len(q) + 1
  BY <1>1
<1>. HIDE DEF Range
<1>4. ASSUME NEW x \in Range(Append(q, e)) PROVE x \in Range(q) \cup {e}
  BY <1>1, <1>2, <1>4 DEF Range
<1>5. ASSUME NEW x \in Range(q) \cup {e} PROVE x \in Range(Append(q, e))
  BY <1>1, <1>3, <1>5 DEF Range
<1>. QED  BY <1>1, <1>4, <1>5

\* Armed are the entries that can be reached.
LEMMA ArmedIs ==
  ASSUME NEW list \in Seq(Entry), NEW bad
  PROVE  /\ Armed(list, bad) \in Seq(Entry)
         /\ Range(Armed(list, bad)) = {e \in Range(list) : e.id \notin bad}
<1>. DEFINE F == ArmedOver(list, bad)
            Fits(s) == /\ F[s] \in Seq(Entry)
                       /\ Range(F[s]) = {e \in {list[n] : n \in s} : e.id \notin bad}
            Odd == {k \in Nat : \E s \in SUBSET DOMAIN list : Cardinality(s) = k /\ ~ Fits(s)}
<1>1. DOMAIN list = 1 .. Len(list) /\ Len(list) \in Nat
  OBVIOUS
<1>2. \A s \in SUBSET DOMAIN list : F[s] = Below(list, bad, F, s)
  <2>1. F = [s \in SUBSET DOMAIN list |-> Below(list, bad, F, s)]
    BY ArmedExists
  <2>. HIDE DEF F
  <2>. QED  BY <2>1
<1>. HIDE DEF F
<1>3. ASSUME NEW s \in SUBSET DOMAIN list, ~ Fits(s) PROVE FALSE
  <2>. HIDE DEF Fits
  <2>1. \A t \in SUBSET DOMAIN list : IsFiniteSet(t) /\ Cardinality(t) \in Nat
    BY <1>1, PlacesAreFinite
  <2>2. Odd \in SUBSET Nat /\ Odd # {}
    BY <1>3, <2>1
  <2>3. PICK k \in Odd : \A j \in Odd : k =< j
    BY <2>2, LeastNumber
  <2>4. PICK t \in SUBSET DOMAIN list : Cardinality(t) = k /\ ~ Fits(t)
    BY <2>3
  <2>5. t # {}
    <3>1. ASSUME t = {} PROVE Fits(t)
      <4>1. F[t] = <<>>
        BY <1>2, <3>1 DEF Below
      <4>2. <<>> \in Seq(Entry) /\ Range(<<>>) = {}
        BY DEF Range
      <4>. QED  BY <3>1, <4>1, <4>2 DEF Fits
    <3>. QED  BY <2>4, <3>1
  <2>. DEFINE n == Max(t)
              u == t \ {n}
  <2>6. n \in t
    BY <1>1, <2>5, GreatestPlace
  <2>. HIDE DEF n
  <2>6a. n \in DOMAIN list /\ list[n] \in Entry
    BY <2>6
  <2>7. u \in SUBSET DOMAIN list /\ Cardinality(u) = k - 1 /\ k - 1 < k /\ k \in Nat
    <3>1. IsFiniteSet(t) /\ Cardinality(t) \in Nat /\ Cardinality(t) = k
      BY <2>1, <2>4
    <3>2. Cardinality(t \ {n}) = Cardinality(t) - 1
      BY <2>6, <3>1, FS_RemoveElement
    <3>. QED  BY <3>1, <3>2
  <2>8. k - 1 \in Nat
    BY <2>1, <2>7
  <2>9. Fits(u)
    BY <2>3, <2>7, <2>8
  <2>10. F[t] = Pass(F[u], list[n], bad)
    <3>1. F[t] = Below(list, bad, F, t)
      BY <1>2
    <3>. QED  BY <2>5, <3>1 DEF Below, n
  <2>11. \A x : x \in {list[m] : m \in t} <=> x = list[n] \/ x \in {list[m] : m \in u}
    BY <2>6
  <2>. HIDE DEF u
  <2>12. F[u] \in Seq(Entry) /\ Range(F[u]) = {e \in {list[m] : m \in u} : e.id \notin bad}
    BY <2>9 DEF Fits
  <2>13. CASE list[n].id \in bad
    BY <2>10, <2>11, <2>12, <2>13, <2>4 DEF Pass, Fits
  <2>14. CASE list[n].id \notin bad
    <3>1. F[t] = Append(F[u], list[n])
      BY <2>10, <2>14 DEF Pass
    <3>2. F[t] \in Seq(Entry) /\ Range(F[t]) = Range(F[u]) \cup {list[n]}
      BY <2>6a, <2>12, <3>1, RangeAppend
    <3>. QED  BY <2>4, <2>11, <2>12, <2>14, <3>2 DEF Fits
  <2>. QED  BY <2>13, <2>14
<1>4. Fits(DOMAIN list)
  BY <1>3
<1>5. {list[n] : n \in DOMAIN list} = Range(list)
  BY DEF Range
<1>. QED  BY <1>4, <1>5, ArmedIsOver DEF F

\* Its entries have names.
LEMMA EntriesOf ==
  ASSUME NEW list \in Seq(Entry)
  PROVE  /\ Range(list) \subseteq Entry
         /\ {e.id : e \in Range(list)} \subseteq Id
         /\ \A e \in Range(list) : e.id \in Id
<1>1. \A n \in DOMAIN list : list[n] \in Entry
  OBVIOUS
<1>2. \A e \in Range(list) : e \in Entry
  BY <1>1 DEF Range
<1>3. \A e \in Range(list) : e.id \in Id
  BY <1>2 DEF Entry
<1>. QED  BY <1>2, <1>3

\* The index leads from the name of every entry of the list to one of that name.
LEMMA IndexLeads ==
  ASSUME NEW old, NEW list \in Seq(Entry)
  PROVE  /\ DOMAIN IndexOf(old, list) = {e.id : e \in Range(list)}
         /\ \A i \in {e.id : e \in Range(list)} :
              /\ IndexOf(old, list)[i] \in Range(list)
              /\ IndexOf(old, list)[i].id = i
<1>1. DOMAIN list = 1 .. Len(list) /\ Len(list) \in Nat
  OBVIOUS
<1>2. ASSUME NEW i \in {e.id : e \in Range(list)}
      PROVE  LastOf(list, i) \in Range(list) /\ LastOf(list, i).id = i
  <2>. DEFINE at == {n \in DOMAIN list : list[n].id = i}
  <2>1. at # {} /\ at \in SUBSET (1 .. Len(list))
    BY <1>1 DEF Range
  <2>2. Max(at) \in at
    BY <1>1, <2>1, GreatestPlace
  <2>. QED  BY <2>2 DEF LastOf, Range
<1>. HIDE DEF LastOf, Range
<1>. QED  BY <1>2 DEF IndexOf

-----------------------------------------------------------------------------
(* The place of an entry.                                                    *)

\* The place of an ID in a list, or 0.
Found(list, i) == SelectInSeq(list, LAMBDA x : x.id = i)

LEMMA FoundThere ==
  ASSUME NEW list \in Seq(Entry), NEW i
  PROVE  \/ Found(list, i) \in 1 .. Len(list) /\ list[Found(list, i)].id = i
         \/ Found(list, i) = 0 /\ \A n \in 1 .. Len(list) : list[n].id # i
<1>. DEFINE at == {n \in 1 .. Len(list) : list[n].id = i}
<1>1. Len(list) \in Nat /\ at \in SUBSET (1 .. Len(list))
  OBVIOUS
<1>2. at # {} => Min(at) \in at
  BY <1>1, LeastPlace
<1>3. Found(list, i) = IF at # {} THEN Min(at) ELSE 0
  BY DEF Found, SelectInSeq
<1>4. at = {} => \A n \in 1 .. Len(list) : list[n].id # i
  OBVIOUS
<1>5. at # {} => Min(at) \in 1 .. Len(list) /\ list[Min(at)].id = i
  BY <1>2
<1>. HIDE DEF at
<1>. QED  BY <1>3, <1>4, <1>5

\* Where the wizard puts an entry.
LEMMA PlaceIs ==
  ASSUME NEW list \in Seq(Entry), NEW e \in Entry, NEW editing
  PROVE  \/ \E n \in 1 .. Len(list) :
              list[n].id = editing /\ Place(list, e, editing) = [list EXCEPT ![n] = e]
         \/ /\ \A n \in 1 .. Len(list) : list[n].id # editing
            /\ \/ \E n \in 1 .. Len(list) :
                    list[n].id = e.id /\ Place(list, e, editing) = [list EXCEPT ![n] = e]
               \/ /\ \A n \in 1 .. Len(list) : list[n].id # e.id
                  /\ Place(list, e, editing) = Append(list, e)
<1>. DEFINE a == Found(list, editing)
            b == Found(list, e.id)
<1>1. Place(list, e, editing) =
        CASE a # 0 -> [list EXCEPT ![a] = e]
          [] a = 0 /\ b # 0 -> [list EXCEPT ![b] = e]
          [] OTHER -> Append(list, e)
  BY DEF Place, Found
<1>2. \/ a \in 1 .. Len(list) /\ list[a].id = editing
      \/ a = 0 /\ \A n \in 1 .. Len(list) : list[n].id # editing
  BY FoundThere
<1>3. \/ b \in 1 .. Len(list) /\ list[b].id = e.id
      \/ b = 0 /\ \A n \in 1 .. Len(list) : list[n].id # e.id
  BY FoundThere
<1>. HIDE DEF a, b
<1>4. Len(list) \in Nat /\ \A n \in 1 .. Len(list) : n # 0
  OBVIOUS
<1>5. a # 0 => Place(list, e, editing) = [list EXCEPT ![a] = e]
  BY <1>1
<1>6. a = 0 /\ b # 0 => Place(list, e, editing) = [list EXCEPT ![b] = e]
  BY <1>1
<1>7. a = 0 /\ b = 0 => Place(list, e, editing) = Append(list, e)
  BY <1>1
<1>. QED  BY <1>2, <1>3, <1>4, <1>5, <1>6, <1>7

LEMMA PlaceType ==
  ASSUME NEW list \in Seq(Entry), NEW e \in Entry, NEW editing
  PROVE  Place(list, e, editing) \in Seq(Entry)
<1>1. \A n \in 1 .. Len(list) : [list EXCEPT ![n] = e] \in Seq(Entry)
  OBVIOUS
<1>2. Append(list, e) \in Seq(Entry)
  OBVIOUS
<1>. QED  BY <1>1, <1>2, PlaceIs

\* What a list with the entries of a book is, by its places.
LEMMA HoldsPlaces ==
  ASSUME NEW list, NEW bk
  PROVE  Holds(list, bk) <=>
           /\ \A m, k \in DOMAIN list : list[m].id = list[k].id => m = k
           /\ \A m \in DOMAIN list : list[m].id \in DOMAIN bk /\ bk[list[m].id] = list[m].save
           /\ \A i \in DOMAIN bk : \E m \in DOMAIN list : list[m].id = i
<1>1. \A x : x \in {e.id : e \in Range(list)} <=> \E m \in DOMAIN list : list[m].id = x
  BY DEF Range
<1>2. DOMAIN bk = {e.id : e \in Range(list)}
        <=> \A x : x \in DOMAIN bk <=> \E m \in DOMAIN list : list[m].id = x
  BY <1>1
<1>3. (\A e \in Range(list) : bk[e.id] = e.save)
        <=> \A m \in DOMAIN list : bk[list[m].id] = list[m].save
  BY DEF Range
<1>. QED  BY <1>2, <1>3 DEF Holds

\* An entry put in the place of another of a book that holds each once, unless
\* one is there of its own name and another that it takes the place of.
LEMMA PlaceHolds ==
  ASSUME NEW list \in Seq(Entry), NEW e \in Entry, NEW editing, NEW bk,
         Holds(list, bk),
         ~ (e.id \in DOMAIN bk /\ editing \in DOMAIN bk \ {e.id})
  PROVE  Holds(Place(list, e, editing), Updated(bk, e, editing))
<1>. DEFINE new == Place(list, e, editing)
            up == Updated(bk, e, editing)
<1>1. /\ Len(list) \in Nat /\ DOMAIN list = 1 .. Len(list)
      /\ \A n \in 1 .. Len(list) : list[n] \in Entry
  OBVIOUS
<1>2. /\ \A n, m \in 1 .. Len(list) : list[n].id = list[m].id => n = m
      /\ \A i : i \in DOMAIN bk <=> \E n \in 1 .. Len(list) : list[n].id = i
      /\ \A n \in 1 .. Len(list) : bk[list[n].id] = list[n].save
  BY SMTT(30), <1>1, HoldsPlaces
<1>3. /\ DOMAIN up = {e.id} \union (DOMAIN bk \ {editing})
      /\ up[e.id] = e.save
      /\ \A i \in DOMAIN bk \ {editing} : i # e.id => up[i] = bk[i]
  BY DEF Updated
<1>. HIDE DEF up
<1>4. ASSUME NEW n \in 1 .. Len(list), new = [list EXCEPT ![n] = e],
             \/ list[n].id = editing
             \/ list[n].id = e.id /\ \A m \in 1 .. Len(list) : list[m].id # editing
      PROVE  Holds(new, up)
  <2>1. /\ DOMAIN new = 1 .. Len(list) /\ new[n] = e
        /\ \A m \in 1 .. Len(list) : m # n => new[m] = list[m]
    BY <1>1, <1>4
  <2>. HIDE DEF new
  <2>2. \A m \in 1 .. Len(list) : m # n => list[m].id # e.id /\ list[m].id # editing
    BY <1>2, <1>4
  <2>3. \A m, k \in DOMAIN new : new[m].id = new[k].id => m = k
    BY <1>2, <2>1, <2>2
  <2>4. ASSUME NEW m \in DOMAIN new PROVE new[m].id \in DOMAIN up /\ up[new[m].id] = new[m].save
    BY <1>2, <1>3, <2>1, <2>2
  <2>5. ASSUME NEW i \in DOMAIN up PROVE \E m \in DOMAIN new : new[m].id = i
    <3>1. CASE i = e.id
      BY <2>1, <3>1
    <3>2. CASE i # e.id
      <4>1. i \in DOMAIN bk /\ i # editing
        BY <1>3, <2>5, <3>2
      <4>2. PICK m \in 1 .. Len(list) : list[m].id = i
        BY <1>2, <4>1
      <4>3. m # n
        BY <1>4, <3>2, <4>1, <4>2
      <4>. QED  BY <2>1, <4>2, <4>3
    <3>. QED  BY <3>1, <3>2
  <2>. QED  BY <2>3, <2>4, <2>5, HoldsPlaces
<1>5. ASSUME new = Append(list, e), \A n \in 1 .. Len(list) : list[n].id # e.id,
             \A n \in 1 .. Len(list) : list[n].id # editing
      PROVE  Holds(new, up)
  <2>1. /\ DOMAIN new = 1 .. Len(list) + 1 /\ new[Len(list) + 1] = e
        /\ \A m \in 1 .. Len(list) : new[m] = list[m]
    BY <1>1, <1>5
  <2>1a. /\ \A m \in DOMAIN new : m \in 1 .. Len(list) \/ m = Len(list) + 1
         /\ \A m \in 1 .. Len(list) : m \in DOMAIN new
         /\ Len(list) + 1 \in DOMAIN new
    BY <1>1, <2>1
  <2>. HIDE DEF new
  <2>3. \A m, k \in DOMAIN new : new[m].id = new[k].id => m = k
    BY <1>2, <1>5, <2>1, <2>1a
  <2>4. ASSUME NEW m \in DOMAIN new PROVE new[m].id \in DOMAIN up /\ up[new[m].id] = new[m].save
    BY <1>2, <1>3, <1>5, <2>1, <2>1a
  <2>5. ASSUME NEW i \in DOMAIN up PROVE \E m \in DOMAIN new : new[m].id = i
    BY <1>2, <1>3, <2>1, <2>1a, <2>5
  <2>. QED  BY <2>3, <2>4, <2>5, HoldsPlaces
<1>. HIDE DEF new
<1>. QED  BY <1>4, <1>5, PlaceIs DEF new, up

\* A file has as many entries as there are in the book.
LEMMA HoldsCount ==
  ASSUME NEW list \in Seq(Entry), NEW bk, Holds(list, bk)
  PROVE  Len(list) = Cardinality(DOMAIN bk)
<1>. DEFINE D == 1 .. Len(list)
            f == [n \in D |-> list[n].id]
<1>1. D = DOMAIN list /\ Len(list) \in Nat
  OBVIOUS
<1>2. f \in [D -> DOMAIN bk]
  BY <1>1, HoldsPlaces
<1>3. \A m, n \in D : f[m] = f[n] => m = n
  BY <1>1, HoldsPlaces
<1>4. \A i \in DOMAIN bk : \E n \in D : f[n] = i
  BY <1>1, HoldsPlaces
<1>5. IsFiniteSet(D) /\ Cardinality(D) = Len(list)
  BY SMTT(30), <1>1, FS_Interval
<1>. HIDE DEF f, D
<1>6. f \in Bijection(D, DOMAIN bk)
  BY <1>2, <1>3, <1>4 DEF Bijection, Injection, Surjection, IsInjective
<1>. QED  BY <1>5, <1>6, FS_Bijection DEF ExistsBijection

\* A file that was there before is booked as it is.
LEMMA InitHolds ==
  ASSUME NEW first \in SUBSET Id,
         NEW list \in SetToSeqs({[id |-> i, save |-> 0] : i \in first})
  PROVE  list \in Seq(Entry) /\ Holds(list, [i \in first |-> 0])
<1>. DEFINE Old(i) == [id |-> i, save |-> 0]
            S == {Old(i) : i \in first}
            n == Cardinality(S)
<1>1. IsFiniteSet(first)
  BY ProgramAssumption, FS_Subset
<1>2. IsFiniteSet(S) /\ n \in Nat
  <2>1. [i \in first |-> Old(i)] \in Surjection(first, S)
    BY DEF Surjection
  <2>. HIDE DEF S
  <2>. QED  BY <1>1, <2>1, FS_Surjection, FS_CardinalityType
<1>3. list \in [1 .. n -> S] /\ \A m, k \in 1 .. n : list[m] = list[k] => m = k
  BY DEF SetToSeqs
<1>4. IsFiniteSet(1 .. n) /\ Cardinality(1 .. n) = n
  BY <1>2, FS_Interval
<1>5. list \in Injection(1 .. n, S)
  BY <1>3 DEF Injection, IsInjective
<1>6. list \in Surjection(1 .. n, S)
  <2>. HIDE DEF S, n
  <2>. QED  BY <1>2, <1>4, <1>5, FS_Injection DEF n
<1>7. \A x \in S : \E m \in 1 .. n : list[m] = x
  BY <1>6 DEF Surjection
<1>8. \A x \in S : x \in Entry /\ x.id \in first /\ x.save = 0 /\ x = Old(x.id)
  BY DEF Entry
<1>9. \A i \in first : Old(i) \in S /\ Old(i).id = i
  OBVIOUS
<1>. HIDE DEF S, n
<1>10. list \in Seq(Entry) /\ DOMAIN list = 1 .. n
  BY <1>2, <1>3, <1>8
<1>11. \A m \in 1 .. n : list[m] \in S
  BY <1>3
<1>12. \A m, k \in 1 .. n : list[m].id = list[k].id => m = k
  BY <1>3, <1>8, <1>11
<1>13. \A i \in first : \E m \in 1 .. n : list[m].id = i
  BY <1>7, <1>9
<1>14. \A m \in 1 .. n : list[m].id \in first /\ list[m].save = 0
  BY <1>8, <1>11
<1>. QED  BY <1>10, <1>12, <1>13, <1>14, HoldsPlaces

-----------------------------------------------------------------------------
(* What every state is made of.                                              *)

\* A page: closed, waiting or writing.
LEMMA FormIs ==
  ASSUME FormsOK, NEW t \in Tab
  PROVE  /\ form[t] = Closed <=> form[t].step = "closed"
         /\ form[t] # Closed =>
              /\ form[t] \in Waiting \/ form[t] \in Writing
              /\ form[t].by \in Start /\ form[t].file \in File
              /\ form[t].editing \in Id \union {None}
              /\ pc[form[t].by] \in {"serve", "closing"}
              /\ form[t].step \in {"form", "swap", "read", "torn", "written"}
         /\ form[t].step \in {"form", "swap"} => form[t] \in Waiting
         /\ form[t].step \in {"read", "torn", "written"} =>
              /\ form[t] \in Writing
              /\ form[t].entry \in Entry /\ form[t].list \in Seq(Entry)
         /\ form[t].step \in {"written", "swap"} => form[t].file = "config"
<1>1. form[t] \in {Closed} \union Waiting \union Writing
  BY DEF FormsOK
<1>2. CASE form[t] = Closed
  BY <1>2 DEF Closed
<1>3. CASE form[t] \in Waiting
  <2>1. form[t].step \in {"form", "swap"}
    BY <1>3 DEF Waiting
  <2>2. form[t] # Closed
    BY <2>1 DEF Closed
  <2>. QED  BY <1>3, <2>1, <2>2 DEF FormsOK, Waiting
<1>4. CASE form[t] \in Writing
  <2>1. form[t].step \in {"read", "torn", "written"}
    BY <1>4 DEF Writing
  <2>2. form[t] # Closed
    BY <2>1 DEF Closed
  <2>. QED  BY <1>4, <2>1, <2>2 DEF FormsOK, Writing
<1>. QED  BY <1>1, <1>2, <1>3, <1>4

LEMMA InitShape == Init => Shape
<1>. SUFFICES ASSUME Init PROVE Shape
  OBVIOUS
<1>1. OwnerOK
  BY ProgramAssumption DEF Init, OwnerOK, PcType
<1>2. ServerOK
  BY DEF Init, ServerOK
<1>3. FilesOK
  <2>1. PICK first \in SUBSET Id :
          /\ book = [f \in File |-> [i \in first |-> 0]]
          /\ \E list \in SetToSeqs({[id |-> i, save |-> 0] : i \in first}) :
               disk = [f \in File |-> list]
    BY Zenon DEF Init
  <2>2. PICK list \in SetToSeqs({[id |-> i, save |-> 0] : i \in first}) :
          disk = [f \in File |-> list]
    BY <2>1
  <2>3. list \in Seq(Entry)
    BY <2>2, InitHolds
  <2>. QED  BY <2>1, <2>2, <2>3 DEF FilesOK
<1>4. FormsOK
  BY DEF Init, FormsOK, Closed
<1>5. CountsOK
  BY ProgramAssumption DEF Init, CountsOK
<1>. QED  BY <1>1, <1>2, <1>3, <1>4, <1>5 DEF Shape

LEMMA OwnerStep ==
  ASSUME Shape, [Next]_vars
  PROVE  OwnerOK'
<1>. USE ProgramAssumption DEF Shape, OwnerOK, PcType, Goto
<1>1. CASE UNCHANGED <<owner, addr, pc>>
  BY <1>1
<1>2. ASSUME NEW s \in Start, Begin(s) PROVE OwnerOK'
  BY <1>2 DEF Begin
<1>3. ASSUME NEW s \in Start, Listen(s) PROVE OwnerOK'
  BY <1>3 DEF Listen
<1>4. ASSUME NEW s \in Start, Probe(s) PROVE OwnerOK'
  BY <1>4 DEF Probe
<1>5. ASSUME NEW s \in Start, Serve(s) PROVE OwnerOK'
  BY <1>5 DEF Serve
<1>6. ASSUME NEW s \in Start, Quit(s) PROVE OwnerOK'
  BY <1>6 DEF Quit
<1>7. ASSUME NEW s \in Start, End(s) PROVE OwnerOK'
  BY <1>7 DEF End, Gone, RemoveFile
<1>8. ASSUME NEW s \in Start, Crash(s) PROVE OwnerOK'
  BY <1>8 DEF Crash, Gone, Freed
<1>9. ASSUME NEW t \in Tab, Open(t) \/ Wizard(t) PROVE UNCHANGED <<owner, addr, pc>>
  BY <1>9 DEF Open, Wizard, Submit, Truncate, Write, Activate, Answer, Close
<1>10. CASE UNCHANGED vars
  BY <1>1, <1>10 DEF vars
<1>. QED  BY <1>1, <1>2, <1>3, <1>4, <1>5, <1>6, <1>7, <1>8, <1>9, <1>10 DEF Next

LEMMA ServerStep ==
  ASSUME Shape, [Next]_vars
  PROVE  ServerOK'
<1>. USE DEF Shape, ServerOK
<1>1. CASE UNCHANGED <<server, stale>>
  BY <1>1 DEF server
<1>2. ASSUME NEW s \in Start, Begin(s) PROVE ServerOK'
  <2>1. disk["config"] \in Seq(Entry)
    BY DEF FilesOK, File
  <2>2. PICK bad \in SUBSET {e.id : e \in Range(disk["config"])} :
          /\ down' = [down EXCEPT ![s] = bad]
          /\ accounts' = [accounts EXCEPT ![s] = Armed(disk["config"], bad)]
          /\ byID' = [byID EXCEPT ![s] = IndexOf(@, Armed(disk["config"], bad))]
    BY <1>2 DEF Begin
  <2>3. {e.id : e \in Range(disk["config"])} \subseteq Id
    BY <2>1, EntriesOf
  <2>. DEFINE list == Armed(disk["config"], bad)
  <2>4. list \in Seq(Entry)
    BY <2>1, ArmedIs
  <2>. HIDE DEF list
  <2>5. DOMAIN IndexOf(byID[s], list) \subseteq Id
    BY <2>4, EntriesOf DEF IndexOf
  <2>6. UNCHANGED stale
    BY <1>2 DEF Begin
  <2>. QED  BY <2>2, <2>3, <2>4, <2>5, <2>6 DEF list
<1>3. ASSUME NEW s \in Start, End(s) \/ Crash(s) PROVE ServerOK'
  <2>1. Gone(s)
    BY <1>3 DEF End, Crash
  <2>2. Begun(s) \subseteq Start
    BY DEF Begun
  <2>. QED  BY <2>1, <2>2 DEF Gone
<1>4. ASSUME NEW t \in Tab, Write(t) PROVE ServerOK'
  BY <1>4 DEF Write, Begun, server
<1>5. ASSUME NEW t \in Tab, Activate(t) PROVE ServerOK'
  <2>. DEFINE s == form[t].by
              list == form[t].list
  <2>1. s \in Start /\ list \in Seq(Entry)
    BY <1>5, FormIs DEF Activate
  <2>2. PICK bad \in SUBSET {e.id : e \in Range(list)} :
          /\ down' = [down EXCEPT ![s] = bad]
          /\ accounts' = [accounts EXCEPT ![s] = Armed(list, bad)]
    BY <1>5 DEF Activate
  <2>3. UNCHANGED <<byID, stale>>
    BY <1>5 DEF Activate
  <2>. HIDE DEF s, list
  <2>4. {e.id : e \in Range(list)} \subseteq Id
    BY <2>1, EntriesOf
  <2>5. Armed(list, bad) \in Seq(Entry)
    BY <2>1, ArmedIs
  <2>. QED  BY <2>1, <2>2, <2>3, <2>4, <2>5
<1>6. ASSUME NEW t \in Tab, Answer(t) PROVE ServerOK'
  <2>. DEFINE s == form[t].by
  <2>1. s \in Start /\ accounts[s] \in Seq(Entry)
    BY <1>6, FormIs DEF Answer, Closed
  <2>2. DOMAIN IndexOf(byID[s], accounts[s]) \subseteq Id
    BY <2>1, EntriesOf DEF IndexOf
  <2>3. byID' = [byID EXCEPT ![s] = IndexOf(@, accounts[s])] /\ UNCHANGED <<accounts, down, stale>>
    BY <1>6 DEF Answer
  <2>. HIDE DEF s
  <2>. QED  BY <2>1, <2>2, <2>3
<1>7. ASSUME NEW s \in Start, Listen(s) \/ Probe(s) \/ Serve(s) \/ Quit(s)
      PROVE  UNCHANGED <<server, stale>>
  BY <1>7 DEF Listen, Probe, Serve, Quit
<1>8. ASSUME NEW t \in Tab, Open(t) \/ Submit(t) \/ Truncate(t) \/ Close(t)
      PROVE  UNCHANGED <<server, stale>>
  BY <1>8 DEF Open, Submit, Truncate, Close
<1>9. CASE UNCHANGED vars
  BY <1>1, <1>9 DEF vars
<1>. QED  BY <1>1, <1>2, <1>3, <1>4, <1>5, <1>6, <1>7, <1>8, <1>9 DEF Next, Wizard

LEMMA FilesStep ==
  ASSUME Shape, [Next]_vars
  PROVE  FilesOK'
<1>. USE DEF Shape, FilesOK
<1>1. CASE UNCHANGED files
  BY <1>1 DEF files
<1>2. ASSUME NEW s \in Start, End(s) \/ Crash(s) PROVE FilesOK'
  <2>1. Gone(s)
    BY <1>2 DEF End, Crash
  <2>2. /\ book' = [f \in File |-> IF Torn(s, f) THEN <<>> ELSE book[f]]
        /\ UNCHANGED disk
    BY <2>1 DEF Gone
  <2>. QED  BY <2>2
<1>3. ASSUME NEW t \in Tab, Truncate(t) PROVE FilesOK'
  <2>1. form[t].file \in File
    BY <1>3, FormIs DEF Truncate
  <2>. QED  BY <1>3, <2>1 DEF Truncate
<1>4. ASSUME NEW t \in Tab, Write(t) PROVE FilesOK'
  <2>1. /\ form[t].file \in File /\ form[t].list \in Seq(Entry) /\ form[t].entry \in Entry
    BY <1>4, FormIs DEF Write
  <2>2. form[t].entry.id \in Id
    BY <2>1 DEF Entry
  <2>3. /\ disk' = [disk EXCEPT ![form[t].file] = form[t].list]
        /\ book' = [book EXCEPT ![form[t].file] =
             Updated(@, form[t].entry, form[t].editing)]
    BY <1>4 DEF Write, Updated
  <2>4. DOMAIN Updated(book[form[t].file], form[t].entry, form[t].editing) \subseteq Id
    BY <2>1, <2>2 DEF Updated
  <2>. QED  BY <2>1, <2>3, <2>4
<1>5. ASSUME NEW s \in Start, Begin(s) \/ Listen(s) \/ Probe(s) \/ Serve(s) \/ Quit(s)
      PROVE  UNCHANGED files
  BY <1>5 DEF Begin, Listen, Probe, Serve, Quit
<1>6. ASSUME NEW t \in Tab, Open(t) \/ Submit(t) \/ Activate(t) \/ Answer(t) \/ Close(t)
      PROVE  UNCHANGED files
  BY <1>6 DEF Open, Submit, Activate, Answer, Close
<1>7. CASE UNCHANGED vars
  BY <1>1, <1>7 DEF vars
<1>. QED  BY <1>1, <1>2, <1>3, <1>4, <1>5, <1>6, <1>7 DEF Next, Wizard

LEMMA CountsStep ==
  ASSUME Shape, [Next]_vars
  PROVE  CountsOK'
<1>. USE ProgramAssumption DEF Shape, CountsOK
<1>1. CASE UNCHANGED <<excused, counts>>
  BY <1>1 DEF counts
<1>2. ASSUME NEW s \in Start, Begin(s) PROVE CountsOK'
  <2>1. UNCHANGED <<excused, saves>> /\ (UNCHANGED spent \/ (spent < MaxFault /\ spent' = spent + 1))
    BY <1>2 DEF Begin, Bad, Fine, Spend
  <2>. QED  BY <2>1
<1>3. ASSUME NEW s \in Start, Serve(s) PROVE CountsOK'
  <2>1. /\ excused' = excused \/ excused' = excused \union {"removed"}
        /\ UNCHANGED saves /\ (UNCHANGED spent \/ (spent < MaxFault /\ spent' = spent + 1))
    BY <1>3 DEF Serve, Fine, Spend
  <2>2. excused' \subseteq {"overlap", "twice", "removed"}
    BY <2>1
  <2>3. saves' \in 0 .. MaxSaves /\ spent' \in 0 .. MaxFault
    BY <2>1
  <2>. QED  BY <2>2, <2>3
<1>4. ASSUME NEW s \in Start, End(s) PROVE CountsOK'
  <2>1. /\ excused' = excused \/ excused' = excused \union {"removed"}
        /\ UNCHANGED <<saves, spent>>
    BY <1>4 DEF End, RemoveFile, counts
  <2>. QED  BY <2>1
<1>5. ASSUME NEW s \in Start, Crash(s) PROVE CountsOK'
  <2>1. UNCHANGED <<excused, saves>> /\ spent < MaxFault /\ spent' = spent + 1
    BY <1>5 DEF Crash, Spend
  <2>. QED  BY <2>1
<1>6. ASSUME NEW t \in Tab, Submit(t) PROVE CountsOK'
  <2>1. /\ excused' \subseteq excused \union {"overlap", "twice"}
        /\ saves < MaxSaves /\ saves' = saves + 1 /\ UNCHANGED spent
    BY <1>6 DEF Submit
  <2>2. saves' \in 0 .. MaxSaves /\ spent' \in 0 .. MaxFault
    BY <2>1
  <2>3. excused' \subseteq {"overlap", "twice", "removed"}
    BY <2>1
  <2>. QED  BY <2>2, <2>3
<1>7. ASSUME NEW t \in Tab, Activate(t) PROVE CountsOK'
  <2>1. UNCHANGED <<excused, saves>> /\ (UNCHANGED spent \/ (spent < MaxFault /\ spent' = spent + 1))
    BY <1>7 DEF Activate, Bad, Fine, Spend
  <2>. QED  BY <2>1
<1>8. ASSUME NEW s \in Start, Listen(s) \/ Probe(s) \/ Quit(s)
      PROVE  UNCHANGED <<excused, counts>>
  BY <1>8 DEF Listen, Probe, Quit
<1>9. ASSUME NEW t \in Tab, Open(t) \/ Truncate(t) \/ Write(t) \/ Answer(t) \/ Close(t)
      PROVE  UNCHANGED <<excused, counts>>
  BY <1>9 DEF Open, Truncate, Write, Answer, Close
<1>10. CASE UNCHANGED vars
  BY <1>1, <1>10 DEF vars
<1>. QED  BY <1>1, <1>2, <1>3, <1>4, <1>5, <1>6, <1>7, <1>8, <1>9, <1>10 DEF Next, Wizard

\* A page that is replaced fits if the new one does.
LEMMA FormStep ==
  ASSUME FormsOK, NEW t \in Tab, NEW new, form' = [form EXCEPT ![t] = new], UNCHANGED pc,
         \/ new = Closed
         \/ /\ new \in Waiting \/ new \in Writing
            /\ pc[new.by] \in {"serve", "closing"}
            /\ new.step \in {"written", "swap"} => new.file = "config"
  PROVE  FormsOK'
<1>1. form'[t] = new /\ \A u \in Tab : u # t => form'[u] = form[u]
  BY DEF FormsOK
<1>2. form' \in [Tab -> {Closed} \union Waiting \union Writing]
  BY DEF FormsOK
<1>3. ASSUME NEW u \in Tab, form'[u] # Closed
      PROVE  /\ pc[form'[u].by] \in {"serve", "closing"}
             /\ form'[u].step \in {"written", "swap"} => form'[u].file = "config"
  <2>1. CASE u = t
    BY <1>1, <1>3, <2>1
  <2>2. CASE u # t
    BY <1>1, <1>3, <2>2 DEF FormsOK
  <2>. QED  BY <2>1, <2>2
<1>. QED  BY <1>2, <1>3 DEF FormsOK

LEMMA FormsStep ==
  ASSUME Shape, [Next]_vars
  PROVE  FormsOK'
<1>. USE DEF Shape
<1>1. CASE UNCHANGED <<form, pc>>
  BY <1>1 DEF FormsOK
<1>2. ASSUME NEW s \in Start, NEW to \in {"listen", "bound", "probe", "window", "refused", "serve", "closing"},
             Goto(s, to), UNCHANGED form, pc[s] \notin {"serve", "closing"} \/ to = "closing"
      PROVE  FormsOK'
  <2>1. \A r \in Start : pc[r] \in {"serve", "closing"} => pc'[r] \in {"serve", "closing"}
    BY <1>2 DEF Goto, OwnerOK
  <2>2. \A t \in Tab : form[t] # Closed => form[t].by \in Start
    BY FormIs
  <2>. QED  BY <1>2, <2>1, <2>2 DEF FormsOK
<1>3. ASSUME NEW s \in Start, Begin(s) \/ Listen(s) \/ Probe(s) \/ Serve(s) \/ Quit(s)
      PROVE  FormsOK'
  <2>1. /\ UNCHANGED form
        /\ \E to \in {"listen", "bound", "probe", "window", "refused", "serve", "closing"} :
             Goto(s, to) /\ (pc[s] \notin {"serve", "closing"} \/ to = "closing")
    BY <1>3 DEF Begin, Listen, Probe, Serve, Quit
  <2>. QED  BY <1>2, <2>1
<1>4. ASSUME NEW s \in Start, End(s) \/ Crash(s) PROVE FormsOK'
  <2>1. /\ pc' = [pc EXCEPT ![s] = "ended"]
        /\ form' = [t \in Tab |-> IF form[t] # Closed /\ form[t].by = s THEN Closed ELSE form[t]]
    BY <1>4 DEF End, Crash, Gone, Goto
  <2>2. \A t \in Tab : form[t] # Closed => form[t].by \in Start
    BY FormIs
  <2>3. form' \in [Tab -> {Closed} \union Waiting \union Writing]
    BY <2>1 DEF FormsOK
  <2>4. \A t \in Tab : form'[t] # Closed => form'[t] = form[t] /\ form[t].by # s
    BY <2>1
  <2>5. \A r \in Start : r # s => pc'[r] = pc[r]
    BY <2>1 DEF OwnerOK
  <2>. QED  BY <2>2, <2>3, <2>4, <2>5 DEF FormsOK
<1>5. ASSUME NEW t \in Tab, Open(t) PROVE FormsOK'
  <2>1. PICK f \in File, editing \in Id \union {None} :
          form' = [form EXCEPT ![t] = Page("form", owner, f, editing)]
    BY <1>5 DEF Open
  <2>2. owner \in Start /\ pc[owner] = "serve" /\ UNCHANGED pc
    BY <1>5 DEF Open, OwnerOK
  <2>. DEFINE new == Page("form", owner, f, editing)
  <2>3. new \in Waiting /\ new.by = owner /\ new.step = "form"
    BY <2>2 DEF Page, Waiting
  <2>. HIDE DEF new
  <2>. QED  BY <2>1, <2>2, <2>3, FormStep DEF new
<1>6. ASSUME NEW t \in Tab, Submit(t) PROVE FormsOK'
  <2>1. /\ form[t] \in Waiting /\ form[t].by \in Start /\ form[t].file \in File
        /\ form[t].editing \in Id \union {None} /\ pc[form[t].by] = "serve" /\ UNCHANGED pc
        /\ saves' \in Nat
    BY <1>6, FormIs DEF Submit, CountsOK
  <2>. DEFINE e(id) == [id |-> id, save |-> saves']
              new(id) == Sent(form[t], e(id), Place(disk[form[t].file], e(id), form[t].editing))
  <2>2. PICK id \in Id : form' = [form EXCEPT ![t] = new(id)]
    BY <1>6 DEF Submit, FormsOK
  <2>3. disk[form[t].file] \in Seq(Entry) /\ e(id) \in Entry
    BY <2>1 DEF FilesOK, Entry
  <2>4. Place(disk[form[t].file], e(id), form[t].editing) \in Seq(Entry)
    BY <2>3, PlaceType
  <2>5. new(id) \in Writing /\ new(id).by = form[t].by /\ new(id).step = "read"
    BY <2>1, <2>3, <2>4 DEF Sent, Writing
  <2>. HIDE DEF new
  <2>. QED  BY <2>1, <2>2, <2>5, FormStep
<1>7. ASSUME NEW t \in Tab, Truncate(t) PROVE FormsOK'
  <2>. DEFINE new == [form[t] EXCEPT !.step = "torn"]
  <2>1. form[t] \in Writing /\ pc[form[t].by] \in {"serve", "closing"} /\ UNCHANGED pc
    BY <1>7, FormIs DEF Truncate
  <2>2. form' = [form EXCEPT ![t] = new]
    BY <1>7 DEF Truncate, Step, FormsOK
  <2>3. new \in Writing /\ new.by = form[t].by /\ new.step = "torn"
    BY <2>1 DEF Writing
  <2>. HIDE DEF new
  <2>. QED  BY <2>1, <2>2, <2>3, FormStep
<1>8. ASSUME NEW t \in Tab, Write(t) PROVE FormsOK'
  <2>. DEFINE new == [form[t] EXCEPT !.step = "written"]
  <2>1. /\ form[t] \in Writing /\ pc[form[t].by] \in {"serve", "closing"} /\ UNCHANGED pc
        /\ form[t].file \in File
    BY <1>8, FormIs DEF Write
  <2>2. \/ form' = [form EXCEPT ![t] = Closed]
        \/ form' = [form EXCEPT ![t] = new] /\ form[t].file = "config"
    BY <1>8, <2>1 DEF Write, Step, FormsOK, File
  <2>3. new \in Writing /\ new.by = form[t].by /\ new.file = form[t].file
    BY <2>1 DEF Writing
  <2>. HIDE DEF new
  <2>. QED  BY <2>1, <2>2, <2>3, FormStep
<1>9. ASSUME NEW t \in Tab, Activate(t) \/ Answer(t) PROVE FormsOK'
  <2>1. /\ form[t].by \in Start /\ form[t].file = "config" /\ form[t].editing \in Id \union {None}
        /\ pc[form[t].by] \in {"serve", "closing"} /\ UNCHANGED pc
    BY <1>9, FormIs DEF Activate, Answer, Closed
  <2>. DEFINE new(step) == Page(step, form[t].by, form[t].file, form[t].editing)
  <2>2. \/ form' = [form EXCEPT ![t] = Closed]
        \/ form' = [form EXCEPT ![t] = new("form")]
        \/ form' = [form EXCEPT ![t] = new("swap")]
    BY <1>9 DEF Activate, Answer, FormsOK
  <2>3. /\ new("form") \in Waiting /\ new("form").by = form[t].by /\ new("form").file = "config"
        /\ new("swap") \in Waiting /\ new("swap").by = form[t].by /\ new("swap").file = "config"
    BY <2>1 DEF Page, Waiting, File
  <2>. HIDE DEF new
  <2>. QED  BY <2>1, <2>2, <2>3, FormStep
<1>10. ASSUME NEW t \in Tab, Close(t) PROVE FormsOK'
  <2>1. form' = [form EXCEPT ![t] = Closed] /\ UNCHANGED pc
    BY <1>10 DEF Close
  <2>. QED  BY <2>1, FormStep
<1>11. CASE UNCHANGED vars
  BY <1>1, <1>11 DEF vars
<1>. QED  BY <1>3, <1>4, <1>5, <1>6, <1>7, <1>8, <1>9, <1>10, <1>11 DEF Next, Wizard

LEMMA ShapeStep ==
  ASSUME Shape, [Next]_vars
  PROVE  Shape'
BY OwnerStep, ServerStep, FilesStep, FormsStep, CountsStep DEF Shape

LEMMA ShapeIsTypes == Shape => TypeOK
<1>. SUFFICES ASSUME Shape PROVE TypeOK
  OBVIOUS
<1>1. \A s \in Start : Range(accounts[s]) \subseteq Entry /\ DOMAIN byID[s] \subseteq Id
  <2>1. \A s \in Start : accounts[s] \in Seq(Entry) /\ DOMAIN byID[s] \subseteq Id
    BY DEF Shape, ServerOK
  <2>. QED  BY <2>1, EntriesOf
<1>2. \A f \in File : Range(disk[f]) \subseteq Entry /\ DOMAIN book[f] \subseteq Id
  <2>1. \A f \in File : disk[f] \in Seq(Entry) /\ DOMAIN book[f] \subseteq Id
    BY DEF Shape, FilesOK
  <2>. QED  BY <2>1, EntriesOf
<1>3. \A t \in Tab : form[t] # Closed =>
        /\ pc[form[t].by] \in {"serve", "closing"} /\ form[t].file \in File
        /\ form[t].step \in {"form", "read", "torn", "written", "swap"}
  BY FormIs DEF Shape
<1>4. owner # None <=> \E s \in Start : pc[s] \in {"bound", "serve"}
  BY ProgramAssumption DEF Shape, OwnerOK
<1>. QED
  BY <1>1, <1>2, <1>3, <1>4 DEF TypeOK, Shape, OwnerOK, PcType, ServerOK, CountsOK

\* Every state of the program is well formed: one start at most holds the port,
\* and it is the one that serves; a wizard page belongs to a start that serves or
\* is closing; lists, indexes and files hold entries (main.go, wizard.go).
THEOREM TypeCorrect == Spec => []TypeOK
<1>1. Init => Shape
  BY InitShape
<1>2. Shape /\ [Next]_vars => Shape'
  BY ShapeStep
<1>3. Shape => TypeOK
  BY ShapeIsTypes
<1>. QED  BY <1>1, <1>2, <1>3, PTL DEF Spec

-----------------------------------------------------------------------------
(* One save at a time.                                                       *)

\* Who ends takes its pages with it, and no other page changes.
LEMMA GoneForms ==
  ASSUME FormsOK, NEW s \in Start, Gone(s), NEW t \in Tab
  PROVE  /\ form'[t] = IF form[t] # Closed /\ form[t].by = s THEN Closed ELSE form[t]
         /\ form'[t].step = "closed" \/ (form'[t] = form[t] /\ form[t].by # s)
  <1>1. form'[t] = IF form[t] # Closed /\ form[t].by = s THEN Closed ELSE form[t]
    BY DEF Gone
  <1>. QED  BY <1>1, FormIs DEF Closed

\* What a step of a page does to the pages: it changes its own.
LEMMA PageSteps ==
  ASSUME FormsOK, NEW t \in Tab, Open(t) \/ Wizard(t)
  PROVE  /\ \A u \in Tab : u # t => form'[u] = form[u]
         /\ UNCHANGED pc
         /\ Open(t) => form[t].step = "closed" /\ form'[t].step = "form"
         /\ Close(t) => form[t].step = "form" /\ form'[t].step = "closed"
         /\ Submit(t) => form[t].step = "form" /\ form'[t].step = "read" /\ form'[t].file = form[t].file
         /\ Truncate(t) => /\ form[t].step = "read"
                           /\ form'[t] = [form[t] EXCEPT !.step = "torn"]
         /\ Write(t) => /\ form[t].step = "torn"
                        /\ form[t].file = "credentials" => form'[t].step = "closed"
                        /\ form[t].file # "credentials" =>
                             form'[t] = [form[t] EXCEPT !.step = "written"]
         /\ Activate(t) => /\ form[t].step = "written" /\ form'[t].step = "swap"
                           /\ form'[t].by = form[t].by
         /\ Answer(t) => form[t].step = "swap" /\ form'[t].step \in {"closed", "form"}
<1>. USE DEF FormsOK
<1>1. \A u \in Tab : u # t => form'[u] = form[u]
  BY DEF Open, Wizard, Submit, Truncate, Write, Activate, Answer, Close, Step
<1>2. UNCHANGED pc
  BY DEF Open, Wizard, Submit, Truncate, Write, Activate, Answer, Close
<1>3. Open(t) => form[t].step = "closed" /\ form'[t].step = "form"
  BY DEF Open, Page, Closed
<1>4. Close(t) => form[t].step = "form" /\ form'[t].step = "closed"
  BY DEF Close, Closed
<1>5. Submit(t) => form[t].step = "form" /\ form'[t].step = "read" /\ form'[t].file = form[t].file
  BY DEF Submit, Sent
<1>6. Truncate(t) => form[t].step = "read" /\ form'[t] = [form[t] EXCEPT !.step = "torn"]
  BY DEF Truncate, Step
<1>7. Write(t) => /\ form[t].step = "torn"
                  /\ form[t].file = "credentials" => form'[t].step = "closed"
                  /\ form[t].file # "credentials" =>
                       form'[t] = [form[t] EXCEPT !.step = "written"]
  BY DEF Write, Step, Closed
<1>8. Activate(t) => /\ form[t].step = "written" /\ form'[t].step = "swap"
                     /\ form'[t].by = form[t].by
  BY DEF Activate, Page
<1>9. Answer(t) => form[t].step = "swap" /\ form'[t].step \in {"closed", "form"}
  BY DEF Answer, Page, Closed
<1>. QED  BY <1>1, <1>2, <1>3, <1>4, <1>5, <1>6, <1>7, <1>8, <1>9

\* What is excused once stays so.
LEMMA ExcusedGrows ==
  ASSUME [Next]_vars
  PROVE  excused \subseteq excused'
<1>1. ASSUME NEW s \in Start, Begin(s) \/ Listen(s) \/ Probe(s) \/ Serve(s) \/ Quit(s)
      PROVE  excused \subseteq excused'
  BY <1>1 DEF Begin, Listen, Probe, Serve, Quit
<1>2. ASSUME NEW s \in Start, End(s) \/ Crash(s) PROVE excused \subseteq excused'
  BY <1>2 DEF End, Crash, RemoveFile
<1>3. ASSUME NEW t \in Tab, Open(t) \/ Wizard(t) PROVE excused \subseteq excused'
  BY <1>3 DEF Open, Wizard, Submit, Truncate, Write, Activate, Answer, Close
<1>4. CASE UNCHANGED vars
  BY <1>4 DEF vars
<1>. QED  BY <1>1, <1>2, <1>3, <1>4 DEF Next

LEMMA AloneStep ==
  ASSUME Shape, Alone, [Next]_vars
  PROVE  Alone'
<1>. SUFFICES ASSUME "overlap" \notin excused'
              PROVE  /\ \A t, u \in Tab : Saving(t)' /\ Saving(u)' => t = u
                     /\ \A t \in Tab : form'[t].step = "torn" => disk'[form'[t].file] = <<>>
  BY DEF Alone
<1>1. /\ \A t, u \in Tab : Saving(t) /\ Saving(u) => t = u
      /\ \A t \in Tab : form[t].step = "torn" => disk[form[t].file] = <<>>
  BY ExcusedGrows DEF Alone
<1>. USE DEF Shape, Saving
<1>2. CASE UNCHANGED <<form, disk>>
  BY <1>1, <1>2
<1>3. ASSUME NEW s \in Start, End(s) \/ Crash(s)
      PROVE  /\ \A t, u \in Tab : Saving(t)' /\ Saving(u)' => t = u
             /\ \A t \in Tab : form'[t].step = "torn" => disk'[form'[t].file] = <<>>
  <2>1. Gone(s) /\ UNCHANGED disk
    BY <1>3 DEF End, Crash, Gone
  <2>2. \A t \in Tab : form'[t].step = "closed" \/ form'[t] = form[t]
    BY <2>1, GoneForms
  <2>. QED  BY <1>1, <2>1, <2>2
<1>4. ASSUME NEW t \in Tab, Open(t) \/ Activate(t) \/ Answer(t) \/ Close(t)
      PROVE  /\ \A u, v \in Tab : Saving(u)' /\ Saving(v)' => u = v
             /\ \A u \in Tab : form'[u].step = "torn" => disk'[form'[u].file] = <<>>
  <2>1. UNCHANGED disk
    BY <1>4 DEF Open, Activate, Answer, Close, files
  <2>2. /\ \A u \in Tab : u # t => form'[u] = form[u]
        /\ Saving(t)' => Saving(t)
        /\ form'[t].step # "torn"
    BY <1>4, PageSteps DEF Wizard
  <2>. QED  BY <1>1, <2>1, <2>2
<1>5. ASSUME NEW t \in Tab, Submit(t)
      PROVE  /\ \A u, v \in Tab : Saving(u)' /\ Saving(v)' => u = v
             /\ \A u \in Tab : form'[u].step = "torn" => disk'[form'[u].file] = <<>>
  <2>1. \A u \in Tab : u # t => form'[u] = form[u]
    BY <1>5, PageSteps DEF Wizard
  <2>2. form'[t].step = "read"
    BY <1>5, PageSteps DEF Wizard
  <2>3. \A u \in Tab \ {t} : ~ (form[u] # Closed /\ Saving(u))
    BY <1>5 DEF Submit
  <2>4. \A u \in Tab : u # t => form[u].step = "closed" \/ form[u].step = "form"
    BY <2>3, FormIs
  <2>. QED  BY <2>1, <2>2, <2>4
<1>6. ASSUME NEW t \in Tab, Truncate(t)
      PROVE  /\ \A u, v \in Tab : Saving(u)' /\ Saving(v)' => u = v
             /\ \A u \in Tab : form'[u].step = "torn" => disk'[form'[u].file] = <<>>
  <2>1. /\ \A u \in Tab : u # t => form'[u] = form[u]
        /\ form[t].step = "read" /\ form'[t] = [form[t] EXCEPT !.step = "torn"]
    BY <1>6, PageSteps DEF Wizard
  <2>2. form[t] \in Writing /\ form[t].file \in File
    BY <2>1, FormIs
  <2>3. form'[t].file = form[t].file
    BY <2>1, <2>2 DEF Writing
  <2>4. disk'[form[t].file] = <<>>
    BY <1>6, <2>2 DEF Truncate, FilesOK
  <2>5. \A u \in Tab : Saving(u)' => Saving(u)
    BY <2>1
  <2>6. ASSUME NEW u \in Tab, form'[u].step = "torn" PROVE disk'[form'[u].file] = <<>>
    <3>1. CASE u = t
      BY <2>3, <2>4, <3>1
    <3>2. CASE u # t
      <4>1. form'[u] = form[u] /\ Saving(u) /\ Saving(t)
        BY <2>1, <2>6, <3>2
      <4>. QED  BY <1>1, <3>2, <4>1
    <3>. QED  BY <3>1, <3>2
  <2>. QED  BY <1>1, <2>5, <2>6
<1>7. ASSUME NEW t \in Tab, Write(t)
      PROVE  /\ \A u, v \in Tab : Saving(u)' /\ Saving(v)' => u = v
             /\ \A u \in Tab : form'[u].step = "torn" => disk'[form'[u].file] = <<>>
  <2>1. /\ \A u \in Tab : u # t => form'[u] = form[u]
        /\ form[t].step = "torn"
        /\ form'[t].step = "closed" \/ form'[t] = [form[t] EXCEPT !.step = "written"]
    BY <1>7, PageSteps DEF Wizard
  <2>2. form[t] \in Writing
    BY <2>1, FormIs
  <2>3. form'[t].step # "torn"
    BY <2>1, <2>2 DEF Writing
  <2>. QED  BY <1>1, <2>1, <2>3
<1>8. ASSUME NEW s \in Start, Begin(s) \/ Listen(s) \/ Probe(s) \/ Serve(s) \/ Quit(s)
      PROVE  UNCHANGED <<form, disk>>
  BY <1>8 DEF Begin, Listen, Probe, Serve, Quit, files
<1>9. CASE UNCHANGED vars
  BY <1>2, <1>9 DEF vars, files
<1>. QED  BY <1>2, <1>3, <1>4, <1>5, <1>6, <1>7, <1>8, <1>9 DEF Next, Wizard

-----------------------------------------------------------------------------
(* What is booked.                                                           *)

\* A page of a file that nobody writes keeps it quiet.
LEMMA QuietIs ==
  ASSUME FormsOK, NEW f
  PROVE  Quiet(f) <=> ~ \E t \in Tab : form[t].step = "torn" /\ form[t].file = f
BY FormIs DEF Quiet

LEMMA BookedStep ==
  ASSUME Shape, Alone, Booked, [Next]_vars
  PROVE  Booked'
<1>. DEFINE InFile(f) == Holds(disk[f], book[f])
            ToCome(t) == Holds(form[t].list,
                           Updated(book[form[t].file], form[t].entry, form[t].editing))
            Good == /\ \A f \in File : Quiet(f)' => InFile(f)'
                    /\ \A t \in Tab : form'[t].step \in {"read", "torn"} => ToCome(t)'
<1>. SUFFICES ASSUME excused' \intersect {"overlap", "twice"} = {}
              PROVE  Good
  BY DEF Booked
<1>1. /\ \A f \in File : Quiet(f) => InFile(f)
      /\ \A t \in Tab : form[t].step \in {"read", "torn"} => ToCome(t)
  BY ExcusedGrows DEF Booked
<1>2. /\ \A t, u \in Tab : Saving(t) /\ Saving(u) => t = u
      /\ \A t \in Tab : form[t].step = "torn" => disk[form[t].file] = <<>>
  BY ExcusedGrows DEF Alone
<1>3. /\ \A f : Quiet(f) <=> ~ \E t \in Tab : form[t].step = "torn" /\ form[t].file = f
      /\ \A f : Quiet(f)' <=> ~ \E t \in Tab : form'[t].step = "torn" /\ form'[t].file = f
  <2>1. FormsOK /\ FormsOK'
    BY ShapeStep DEF Shape
  <2>2. \A f : Quiet(f) <=> ~ \E t \in Tab : form[t].step = "torn" /\ form[t].file = f
    BY <2>1, QuietIs
  <2>3. \A t \in Tab : form'[t] = Closed => form'[t].step = "closed"
    BY DEF Closed
  <2>. QED  BY <2>2, <2>3 DEF Quiet
<1>. HIDE DEF InFile, ToCome
<1>4. CASE UNCHANGED <<form, disk, book>>
  <2>1. \A f : (Quiet(f)' <=> Quiet(f)) /\ (InFile(f)' <=> InFile(f))
    BY <1>4, <1>3 DEF InFile
  <2>2. \A t \in Tab : ToCome(t)' <=> ToCome(t)
    BY <1>4 DEF ToCome
  <2>. QED  BY <1>1, <1>4, <2>1, <2>2
<1>5. ASSUME NEW s \in Start, End(s) \/ Crash(s) PROVE Good
  <2>1. Gone(s) /\ UNCHANGED disk
    BY <1>5 DEF End, Crash, Gone
  <2>2. book' = [f \in File |-> IF Torn(s, f) THEN <<>> ELSE book[f]]
    BY <2>1 DEF Gone
  <2>3. \A t \in Tab : /\ form'[t] = IF form[t] # Closed /\ form[t].by = s THEN Closed ELSE form[t]
                       /\ form'[t].step = "closed" \/ (form'[t] = form[t] /\ form[t].by # s)
    BY <2>1, GoneForms DEF Shape
  <2>4. ASSUME NEW f \in File, Quiet(f)' PROVE InFile(f)'
    <3>1. CASE Torn(s, f)
      <4>1. disk[f] = <<>>
        BY <1>2, <3>1 DEF Torn
      <4>2. disk'[f] = <<>> /\ book'[f] = <<>>
        BY <2>1, <2>2, <3>1, <4>1
      <4>3. Holds(<<>>, <<>>)
        BY HoldsPlaces
      <4>. QED  BY <4>2, <4>3 DEF InFile
    <3>2. CASE ~ Torn(s, f)
      <4>1. Quiet(f)
        <5>. SUFFICES ASSUME NEW t \in Tab, form[t].step = "torn", form[t].file = f PROVE FALSE
          BY <1>3
        <5>1. form[t] # Closed
          BY DEF Closed
        <5>2. form[t].by # s
          BY <3>2, <5>1 DEF Torn
        <5>3. form'[t] = form[t]
          BY <2>3, <5>2
        <5>. QED  BY <1>3, <2>4, <5>3
      <4>2. disk'[f] = disk[f] /\ book'[f] = book[f]
        BY <2>1, <2>2, <3>2
      <4>. QED  BY <1>1, <4>1, <4>2 DEF InFile
    <3>. QED  BY <3>1, <3>2
  <2>5. ASSUME NEW t \in Tab, form'[t].step \in {"read", "torn"} PROVE ToCome(t)'
    <3>1. form'[t] = form[t] /\ form[t].by # s
      BY <2>3, <2>5
    <3>2. form[t].file \in File /\ ToCome(t)
      BY <1>1, <2>5, <3>1, FormIs DEF Shape
    <3>3. ~ Torn(s, form[t].file)
      <4>. SUFFICES ASSUME NEW u \in Tab, form[u].by = s, form[u].step = "torn" PROVE FALSE
        BY DEF Torn
      <4>1. Saving(t) /\ Saving(u)
        BY <2>5, <3>1 DEF Saving
      <4>. QED  BY <1>2, <3>1, <4>1
    <3>4. book'[form[t].file] = book[form[t].file]
      BY <2>2, <3>2, <3>3
    <3>. QED  BY <3>1, <3>2, <3>4 DEF ToCome
  <2>. QED  BY <2>4, <2>5
<1>6. ASSUME NEW t \in Tab, Open(t) \/ Activate(t) \/ Answer(t) \/ Close(t) PROVE Good
  <2>1. UNCHANGED <<disk, book>>
    BY <1>6 DEF Open, Activate, Answer, Close, files
  <2>2. /\ \A u \in Tab : u # t => form'[u] = form[u]
        /\ form[t].step \notin {"read", "torn"} /\ form'[t].step \notin {"read", "torn"}
    BY <1>6, PageSteps DEF Wizard, Shape
  <2>3. \A f : (Quiet(f)' => Quiet(f)) /\ (InFile(f)' <=> InFile(f))
    BY <1>3, <2>1, <2>2 DEF InFile
  <2>4. \A u \in Tab : u # t => (ToCome(u)' <=> ToCome(u))
    BY <2>1, <2>2 DEF ToCome
  <2>. QED  BY <1>1, <2>2, <2>3, <2>4
<1>7. ASSUME NEW t \in Tab, Submit(t) PROVE Good
  <2>1. /\ \A u \in Tab : u # t => form'[u] = form[u]
        /\ form[t].step = "form" /\ form'[t].step = "read"
        /\ UNCHANGED <<disk, book>>
    BY <1>7, PageSteps DEF Wizard, Shape, Submit, files
  <2>2. \A u \in Tab : u # t => form[u].step \notin {"read", "torn"}
    <3>1. \A u \in Tab \ {t} : ~ (form[u] # Closed /\ Saving(u))
      BY <1>7 DEF Submit
    <3>2. \A u \in Tab \ {t} : form[u].step = "closed" \/ form[u].step = "form"
      BY <3>1, FormIs DEF Saving, Shape
    <3>. QED  BY <3>2
  <2>3. \A f : Quiet(f) /\ (InFile(f)' <=> InFile(f))
    BY <1>3, <2>1, <2>2 DEF InFile
  <2>. DEFINE f == form[t].file
              e(id) == [id |-> id, save |-> saves']
              new(id) == Sent(form[t], e(id), Place(disk[f], e(id), form[t].editing))
  <2>4. /\ form[t].file \in File /\ saves' \in Nat
    BY <1>7, FormIs DEF Submit, Shape, CountsOK
  <2>5. PICK id \in Id : /\ form' = [form EXCEPT ![t] = new(id)]
                         /\ ~ (id \in DOMAIN book[f] /\ form[t].editing \in DOMAIN book[f] \ {id})
    BY <1>7 DEF Submit, Shape, FormsOK
  <2>6. disk[f] \in Seq(Entry) /\ e(id) \in Entry /\ e(id).id = id
    BY <2>4 DEF Shape, FilesOK, Entry
  <2>7. Holds(disk[f], book[f])
    BY <1>1, <2>3, <2>4 DEF InFile
  <2>8. Holds(Place(disk[f], e(id), form[t].editing), Updated(book[f], e(id), form[t].editing))
    <3>1. ~ (e(id).id \in DOMAIN book[f] /\ form[t].editing \in DOMAIN book[f] \ {e(id).id})
      BY <2>5, <2>6
    <3>. HIDE DEF e, f
    <3>. QED  BY <2>6, <2>7, <3>1, PlaceHolds
  <2>9. /\ form'[t].list = Place(disk[f], e(id), form[t].editing)
        /\ form'[t].file = f /\ form'[t].entry = e(id) /\ form'[t].editing = form[t].editing
    <3>1. form'[t] = new(id)
      BY <2>5 DEF Shape, FormsOK
    <3>. QED  BY <3>1 DEF Sent
  <2>10. ToCome(t)'
    BY <2>1, <2>8, <2>9 DEF ToCome
  <2>. QED  BY <1>1, <2>1, <2>2, <2>3, <2>10
<1>8. ASSUME NEW t \in Tab, Truncate(t) PROVE Good
  <2>1. /\ \A u \in Tab : u # t => form'[u] = form[u]
        /\ form[t].step = "read" /\ form'[t] = [form[t] EXCEPT !.step = "torn"]
    BY <1>8, PageSteps DEF Wizard, Shape
  <2>2. form[t] \in Writing /\ form[t].file \in File
    BY <2>1, FormIs DEF Shape
  <2>3. /\ form'[t].file = form[t].file /\ form'[t].step = "torn" /\ form'[t].list = form[t].list
        /\ form'[t].entry = form[t].entry /\ form'[t].editing = form[t].editing
    BY <2>1, <2>2 DEF Writing
  <2>4. disk' = [disk EXCEPT ![form[t].file] = <<>>] /\ UNCHANGED book
    BY <1>8 DEF Truncate
  <2>5. ASSUME NEW f \in File, Quiet(f)' PROVE InFile(f)'
    <3>1. f # form[t].file
      BY <1>3, <2>3, <2>5
    <3>2. Quiet(f)
      BY <1>3, <2>1, <2>5
    <3>3. disk'[f] = disk[f] /\ book'[f] = book[f]
      BY <2>4, <3>1 DEF Shape, FilesOK
    <3>. QED  BY <1>1, <3>2, <3>3 DEF InFile
  <2>6. \A u \in Tab : ToCome(u)' <=> ToCome(u)
    BY <2>1, <2>3, <2>4 DEF ToCome
  <2>. QED  BY <1>1, <2>1, <2>3, <2>5, <2>6
<1>9. ASSUME NEW t \in Tab, Write(t) PROVE Good
  <2>1. /\ \A u \in Tab : u # t => form'[u] = form[u]
        /\ form[t].step = "torn"
        /\ form'[t].step = "closed" \/ form'[t] = [form[t] EXCEPT !.step = "written"]
    BY <1>9, PageSteps DEF Wizard, Shape
  <2>2. form[t] \in Writing /\ form[t].file \in File
    BY <2>1, FormIs DEF Shape
  <2>3. form'[t].step \notin {"read", "torn"}
    BY <2>1, <2>2 DEF Writing
  <2>4. /\ disk' = [disk EXCEPT ![form[t].file] = form[t].list]
        /\ book' = [book EXCEPT ![form[t].file] = Updated(@, form[t].entry, form[t].editing)]
    BY <1>9 DEF Write, Updated
  <2>5. \A u \in Tab : u # t => form[u].step \notin {"read", "torn"}
    BY <1>2, <2>1 DEF Saving
  <2>6. ASSUME NEW f \in File PROVE InFile(f)'
    <3>1. CASE f = form[t].file
      <4>1. /\ disk'[f] = form[t].list
            /\ book'[f] = Updated(book[f], form[t].entry, form[t].editing)
        BY <2>2, <2>4, <3>1 DEF Shape, FilesOK
      <4>2. ToCome(t)
        BY <1>1, <2>1
      <4>. QED  BY <3>1, <4>1, <4>2 DEF InFile, ToCome
    <3>2. CASE f # form[t].file
      <4>1. disk'[f] = disk[f] /\ book'[f] = book[f]
        BY <2>4, <3>2 DEF Shape, FilesOK
      <4>2. Quiet(f)
        BY <1>3, <2>1, <2>5, <3>2
      <4>. QED  BY <1>1, <4>1, <4>2 DEF InFile
    <3>. QED  BY <3>1, <3>2
  <2>. QED  BY <2>1, <2>3, <2>5, <2>6
<1>10. ASSUME NEW s \in Start, Begin(s) \/ Listen(s) \/ Probe(s) \/ Serve(s) \/ Quit(s)
       PROVE  UNCHANGED <<form, disk, book>>
  BY <1>10 DEF Begin, Listen, Probe, Serve, Quit, files
<1>11. CASE UNCHANGED vars
  BY <1>4, <1>11 DEF vars, files
<1>. HIDE DEF Good
<1>. QED  BY <1>4, <1>5, <1>6, <1>7, <1>8, <1>9, <1>10, <1>11 DEF Next, Wizard

LEMMA InitBooked == Init => Alone /\ Booked
<1>. SUFFICES ASSUME Init PROVE Alone /\ Booked
  OBVIOUS
<1>1. \A t \in Tab : form[t].step = "closed"
  BY DEF Init, Closed
<1>2. Alone
  BY <1>1 DEF Alone, Saving
<1>3. PICK first \in SUBSET Id :
        /\ book = [f \in File |-> [i \in first |-> 0]]
        /\ \E list \in SetToSeqs({[id |-> i, save |-> 0] : i \in first}) :
             disk = [f \in File |-> list]
  BY Zenon DEF Init
<1>4. PICK list \in SetToSeqs({[id |-> i, save |-> 0] : i \in first}) :
        disk = [f \in File |-> list]
  BY <1>3
<1>5. Holds(list, [i \in first |-> 0])
  BY <1>4, InitHolds
<1>6. \A f \in File : Holds(disk[f], book[f])
  BY <1>3, <1>4, <1>5
<1>7. Booked
  BY <1>1, <1>6 DEF Booked
<1>. QED  BY <1>2, <1>7

LEMMA BookedIsKept ==
  ASSUME Shape, Booked
  PROVE  OthersKept
<1>. SUFFICES ASSUME NEW f \in File, Quiet(f), excused \intersect {"overlap", "twice"} = {}
              PROVE  /\ Len(disk[f]) = Cardinality(DOMAIN book[f])
                     /\ \A e \in Range(disk[f]) : e.id \in DOMAIN book[f] /\ book[f][e.id] = e.save
  BY DEF OthersKept
<1>1. Holds(disk[f], book[f])
  BY DEF Booked
<1>2. disk[f] \in Seq(Entry)
  BY DEF Shape, FilesOK
<1>3. Len(disk[f]) = Cardinality(DOMAIN book[f])
  BY <1>1, <1>2, HoldsCount
<1>4. \A e \in Range(disk[f]) : e.id \in DOMAIN book[f] /\ book[f][e.id] = e.save
  BY <1>1 DEF Holds
<1>. QED  BY <1>3, <1>4

\* A save of the wizard changes the entry it edits and no other: unless two save
\* at once, or an entry is edited into another one, each file holds, once, every
\* entry that was ever saved in it and not edited since, as the last save left it
\* (wizard.go Save and place, config.go Save, wizard.go WriteCredentials).
THEOREM OthersAreKept == Spec => []OthersKept
<1>1. Init => Shape /\ Alone /\ Booked
  BY InitShape, InitBooked
<1>2. Shape /\ Alone /\ Booked /\ [Next]_vars => Shape' /\ Alone' /\ Booked'
  BY ShapeStep, AloneStep, BookedStep
<1>3. Shape /\ Alone /\ Booked => OthersKept
  BY BookedIsKept
<1>. QED  BY <1>1, <1>2, <1>3, PTL DEF Spec

-----------------------------------------------------------------------------
(* What is served.                                                           *)

LEMMA NamesStep ==
  ASSUME Shape, FileNamesServer, [Next]_vars
  PROVE  FileNamesServer'
<1>. USE ProgramAssumption DEF Shape, OwnerOK, FileNamesServer, Goto
<1>1. CASE UNCHANGED <<owner, addr, pc, excused, spent>>
  BY <1>1
<1>0. spent' = 0 => spent = 0
  <2>1. \/ UNCHANGED spent
        \/ spent' = spent + 1
    <3>1. ASSUME NEW s \in Start, Begin(s) \/ Listen(s) \/ Probe(s) \/ Serve(s) \/ Quit(s) \/ End(s) \/ Crash(s)
          PROVE  UNCHANGED spent \/ spent' = spent + 1
      BY SMTT(30), <3>1 DEF Begin, Listen, Probe, Serve, Quit, End, Crash, Bad, Spend, Fine, counts
    <3>2. ASSUME NEW t \in Tab, Open(t) \/ Wizard(t)
          PROVE  UNCHANGED spent \/ spent' = spent + 1
      BY <3>2 DEF Open, Wizard, Submit, Truncate, Write, Activate, Answer, Close, Bad, Spend, Fine, counts
    <3>. QED  BY <3>1, <3>2 DEF Next, vars, counts
  <2>. QED  BY <2>1 DEF CountsOK
<1>2. ASSUME NEW s \in Start, Begin(s) PROVE FileNamesServer'
  BY <1>0, <1>2 DEF Begin
<1>3. ASSUME NEW s \in Start, Listen(s) PROVE FileNamesServer'
  BY <1>3 DEF Listen, counts
<1>4. ASSUME NEW s \in Start, Probe(s) PROVE FileNamesServer'
  BY <1>4 DEF Probe, counts
<1>5. ASSUME NEW s \in Start, Serve(s) PROVE FileNamesServer'
  <2>1. /\ owner = s /\ owner' = s /\ pc' = [pc EXCEPT ![s] = "serve"]
        /\ addr' = s \/ (addr' = None /\ "removed" \in excused')
    BY <1>5 DEF Serve
  <2>. QED  BY <2>1
<1>6. ASSUME NEW s \in Start, Quit(s) PROVE FileNamesServer'
  BY <1>6 DEF Quit, counts
<1>7. ASSUME NEW s \in Start, End(s) PROVE FileNamesServer'
  <2>1. /\ pc[s] = "closing" /\ pc' = [pc EXCEPT ![s] = "ended"] /\ addr' = None
        /\ UNCHANGED owner
        /\ excused' = IF addr # None /\ addr # s THEN excused \union {"removed"} ELSE excused
    BY <1>7 DEF End, Gone, RemoveFile
  <2>2. owner # s
    BY <2>1
  <2>3. ~ (owner' # None /\ pc'[owner'] = "serve" /\ "removed" \notin excused')
    <3>. SUFFICES ASSUME owner # None, pc'[owner] = "serve", "removed" \notin excused' PROVE FALSE
      BY <2>1
    <3>1. pc[owner] = "serve" /\ "removed" \notin excused
      BY <2>1, <2>2
    <3>2. addr = owner
      BY <3>1
    <3>. QED  BY <2>1, <2>2, <3>2
  <2>. QED  BY <2>1, <2>3
<1>8. ASSUME NEW s \in Start, Crash(s) PROVE FileNamesServer'
  <2>1. /\ pc' = [pc EXCEPT ![s] = "ended"] /\ owner' = IF owner = s THEN None ELSE owner
        /\ UNCHANGED <<addr, excused>> /\ spent' = spent + 1
    BY <1>8 DEF Crash, Gone, Freed, Spend
  <2>2. spent' # 0
    BY <2>1 DEF CountsOK
  <2>. QED  BY <2>1, <2>2
<1>9. ASSUME NEW t \in Tab, Open(t) \/ Wizard(t) PROVE FileNamesServer'
  <2>1. UNCHANGED <<owner, addr, pc>>
    BY <1>9 DEF Open, Wizard, Submit, Truncate, Write, Activate, Answer, Close
  <2>. QED  BY SMTT(30), <1>0, <1>9, <2>1, ExcusedGrows DEF Next
<1>10. CASE UNCHANGED vars
  BY <1>1, <1>10 DEF vars, counts
<1>. QED  BY <1>1, <1>2, <1>3, <1>4, <1>5, <1>6, <1>7, <1>8, <1>9, <1>10 DEF Next

\* What Current says of a start.
Fresh(s) ==
  Alive(s) /\ s \notin stale /\ Quiet("config") =>
    /\ Range(accounts[s]) = Armable(s) \/ AtStep(s, {"written"})
    /\ Indexed(s) \/ AtStep(s, {"written", "swap"})

\* A start stays as it is if its mailboxes, its pages and the file do.
LEMMA StaysFresh ==
  ASSUME NEW s \in Start, Fresh(s),
         Alive(s)' => Alive(s), s \notin stale' => s \notin stale,
         Quiet("config")' => Quiet("config"),
         accounts'[s] = accounts[s], byID'[s] = byID[s], down'[s] = down[s],
         disk'["config"] = disk["config"],
         AtStep(s, {"written"}) => AtStep(s, {"written"})',
         AtStep(s, {"written", "swap"}) => AtStep(s, {"written", "swap"})'
  PROVE  Fresh(s)'
<1>1. Armable(s)' = Armable(s)
  BY DEF Armable
<1>2. Indexed(s)' <=> Indexed(s)
  BY DEF Indexed
<1>. HIDE DEF Armable, Indexed
<1>. QED  BY <1>1, <1>2 DEF Fresh

\* Who has begun is behind a save of another.
LEMMA AliveIsBegun ==
  ASSUME Shape, NEW s \in Start, NEW r \in Start, r # s, Alive(r)
  PROVE  r \in Begun(s)
BY DEF Begun, Alive

LEMMA CurrentStep ==
  ASSUME Shape, Alone, Current, [Next]_vars
  PROVE  Current'
<1>. DEFINE Said == \A t \in Tab : form[t].step = "written" => form[t].list = disk["config"]
<1>. SUFFICES ASSUME "overlap" \notin excused'
              PROVE  Said' /\ \A s \in Start : Fresh(s)'
  BY DEF Current, Fresh
<1>1. Said /\ \A s \in Start : Fresh(s)
  BY ExcusedGrows DEF Current, Fresh
<1>2. \A t, u \in Tab : Saving(t) /\ Saving(u) => t = u
  BY ExcusedGrows DEF Alone
<1>3. /\ \A f : Quiet(f) <=> ~ \E t \in Tab : form[t].step = "torn" /\ form[t].file = f
      /\ \A f : Quiet(f)' <=> ~ \E t \in Tab : form'[t].step = "torn" /\ form'[t].file = f
  <2>1. FormsOK /\ FormsOK'
    BY ShapeStep DEF Shape
  <2>2. \A f : Quiet(f) <=> ~ \E t \in Tab : form[t].step = "torn" /\ form[t].file = f
    BY <2>1, QuietIs
  <2>3. \A t \in Tab : form'[t] = Closed => form'[t].step = "closed"
    BY DEF Closed
  <2>. QED  BY <2>2, <2>3 DEF Quiet
<1>. USE DEF Shape
\* Listen, Probe, Serve, Quit: a start goes on.
<1>4. ASSUME UNCHANGED <<server, files, form, stale>>,
             \A s \in Start : Alive(s)' => Alive(s)
      PROVE  Said' /\ \A s \in Start : Fresh(s)'
  <2>1. Said'
    BY <1>1, <1>4 DEF files
  <2>2. ASSUME NEW s \in Start PROVE Fresh(s)'
    <3>1. Quiet("config")' <=> Quiet("config")
      BY <1>3, <1>4
    <3>2. \A steps : AtStep(s, steps)' <=> AtStep(s, steps)
      BY <1>4 DEF AtStep
    <3>. QED  BY <1>1, <1>4, <3>1, <3>2, StaysFresh DEF server, files
  <2>. QED  BY <2>1, <2>2
<1>5. ASSUME NEW s \in Start, Listen(s) \/ Probe(s) \/ Serve(s) \/ Quit(s)
      PROVE  Said' /\ \A r \in Start : Fresh(r)'
  <2>1. UNCHANGED <<server, files, form, stale>>
    BY <1>5 DEF Listen, Probe, Serve, Quit
  <2>2. \A r \in Start : Alive(r)' => Alive(r)
    BY <1>5 DEF Listen, Probe, Serve, Quit, Goto, Alive, OwnerOK
  <2>. QED  BY <1>4, <2>1, <2>2
<1>6. ASSUME NEW s \in Start, Begin(s)
      PROVE  Said' /\ \A r \in Start : Fresh(r)'
  <2>1. UNCHANGED <<files, form, stale>> /\ pc' = [pc EXCEPT ![s] = "listen"]
    BY <1>6 DEF Begin, Goto
  <2>2. Said'
    BY <1>1, <2>1 DEF files
  <2>3. PICK bad \in SUBSET {e.id : e \in Range(disk["config"])} :
          /\ down' = [down EXCEPT ![s] = bad]
          /\ accounts' = [accounts EXCEPT ![s] = Armed(disk["config"], bad)]
          /\ byID' = [byID EXCEPT ![s] = IndexOf(@, Armed(disk["config"], bad))]
    BY <1>6 DEF Begin
  <2>4. ASSUME NEW r \in Start, r # s PROVE Fresh(r)'
    <3>1. Quiet("config")' <=> Quiet("config")
      BY <1>3, <2>1
    <3>2. \A steps : AtStep(r, steps)' <=> AtStep(r, steps)
      BY <2>1 DEF AtStep
    <3>3. Alive(r)' => Alive(r)
      BY <2>1, <2>4 DEF Alive, OwnerOK
    <3>4. accounts'[r] = accounts[r] /\ byID'[r] = byID[r] /\ down'[r] = down[r]
      BY <2>3, <2>4 DEF ServerOK
    <3>. QED  BY <1>1, <2>1, <3>1, <3>2, <3>3, <3>4, StaysFresh DEF files
  <2>5. Fresh(s)'
    <3>. DEFINE list == Armed(disk["config"], bad)
    <3>1. disk["config"] \in Seq(Entry)
      BY DEF FilesOK, File
    <3>2. list \in Seq(Entry) /\ Range(list) = {e \in Range(disk["config"]) : e.id \notin bad}
      BY <3>1, ArmedIs
    <3>3. accounts'[s] = list /\ byID'[s] = IndexOf(byID[s], list) /\ down'[s] = bad
      BY <2>3 DEF ServerOK
    <3>. HIDE DEF list
    <3>4. Range(accounts'[s]) = Armable(s)'
      BY <2>1, <3>2, <3>3 DEF Armable, files
    <3>5. Indexed(s)'
      <4>1. /\ DOMAIN IndexOf(byID[s], list) = {e.id : e \in Range(list)}
            /\ \A i \in {e.id : e \in Range(list)} :
                 /\ IndexOf(byID[s], list)[i] \in Range(list)
                 /\ IndexOf(byID[s], list)[i].id = i
        BY <3>2, IndexLeads
      <4>. QED  BY <3>3, <4>1 DEF Indexed
    <3>. QED  BY <3>4, <3>5 DEF Fresh
  <2>. QED  BY <2>2, <2>4, <2>5
<1>7. ASSUME NEW s \in Start, End(s) \/ Crash(s)
      PROVE  Said' /\ \A r \in Start : Fresh(r)'
  <2>1. Gone(s) /\ UNCHANGED disk /\ pc' = [pc EXCEPT ![s] = "ended"]
    BY <1>7 DEF End, Crash, Gone, Goto
  <2>2. /\ stale' = IF Torn(s, "config") THEN stale \union Begun(s) ELSE stale \ {s}
        /\ accounts' = [accounts EXCEPT ![s] = <<>>] /\ byID' = [byID EXCEPT ![s] = <<>>]
        /\ down' = [down EXCEPT ![s] = {}]
    BY <2>1 DEF Gone
  <2>3. \A t \in Tab : /\ form'[t] = IF form[t] # Closed /\ form[t].by = s THEN Closed ELSE form[t]
                       /\ form'[t].step = "closed" \/ (form'[t] = form[t] /\ form[t].by # s)
    BY <2>1, GoneForms
  <2>4. Said'
    BY <1>1, <2>1, <2>3
  <2>5. ~ Alive(s)'
    BY <2>1 DEF Alive, OwnerOK
  <2>6. ASSUME NEW r \in Start, r # s PROVE Fresh(r)'
    <3>1. Alive(r)' => Alive(r)
      BY <2>1, <2>6 DEF Alive, OwnerOK
    <3>2. CASE Torn(s, "config")
      <4>1. Alive(r) => r \in stale'
        BY <2>2, <2>6, <3>2, AliveIsBegun
      <4>. QED  BY <3>1, <4>1 DEF Fresh
    <3>3. CASE ~ Torn(s, "config")
      <4>1. Quiet("config")' => Quiet("config")
        <5>. SUFFICES ASSUME Quiet("config")', NEW t \in Tab,
                             form[t].step = "torn", form[t].file = "config"
                      PROVE  FALSE
          BY <1>3
        <5>1. form[t] # Closed
          BY DEF Closed
        <5>2. form[t].by # s
          BY <3>3, <5>1 DEF Torn
        <5>3. form'[t] = form[t]
          BY <2>3, <5>2
        <5>. QED  BY <1>3, <5>3
      <4>2. \A t \in Tab : form[t].by = r => form'[t] = form[t]
        BY <2>3, <2>6
      <4>3. \A steps : AtStep(r, steps) => AtStep(r, steps)'
        BY <4>2 DEF AtStep
      <4>4. /\ accounts'[r] = accounts[r] /\ byID'[r] = byID[r] /\ down'[r] = down[r]
            /\ r \notin stale' => r \notin stale
        BY <2>2, <2>6, <3>3 DEF ServerOK
      <4>. QED  BY <1>1, <2>1, <3>1, <4>1, <4>3, <4>4, StaysFresh
    <3>. QED  BY <3>2, <3>3
  <2>. QED  BY <2>4, <2>5, <2>6 DEF Fresh
<1>8. ASSUME NEW t \in Tab, Open(t) \/ Submit(t) \/ Close(t)
      PROVE  Said' /\ \A s \in Start : Fresh(s)'
  <2>1. UNCHANGED <<pc, server, files, stale>>
    BY <1>8 DEF Open, Submit, Close
  <2>2. /\ \A u \in Tab : u # t => form'[u] = form[u]
        /\ form[t].step \in {"closed", "form"} /\ form'[t].step \in {"closed", "form", "read"}
    BY <1>8, PageSteps DEF Wizard
  <2>3. Said'
    BY <1>1, <2>1, <2>2 DEF files
  <2>4. ASSUME NEW s \in Start PROVE Fresh(s)'
    <3>1. Quiet("config")' => Quiet("config")
      BY <1>3, <2>2
    <3>2. /\ AtStep(s, {"written"}) => AtStep(s, {"written"})'
          /\ AtStep(s, {"written", "swap"}) => AtStep(s, {"written", "swap"})'
      BY <2>2 DEF AtStep
    <3>3. Alive(s)' => Alive(s)
      BY <2>1 DEF Alive
    <3>. QED  BY <1>1, <2>1, <3>1, <3>2, <3>3, StaysFresh DEF server, files
  <2>. QED  BY <2>3, <2>4
<1>9. ASSUME NEW t \in Tab, Truncate(t)
      PROVE  Said' /\ \A s \in Start : Fresh(s)'
  <2>1. /\ \A u \in Tab : u # t => form'[u] = form[u]
        /\ form[t].step = "read" /\ form'[t] = [form[t] EXCEPT !.step = "torn"]
    BY <1>9, PageSteps DEF Wizard
  <2>2. form[t] \in Writing /\ form[t].file \in File
    BY <2>1, FormIs
  <2>3. form'[t].file = form[t].file /\ form'[t].step = "torn"
    BY <2>1, <2>2 DEF Writing
  <2>4. /\ disk' = [disk EXCEPT ![form[t].file] = <<>>]
        /\ UNCHANGED <<pc, server, stale>>
    BY <1>9 DEF Truncate
  <2>5. \A u \in Tab : u # t => form[u].step # "written"
    BY <1>2, <2>1 DEF Saving
  <2>6. Said'
    BY <2>1, <2>3, <2>5
  <2>7. ASSUME NEW s \in Start PROVE Fresh(s)'
    <3>1. CASE form[t].file = "config"
      <4>1. ~ Quiet("config")'
        BY <1>3, <2>3, <3>1
      <4>. QED  BY <4>1 DEF Fresh
    <3>2. CASE form[t].file # "config"
      <4>1. disk'["config"] = disk["config"]
        BY <2>4, <3>2 DEF FilesOK, File
      <4>2. Quiet("config")' => Quiet("config")
        BY <1>3, <2>1, <3>2
      <4>3. /\ AtStep(s, {"written"}) => AtStep(s, {"written"})'
            /\ AtStep(s, {"written", "swap"}) => AtStep(s, {"written", "swap"})'
        BY <2>1 DEF AtStep
      <4>4. Alive(s)' => Alive(s)
        BY <2>4 DEF Alive
      <4>. QED  BY <1>1, <2>4, <4>1, <4>2, <4>3, <4>4, StaysFresh DEF server
    <3>. QED  BY <3>1, <3>2
  <2>. QED  BY <2>6, <2>7
<1>10. ASSUME NEW t \in Tab, Write(t)
       PROVE  Said' /\ \A s \in Start : Fresh(s)'
  <2>1. /\ \A u \in Tab : u # t => form'[u] = form[u]
        /\ form[t].step = "torn"
        /\ form[t].file = "credentials" => form'[t].step = "closed"
        /\ form[t].file # "credentials" => form'[t] = [form[t] EXCEPT !.step = "written"]
    BY <1>10, PageSteps DEF Wizard
  <2>2. form[t] \in Writing /\ form[t].file \in File /\ form[t].by \in Start
    BY <2>1, FormIs
  <2>3. /\ disk' = [disk EXCEPT ![form[t].file] = form[t].list]
        /\ UNCHANGED <<pc, server>>
    BY <1>10 DEF Write
  <2>4. \A u \in Tab : u # t => form[u].step \notin {"written", "swap"}
    BY <1>2, <2>1 DEF Saving
  <2>5. CASE form[t].file = "credentials"
    <3>1. disk'["config"] = disk["config"] /\ UNCHANGED stale
      BY <1>10, <2>3, <2>5 DEF FilesOK, File, Write
    <3>2. Said'
      BY <2>1, <2>4, <2>5
    <3>3. ASSUME NEW s \in Start PROVE Fresh(s)'
      <4>1. Quiet("config")' => Quiet("config")
        BY <1>3, <2>1, <2>5
      <4>2. /\ AtStep(s, {"written"}) => AtStep(s, {"written"})'
            /\ AtStep(s, {"written", "swap"}) => AtStep(s, {"written", "swap"})'
        BY <2>1, <2>4 DEF AtStep
      <4>3. Alive(s)' => Alive(s)
        BY <2>3 DEF Alive
      <4>. QED  BY <1>1, <2>3, <3>1, <4>1, <4>2, <4>3, StaysFresh DEF server
    <3>. QED  BY <3>2, <3>3
  <2>6. CASE form[t].file # "credentials"
    <3>1. form[t].file = "config" /\ stale' = stale \union Begun(form[t].by)
      BY <1>10, <2>2, <2>6 DEF File, Write
    <3>2. disk'["config"] = form[t].list
      BY <2>3, <3>1 DEF FilesOK, File
    <3>3. form'[t].step = "written" /\ form'[t].by = form[t].by /\ form'[t].list = form[t].list
      BY <2>1, <2>2, <2>6 DEF Writing
    <3>4. Said'
      BY <2>1, <2>4, <3>2, <3>3
    <3>5. ASSUME NEW s \in Start, s = form[t].by PROVE Fresh(s)'
      <4>1. AtStep(s, {"written"})' /\ AtStep(s, {"written", "swap"})'
        BY <3>3, <3>5 DEF AtStep
      <4>. QED  BY <4>1 DEF Fresh
    <3>6. ASSUME NEW s \in Start, s # form[t].by PROVE Fresh(s)'
      <4>1. Alive(s)' => Alive(s)
        BY <2>3 DEF Alive
      <4>2. Alive(s) => s \in stale'
        BY <2>2, <3>1, <3>6, AliveIsBegun
      <4>. QED  BY <4>1, <4>2 DEF Fresh
    <3>. QED  BY <3>4, <3>5, <3>6
  <2>. QED  BY <2>5, <2>6
<1>11. ASSUME NEW t \in Tab, Activate(t)
       PROVE  Said' /\ \A s \in Start : Fresh(s)'
  <2>1. /\ \A u \in Tab : u # t => form'[u] = form[u]
        /\ form[t].step = "written" /\ form'[t].step = "swap" /\ form'[t].by = form[t].by
    BY <1>11, PageSteps DEF Wizard
  <2>2. UNCHANGED <<pc, byID, files, stale>>
    BY <1>11 DEF Activate
  <2>3. Said'
    BY <1>1, <2>1, <2>2 DEF files
  <2>4. Quiet("config")' => Quiet("config")
    BY <1>3, <2>1
  <2>5. PICK s \in Start, list \in Seq(Entry) : s = form[t].by /\ list = form[t].list
    BY <2>1, FormIs
  <2>6. PICK bad : /\ down' = [down EXCEPT ![s] = bad]
                   /\ accounts' = [accounts EXCEPT ![s] = Armed(list, bad)]
    BY <1>11, <2>5 DEF Activate
  <2>7. Fresh(s)'
    <3>1. list = disk["config"] /\ disk'["config"] = disk["config"]
      BY <1>1, <2>1, <2>2, <2>5 DEF files
    <3>2. accounts'[s] = Armed(list, bad) /\ down'[s] = bad
      BY <2>6 DEF ServerOK
    <3>3. Range(Armed(list, bad)) = {e \in Range(list) : e.id \notin bad}
      BY ArmedIs
    <3>4. Range(accounts'[s]) = Armable(s)'
      BY <3>1, <3>2, <3>3 DEF Armable
    <3>5. AtStep(s, {"written", "swap"})'
      BY <2>1, <2>5 DEF AtStep
    <3>. QED  BY <3>4, <3>5 DEF Fresh
  <2>8. ASSUME NEW r \in Start, r # s PROVE Fresh(r)'
    <3>1. /\ AtStep(r, {"written"}) => AtStep(r, {"written"})'
          /\ AtStep(r, {"written", "swap"}) => AtStep(r, {"written", "swap"})'
      BY <2>1, <2>5, <2>8 DEF AtStep
    <3>2. Alive(r)' => Alive(r)
      BY <2>2 DEF Alive
    <3>3. accounts'[r] = accounts[r] /\ byID'[r] = byID[r] /\ down'[r] = down[r]
      BY <2>2, <2>6, <2>8 DEF ServerOK
    <3>. QED  BY <1>1, <2>2, <2>4, <3>1, <3>2, <3>3, StaysFresh DEF files
  <2>. QED  BY <2>3, <2>7, <2>8
<1>12. ASSUME NEW t \in Tab, Answer(t)
       PROVE  Said' /\ \A s \in Start : Fresh(s)'
  <2>1. /\ \A u \in Tab : u # t => form'[u] = form[u]
        /\ form[t].step = "swap" /\ form'[t].step \in {"closed", "form"}
    BY <1>12, PageSteps DEF Wizard
  <2>2. UNCHANGED <<pc, accounts, down, files, stale>>
    BY <1>12 DEF Answer
  <2>3. Said'
    BY <1>1, <2>1, <2>2 DEF files
  <2>4. Quiet("config")' => Quiet("config")
    BY <1>3, <2>1
  <2>5. PICK s \in Start : s = form[t].by
    <3>1. form[t] # Closed
      BY <2>1 DEF Closed
    <3>. QED  BY <3>1, FormIs
  <2>6. byID' = [byID EXCEPT ![s] = IndexOf(@, accounts[s])]
    BY <1>12, <2>5 DEF Answer
  <2>7. \A r \in Start : /\ AtStep(r, {"written"}) => AtStep(r, {"written"})'
                         /\ Alive(r)' => Alive(r)
    BY <2>1, <2>2 DEF AtStep, Alive
  <2>8. Fresh(s)'
    <3>1. Armable(s)' = Armable(s) /\ Range(accounts'[s]) = Range(accounts[s])
      BY <2>2 DEF Armable, files
    <3>2. Indexed(s)'
      <4>1. byID'[s] = IndexOf(byID[s], accounts[s]) /\ accounts'[s] = accounts[s]
        BY <2>2, <2>6 DEF ServerOK
      <4>2. accounts[s] \in Seq(Entry)
        BY DEF ServerOK
      <4>3. /\ DOMAIN IndexOf(byID[s], accounts[s]) = {e.id : e \in Range(accounts[s])}
            /\ \A i \in {e.id : e \in Range(accounts[s])} :
                 /\ IndexOf(byID[s], accounts[s])[i] \in Range(accounts[s])
                 /\ IndexOf(byID[s], accounts[s])[i].id = i
        BY ZenonT(30), <4>2, IndexLeads
      <4>. QED  BY <4>1, <4>3 DEF Indexed
    <3>3. s \notin stale' => s \notin stale
      BY <2>2
    <3>. QED  BY <1>1, <2>4, <2>7, <3>1, <3>2, <3>3 DEF Fresh
  <2>9. ASSUME NEW r \in Start, r # s PROVE Fresh(r)'
    <3>1. AtStep(r, {"written", "swap"}) => AtStep(r, {"written", "swap"})'
      BY <2>1, <2>5, <2>9 DEF AtStep
    <3>2. byID'[r] = byID[r]
      BY <2>6, <2>9 DEF ServerOK
    <3>. QED  BY <1>1, <2>2, <2>4, <2>7, <3>1, <3>2, StaysFresh DEF files
  <2>. QED  BY <2>3, <2>8, <2>9
<1>13. CASE UNCHANGED vars
  BY <1>4, <1>13 DEF vars, Alive
<1>. HIDE DEF Said
<1>. QED
  BY <1>5, <1>6, <1>7, <1>8, <1>9, <1>10, <1>11, <1>12, <1>13 DEF Next, Wizard

LEMMA InitServed == Init => Current /\ FileNamesServer
<1>. SUFFICES ASSUME Init PROVE Current /\ FileNamesServer
  OBVIOUS
<1>1. Current
  BY DEF Init, Current, Closed, Alive
<1>2. FileNamesServer
  BY DEF Init, FileNamesServer
<1>. QED  BY <1>1, <1>2

LEMMA CurrentIsServed ==
  ASSUME Shape, Current
  PROVE  ServedIsSaved
<1>. SUFFICES ASSUME NEW s \in Start, pc[s] = "serve", s \notin stale, "overlap" \notin excused,
                     \A t \in Tab : form[t] # Closed => form[t].file = "credentials" \/ ~ Saving(t)
              PROVE  /\ Range(accounts[s]) = {e \in Range(disk["config"]) : e.id \notin down[s]}
                     /\ accounts[s] # <<>> => \A chosen \in Id :
                          /\ Resolve(s, chosen) \in Range(disk["config"])
                          /\ (\E e \in Range(accounts[s]) : e.id = chosen) =>
                               Resolve(s, chosen).id = chosen
  BY Zenon DEF ServedIsSaved
<1>1. ASSUME NEW t \in Tab, form[t].step \in {"torn", "written", "swap"}, form[t].file = "config"
      PROVE  FALSE
  <2>1. form[t] # Closed
    BY <1>1 DEF Closed
  <2>2. Saving(t)
    BY <1>1 DEF Saving
  <2>. QED  BY <1>1, <2>1, <2>2
<1>2. Quiet("config")
  BY <1>1, QuietIs DEF Shape
<1>3. ~ AtStep(s, {"written"}) /\ ~ AtStep(s, {"written", "swap"})
  BY <1>1, FormIs DEF AtStep, Shape
<1>4. Range(accounts[s]) = Armable(s) /\ Indexed(s)
  BY <1>2, <1>3 DEF Current, Alive
<1>5. Range(accounts[s]) \subseteq Range(disk["config"])
  BY <1>4 DEF Armable
<1>6. ASSUME accounts[s] # <<>>, NEW chosen \in Id
      PROVE  /\ Resolve(s, chosen) \in Range(disk["config"])
             /\ (\E e \in Range(accounts[s]) : e.id = chosen) => Resolve(s, chosen).id = chosen
  <2>1. CASE chosen \in DOMAIN byID[s]
    <3>1. Resolve(s, chosen) = byID[s][chosen]
      BY <2>1 DEF Resolve
    <3>. QED  BY <1>4, <1>5, <2>1, <3>1 DEF Indexed
  <2>2. CASE chosen \notin DOMAIN byID[s]
    <3>1. Resolve(s, chosen) = Head(accounts[s])
      BY <2>2 DEF Resolve
    <3>2. Head(accounts[s]) \in Range(accounts[s])
      <4>1. accounts[s] \in Seq(Entry)
        BY DEF Shape, ServerOK
      <4>2. 1 \in DOMAIN accounts[s] /\ Head(accounts[s]) = accounts[s][1]
        BY <1>6, <4>1
      <4>. QED  BY <4>2 DEF Range
    <3>3. ~ \E e \in Range(accounts[s]) : e.id = chosen
      BY <1>4, <2>2 DEF Indexed
    <3>. QED  BY <1>5, <3>1, <3>2, <3>3
  <2>. QED  BY <2>1, <2>2
<1>. QED  BY <1>4, <1>6 DEF Armable

\* Who asks the program that runs, or starts it once more, finds what was set up
\* last: the mailboxes of the file but for those out of reach, under their names,
\* and the address of the one that serves (server.go SetAccounts and account,
\* wizard.go Activate, token.go, running.go).
THEOREM WhatIsSetUpIsServed == Spec => []SetUpIsServed
<1>1. Init => Inv
  BY InitShape, InitBooked, InitServed DEF Inv
<1>2. Inv /\ [Next]_vars => Inv'
  BY ShapeStep, AloneStep, BookedStep, CurrentStep, NamesStep DEF Inv
<1>3. Inv => SetUpIsServed
  BY CurrentIsServed DEF Inv, SetUpIsServed
<1>. QED  BY <1>1, <1>2, <1>3, PTL DEF Spec

=============================================================================
