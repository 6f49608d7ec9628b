----------------------------- MODULE MailboxProofs -----------------------------
(* Theorems about Mailbox, for any number of machines, workers, messages,    *)
(* versions of a draft and faults.                                           *)
EXTENDS MailboxInv, TLAPS, FiniteSetTheorems, WellFoundedInduction, NaturalsInduction

-----------------------------------------------------------------------------
(* Maps: an entry set, some taken away, one over another.                    *)

LEMMA SetMap ==
  ASSUME NEW V, NEW f, IsMap(f, V), NEW k \in Key, NEW v \in V
  PROVE  /\ IsMap(Set(f, k, v), V) /\ DOMAIN Set(f, k, v) = DOMAIN f \cup {k}
         /\ Set(f, k, v)[k] = v
         /\ \A j \in DOMAIN f \ {k} : Set(f, k, v)[j] = f[j]
<1>1. /\ DOMAIN Set(f, k, v) = DOMAIN f \cup {k}
      /\ \A j \in DOMAIN f \cup {k} : Set(f, k, v)[j] = IF j = k THEN v ELSE f[j]
  BY DEF Set
<1>2. IsFiniteSet(DOMAIN f \cup {k})
  BY FS_AddElement DEF IsMap
<1>. QED  BY <1>1, <1>2 DEF IsMap

LEMMA RestrictMap ==
  ASSUME NEW V, NEW f, IsMap(f, V), NEW S \in SUBSET DOMAIN f
  PROVE  /\ IsMap(Restrict(f, S), V) /\ DOMAIN Restrict(f, S) = S
         /\ \A j \in S : Restrict(f, S)[j] = f[j]
<1>1. DOMAIN Restrict(f, S) = S /\ \A j \in S : Restrict(f, S)[j] = f[j]
  BY DEF Restrict
<1>2. IsFiniteSet(S)
  BY FS_Subset DEF IsMap
<1>. QED  BY <1>1, <1>2 DEF IsMap

LEMMA WithoutMap ==
  ASSUME NEW V, NEW f, IsMap(f, V), NEW S
  PROVE  /\ IsMap(Without(f, S), V) /\ DOMAIN Without(f, S) = DOMAIN f \ S
         /\ \A j \in DOMAIN f \ S : Without(f, S)[j] = f[j]
BY RestrictMap DEF Without

LEMMA OverMap ==
  ASSUME NEW V, NEW f, IsMap(f, V), NEW g, IsMap(g, V)
  PROVE  IsMap(Over(f, g), V)
<1>1. /\ DOMAIN Over(f, g) = DOMAIN f \cup DOMAIN g
      /\ \A j \in DOMAIN f \cup DOMAIN g :
           Over(f, g)[j] = IF j \in DOMAIN f THEN f[j] ELSE g[j]
  BY DEF Over
<1>2. IsFiniteSet(DOMAIN f \cup DOMAIN g)
  BY FS_Union DEF IsMap
<1>. QED  BY <1>1, <1>2 DEF IsMap

LEMMA NoMap == ASSUME NEW V PROVE IsMap(<<>>, V)
<1>1. DOMAIN <<>> = {}
  OBVIOUS
<1>. QED  BY <1>1, FS_EmptySet DEF IsMap

-----------------------------------------------------------------------------
(* Names and keys.                                                           *)

\* A key is a folder and a name.
LEMMA KeyParts ==
  /\ \A k \in Key : IsKey(k) /\ FolderOf(k) \in Folder /\ Mid(k) \in Name
  /\ \A f \in Folder, mid \in Name :
       KeyFor(mid, f) \in Key /\ FolderOf(KeyFor(mid, f)) = f /\ Mid(KeyFor(mid, f)) = mid
<1>1. \A mid \in Name : IsMid(mid)
  BY DEF Name
<1>. QED  BY <1>1 DEF Key, KeyFor, FolderOf, Mid, IsKey

\* The names that mail and drafts come under.
LEMMA FirstNames ==
  /\ \A c \in Message : BaseName(c) \in Name /\ ContentOf(BaseName(c)) = c
  /\ \A n \in 1 .. MaxSaves :
       BaseName(Draft(n)) \in Name /\ ContentOf(BaseName(Draft(n))) = Draft(n)
<1>. DEFINE X == Message \cup {"draft"} \cup Nat
<1>1. ASSUME NEW c \in Message
      PROVE  BaseName(c) \in Name /\ ContentOf(BaseName(c)) = c
  <2>1. BaseName(c) = <<c>> /\ c # "draft"
    BY MailboxAssumption DEF BaseName
  <2>2. <<c>> \in Seq(X) /\ <<c>>[1] = c /\ <<c>> # <<>>
    OBVIOUS
  <2>. QED  BY <2>1, <2>2 DEF Name, IsMid, ContentOf
<1>2. ASSUME NEW n \in 1 .. MaxSaves
      PROVE  BaseName(Draft(n)) \in Name /\ ContentOf(BaseName(Draft(n))) = Draft(n)
  <2>1. BaseName(Draft(n)) = <<"draft", n>>
    BY MailboxAssumption DEF BaseName, Draft
  <2>2. /\ <<"draft", n>> \in Seq(X) /\ <<"draft", n>>[1] = "draft"
        /\ <<"draft", n>>[2] = n /\ Len(<<"draft", n>>) = 2 /\ <<"draft", n>> # <<>>
    OBVIOUS
  <2>3. <<"draft", n>> \in Name
    BY <2>2 DEF Name, IsMid
  <2>4. ContentOf(<<"draft", n>>) = <<"draft", n>>
    BY <2>2 DEF ContentOf
  <2>. QED  BY <2>1, <2>3, <2>4 DEF Draft
<1>. QED  BY <1>1, <1>2

\* A number at the end makes it another name of the same message.
LEMMA Numbering ==
  ASSUME NEW mid \in Name, NEW n \in Nat
  PROVE  /\ Append(mid, n) \in Name /\ ContentOf(Append(mid, n)) = ContentOf(mid)
         /\ Append(mid, n) # mid
         /\ \A j \in Nat : Append(mid, j) = Append(mid, n) => j = n
<1>. DEFINE X == Message \cup {"draft"} \cup Nat
<1>1. mid \in Seq(X) /\ n \in X /\ mid # <<>> /\ IsMid(mid)
  <2>1. mid \in Seq(X) /\ IsMid(mid)
    BY DEF Name
  <2>2. mid # <<>>
    BY <2>1 DEF IsMid
  <2>. QED  BY <2>1, <2>2
<1>2. Len(mid) \in Nat \ {0}
  BY <1>1
<1>3. /\ Append(mid, n) \in Seq(X) /\ Len(Append(mid, n)) = Len(mid) + 1
      /\ \A i \in 1 .. Len(mid) : Append(mid, n)[i] = mid[i]
  BY <1>1, <1>2
<1>4. Append(mid, n)[1] = mid[1] /\ Append(mid, n) # <<>> /\ Append(mid, n) # mid
  BY <1>1, <1>2, <1>3
<1>5. mid[1] = "draft" => Len(mid) >= 2 /\ Append(mid, n)[2] = mid[2]
  BY <1>2, <1>3 DEF Name
<1>6. Append(mid, n) \in Name
  <2>1. IsMid(Append(mid, n))
    BY <1>1, <1>4 DEF IsMid
  <2>2. Append(mid, n)[1] = "draft" => Len(Append(mid, n)) >= 2
    BY <1>2, <1>3, <1>4, <1>5
  <2>. QED  BY <1>3, <2>1, <2>2 DEF Name
<1>7. \A j \in Nat : Append(mid, j) = Append(mid, n) => j = n
  <2>. SUFFICES ASSUME NEW j \in Nat, Append(mid, j) = Append(mid, n) PROVE j = n
    OBVIOUS
  <2>1. Append(mid, j)[Len(mid) + 1] = j /\ Append(mid, n)[Len(mid) + 1] = n
    BY <1>1, <1>2
  <2>. QED  BY <2>1
<1>. QED  BY <1>4, <1>5, <1>6, <1>7 DEF ContentOf

\* Whether a name is made from another, number by number.
LEMMA PrefixOf ==
  ASSUME NEW s \in Name, NEW t \in Name
  PROVE  IsPrefix(s, t) <=> Len(s) =< Len(t) /\ \A i \in 1 .. Len(s) : s[i] = t[i]
<1>. DEFINE X == Message \cup {"draft"} \cup Nat
<1>1. s \in Seq(X) /\ t \in Seq(X)
  BY DEF Name
<1>. HIDE DEF X
<1>2. SubSeq(s, 1, Len(s)) = s
  BY <1>1
<1>3. ASSUME Len(s) =< Len(t)
      PROVE  SubSeq(t, 1, Len(s)) = s <=> \A i \in 1 .. Len(s) : s[i] = t[i]
  <2>. DEFINE u == SubSeq(t, 1, Len(s))
  <2>1. u \in Seq(X) /\ Len(u) = Len(s) /\ \A i \in 1 .. Len(s) : u[i] = t[i]
    BY <1>1, <1>3
  <2>. HIDE DEF u
  <2>2. u = s <=> \A i \in 1 .. Len(s) : u[i] = s[i]
    BY <1>1, <2>1
  <2>3. u = s <=> \A i \in 1 .. Len(s) : s[i] = t[i]
    BY <2>1, <2>2
  <2>. QED  BY <2>3 DEF u
<1>. QED  BY <1>2, <1>3 DEF IsPrefix

\* A name and those made from it, number by number.
LEMMA NameAndMade ==
  /\ \A s \in Name : IsPrefix(s, s)
  /\ \A r, s, t \in Name : IsPrefix(r, s) /\ IsPrefix(s, t) => IsPrefix(r, t)
  /\ \A s, t \in Name : IsPrefix(s, t) => s[1] = t[1]
  /\ \A s \in Name, n \in Nat : IsPrefix(s, Append(s, n))
<1>. DEFINE X == Message \cup {"draft"} \cup Nat
<1>1. \A s \in Name : s \in Seq(X) /\ s # <<>>
  BY DEF Name, IsMid
<1>2. \A s \in Name : Len(s) \in Nat \ {0}
  BY <1>1
<1>3. \A s \in Name : IsPrefix(s, s)
  BY <1>2, PrefixOf
<1>4. ASSUME NEW r \in Name, NEW s \in Name, NEW t \in Name, IsPrefix(r, s), IsPrefix(s, t)
      PROVE  IsPrefix(r, t)
  BY <1>2, <1>4, PrefixOf
<1>5. ASSUME NEW s \in Name, NEW t \in Name, IsPrefix(s, t) PROVE s[1] = t[1]
  <2>1. 1 \in 1 .. Len(s)
    BY <1>2
  <2>. QED  BY <1>5, <2>1, PrefixOf
<1>6. ASSUME NEW s \in Name, NEW n \in Nat PROVE IsPrefix(s, Append(s, n))
  <2>. DEFINE t == Append(s, n)
  <2>1. s \in Seq(X) /\ n \in X /\ t \in Name
    BY <1>1, Numbering
  <2>2. Len(s) =< Len(t) /\ \A i \in 1 .. Len(s) : s[i] = t[i]
    BY <1>2, <2>1
  <2>. HIDE DEF t
  <2>3. IsPrefix(s, t)
    BY <2>1, <2>2, PrefixOf
  <2>. QED  BY <2>3 DEF t
<1>7. \A r, s, t \in Name : IsPrefix(r, s) /\ IsPrefix(s, t) => IsPrefix(r, t)
  BY <1>4
<1>8. \A s, t \in Name : IsPrefix(s, t) => s[1] = t[1]
  BY <1>5
<1>9. \A s \in Name, n \in Nat : IsPrefix(s, Append(s, n))
  BY <1>6
<1>. QED  BY <1>3, <1>7, <1>8, <1>9

-----------------------------------------------------------------------------
(* freeKey finds a name the index does not know.                             *)

\* The smaller-than relation on numbers, as a set of pairs.
Less == {p \in Nat \X Nat : p[1] < p[2]}

LEMMA LessIsWellFounded == IsWellFoundedOn(Less, Nat)
BY Zenon, NatLessThanWellFounded DEF OpToRel, Less

\* Every set of numbers that is not empty has a least one.
LEMMA LeastNumber ==
  ASSUME NEW T \in SUBSET Nat, T # {}
  PROVE  \E n \in T : \A k \in T : n =< k
<1>1. PICK n \in T : \A k \in T : ~ (<<k, n>> \in Less)
  BY LessIsWellFounded, WFMin
<1>2. \A k \in T : ~ (k < n)
  BY <1>1 DEF Less
<1>. QED  BY <1>2

\* Among as many numbered names as the index has keys, one is free: the name
\* itself is taken.
LEMMA FreeKeyIsFree ==
  ASSUME NEW V, NEW i, IsMap(i, V), NEW mid \in Name, NEW f \in Folder
  PROVE  /\ FreeKey(i, mid, f) \in Key /\ FreeKey(i, mid, f) \notin DOMAIN i
         /\ FolderOf(FreeKey(i, mid, f)) = f
         /\ ContentOf(Mid(FreeKey(i, mid, f))) = ContentOf(mid)
         /\ IsPrefix(mid, Mid(FreeKey(i, mid, f)))
<1>. DEFINE Numbered(n) == KeyFor(Append(mid, n), f)
            N == Cardinality(DOMAIN i)
            free == {n \in 1 .. N : Numbered(n) \notin DOMAIN i}
<1>1. CASE KeyFor(mid, f) \notin DOMAIN i
  BY <1>1, KeyParts, NameAndMade DEF FreeKey
<1>2. CASE KeyFor(mid, f) \in DOMAIN i
  <2>1. IsFiniteSet(DOMAIN i) /\ N \in Nat
    BY FS_CardinalityType DEF IsMap
  <2>2. \A n \in Nat : /\ Numbered(n) \in Key /\ FolderOf(Numbered(n)) = f
                       /\ ContentOf(Mid(Numbered(n))) = ContentOf(mid)
                       /\ Mid(Numbered(n)) = Append(mid, n) /\ Append(mid, n) # mid
    <3>. SUFFICES ASSUME NEW n \in Nat
                  PROVE  /\ Numbered(n) \in Key /\ FolderOf(Numbered(n)) = f
                         /\ ContentOf(Mid(Numbered(n))) = ContentOf(mid)
                         /\ Mid(Numbered(n)) = Append(mid, n) /\ Append(mid, n) # mid
      OBVIOUS
    <3>1. /\ Append(mid, n) \in Name /\ Append(mid, n) # mid
          /\ ContentOf(Append(mid, n)) = ContentOf(mid)
      BY Numbering
    <3>. QED  BY <3>1, KeyParts
  <2>3. free # {}
    <3>. SUFFICES ASSUME free = {} PROVE FALSE
      OBVIOUS
    <3>. DEFINE T == DOMAIN i \ {KeyFor(mid, f)}
    <3>1. \A n \in 1 .. N : Numbered(n) \in T
      BY <2>2, KeyParts
    <3>2. IsFiniteSet(T) /\ Cardinality(T) = N - 1
      BY <1>2, <2>1, FS_RemoveElement
    <3>3. IsFiniteSet(1 .. N) /\ Cardinality(1 .. N) = N
      BY <2>1, FS_Interval
    <3>. DEFINE g == [n \in 1 .. N |-> Numbered(n)]
    <3>4. g \in [1 .. N -> T] /\ \A n \in 1 .. N : g[n] = Numbered(n)
      BY <3>1
    <3>5. \E m, n \in 1 .. N : m # n /\ g[m] = g[n]
      <4>. DEFINE S == 1 .. N
      <4>1. IsFiniteSet(S) /\ IsFiniteSet(T) /\ Cardinality(T) < Cardinality(S)
        BY <2>1, <3>2, <3>3
      <4>2. g \in [S -> T]
        BY <3>4
      <4>. HIDE DEF S, T, g
      <4>3. \E m, n \in S : m # n /\ g[m] = g[n]
        BY <4>1, <4>2, FS_PigeonHole
      <4>. QED  BY <4>3 DEF S
    <3>6. PICK m \in 1 .. N, n \in 1 .. N : m # n /\ Numbered(m) = Numbered(n)
      BY <3>4, <3>5
    <3>7. Append(mid, m) = Append(mid, n)
      BY <2>2, <3>6
    <3>. QED  BY <3>6, <3>7, Numbering
  <2>4. Min(free) \in free
    <3>1. \E n \in free : \A k \in free : n =< k
      <4>1. free \in SUBSET Nat
        BY <2>1
      <4>. QED  BY <2>3, <4>1, LeastNumber
    <3>. QED  BY <3>1 DEF Min
  <2>5. FreeKey(i, mid, f) = Numbered(Min(free))
    BY <1>2 DEF FreeKey
  <2>. HIDE DEF Numbered, free
  <2>6. Min(free) \in Nat /\ Numbered(Min(free)) \notin DOMAIN i
    BY <2>1, <2>4 DEF free
  <2>7. IsPrefix(mid, Mid(Numbered(Min(free))))
    BY <2>2, <2>6, NameAndMade
  <2>. QED  BY <2>2, <2>5, <2>6, <2>7
<1>. QED  BY <1>1, <1>2

-----------------------------------------------------------------------------
(* The document: what ops make of it, one after the other.                   *)

\* One op leaves a document a document.
LEMMA ApplyDoc ==
  ASSUME NEW d, IsDoc(d), NEW op \in Ops
  PROVE  IsDoc(Apply(d, op))
<1>1. \A mid : StateOf(d, mid) \in StateType
  BY DEF StateOf, NoState, IsDoc, StateType
<1>2. \A mid \in Name, v \in StateType : IsDoc(Set(d, mid, v))
  BY DEF IsDoc, Set
<1>3. op.mid \in Name /\ (op.t = "rekey" => op.new \in Name)
  BY DEF Ops
<1>4. CASE op.t = "ruled"
  <2>1. Apply(d, op) = Set(d, op.mid, [StateOf(d, op.mid) EXCEPT !.ruled = TRUE])
    BY <1>4 DEF Apply
  <2>2. [StateOf(d, op.mid) EXCEPT !.ruled = TRUE] \in StateType
    BY <1>1 DEF StateType
  <2>. QED  BY <1>2, <1>3, <2>1, <2>2
<1>5. CASE op.t = "flags"
  <2>1. Apply(d, op) = Set(d, op.mid, [StateOf(d, op.mid) EXCEPT !.marks = TRUE])
    BY <1>5 DEF Apply
  <2>2. [StateOf(d, op.mid) EXCEPT !.marks = TRUE] \in StateType
    BY <1>1 DEF StateType
  <2>. QED  BY <1>2, <1>3, <2>1, <2>2
<1>6. CASE op.t = "drop"
  <2>1. Apply(d, op) = Without(d, {op.mid})
    BY <1>6 DEF Apply
  <2>. QED  BY <2>1 DEF IsDoc, Without, Restrict
<1>7. CASE op.t = "rekey"
  <2>1. Apply(d, op) = Rekey(d, op.mid, op.new)
    BY <1>7 DEF Apply
  <2>. QED  BY <1>2, <1>3, <1>7, <2>1 DEF IsDoc, Rekey
<1>. QED  BY <1>4, <1>5, <1>6, <1>7 DEF Ops

\* FoldLeft goes over the sets of places of a sequence: of the greatest one of a
\* set, and of the set without it.
Below(base, list, g, s) ==
  IF s = {} THEN base ELSE Apply(g[s \ {Max(s)}], list[Max(s)])
FoldOver(base, list) ==
  CHOOSE g : g = [s \in SUBSET DOMAIN list |-> Below(base, list, g, s)]

LEMMA FoldIsOver ==
  ASSUME NEW base, NEW list
  PROVE  FoldLeft(Apply, base, list) = FoldOver(base, list)[DOMAIN list]
BY DEF FoldLeft, MapThenFoldSet, FoldOver, Below

\* Places have a greatest one.
LEMMA GreatestPlace ==
  ASSUME NEW n \in Nat, NEW s \in SUBSET (1 .. n), s # {}
  PROVE  Max(s) \in s
<1>. DEFINE T == {j \in Nat : \E k \in s : j = n - k}
<1>1. \A k \in s : k \in 1 .. n /\ n - k \in T
  OBVIOUS
<1>2. T \in SUBSET Nat /\ T # {}
  BY <1>1
<1>3. PICK j \in T : \A k \in T : j =< k
  BY <1>2, LeastNumber
<1>4. PICK x \in s : j = n - x
  BY <1>3
<1>. HIDE DEF T
<1>5. ASSUME NEW y \in s PROVE x >= y
  <2>1. j =< n - y /\ x \in 1 .. n /\ y \in 1 .. n
    BY <1>1, <1>3
  <2>. QED  BY <2>1, <1>4
<1>. QED  BY <1>5 DEF Max

\* A set of places is finite.
LEMMA PlacesAreFinite ==
  ASSUME NEW n \in Nat, NEW s \in SUBSET (1 .. n)
  PROVE  IsFiniteSet(s) /\ Cardinality(s) \in Nat /\ Cardinality(s) <= n
<1>1. IsFiniteSet(1 .. n) /\ Cardinality(1 .. n) = n
  BY FS_Interval
<1>. QED  BY <1>1, FS_Subset, FS_CardinalityType

\* By the size of the sets: there is such a fold.
LEMMA FoldExists ==
  ASSUME NEW base, NEW S, NEW list \in Seq(S)
  PROVE  FoldOver(base, list) =
           [s \in SUBSET DOMAIN list |-> Below(base, list, FoldOver(base, list), s)]
<1>. DEFINE n == Len(list)
            Sub(k) == {s \in SUBSET DOMAIN list : Cardinality(s) <= k}
            Has(k) == \E g : g = [s \in Sub(k) |-> Below(base, list, g, s)]
            Bad == {k \in Nat : ~ Has(k)}
<1>1. n \in Nat /\ DOMAIN list = 1 .. n
  OBVIOUS
<1>2. \A s \in SUBSET DOMAIN list :
        /\ IsFiniteSet(s) /\ Cardinality(s) \in Nat /\ Cardinality(s) <= n
        /\ s # {} => /\ s \ {Max(s)} \in SUBSET DOMAIN list
                     /\ Cardinality(s \ {Max(s)}) = Cardinality(s) - 1
  <2>. SUFFICES ASSUME NEW s \in SUBSET DOMAIN list
                PROVE  /\ IsFiniteSet(s) /\ Cardinality(s) \in Nat /\ Cardinality(s) <= n
                       /\ s # {} => /\ s \ {Max(s)} \in SUBSET DOMAIN list
                                    /\ Cardinality(s \ {Max(s)}) = Cardinality(s) - 1
    OBVIOUS
  <2>2. IsFiniteSet(s) /\ Cardinality(s) \in Nat /\ Cardinality(s) <= n
    BY <1>1, PlacesAreFinite
  <2>3. s # {} => Max(s) \in s
    BY <1>1, GreatestPlace
  <2>4. s # {} => Cardinality(s \ {Max(s)}) = Cardinality(s) - 1
    BY <2>2, <2>3, FS_RemoveElement
  <2>. QED  BY <2>2, <2>3, <2>4
<1>3. Bad = {}
  <2>. SUFFICES ASSUME Bad # {} PROVE FALSE
    OBVIOUS
  <2>1. PICK k \in Bad : \A j \in Bad : k =< j
    <3>1. Bad \in SUBSET Nat
      OBVIOUS
    <3>. QED  BY <3>1, LeastNumber
  <2>2. k \in Nat /\ ~Has(k)
    BY <2>1
  <2>3. CASE k = 0
    <3>1. ASSUME NEW s \in Sub(0) PROVE s = {}
      <4>1. s \in SUBSET DOMAIN list /\ Cardinality(s) <= 0
        OBVIOUS
      <4>2. IsFiniteSet(s) /\ Cardinality(s) \in Nat
        BY <4>1, <1>2
      <4>3. Cardinality(s) = 0
        BY <4>1, <4>2
      <4>. QED  BY <4>2, <4>3, FS_EmptySet
    <3>2. [s \in Sub(0) |-> base] = [s \in Sub(0) |-> Below(base, list, [t \in Sub(0) |-> base], s)]
      BY <3>1 DEF Below
    <3>3. Has(0)
      <4>. DEFINE g == [t \in Sub(0) |-> base]
      <4>1. g = [s \in Sub(0) |-> Below(base, list, g, s)]
        BY <3>2
      <4>. HIDE DEF g
      <4>. QED  BY <4>1
    <3>. QED  BY <2>2, <2>3, <3>3
  <2>4. CASE k > 0
    <3>1. k - 1 \in Nat /\ k - 1 \notin Bad
      <4>. HIDE DEF Bad
      <4>1. k - 1 \in Bad => k =< k - 1
        BY <2>1
      <4>. QED  BY <4>1, <2>2, <2>4
    <3>2. PICK g : g = [s \in Sub(k - 1) |-> Below(base, list, g, s)]
      BY <3>1
    <3>. DEFINE h == [s \in Sub(k) |-> Below(base, list, g, s)]
    <3>3. \A s \in Sub(k) : Below(base, list, g, s) = Below(base, list, h, s)
      <4>. SUFFICES ASSUME NEW s \in Sub(k), s # {}
                    PROVE  g[s \ {Max(s)}] = h[s \ {Max(s)}]
        BY DEF Below
      <4>. DEFINE t == s \ {Max(s)}
      <4>1. t \in Sub(k - 1) /\ t \in Sub(k)
        BY SMTT(30), <1>2, <2>2
      <4>2. g[t] = Below(base, list, g, t)
        BY <3>2, <4>1
      <4>3. h[t] = Below(base, list, g, t)
        BY <4>1
      <4>. QED  BY <4>2, <4>3
    <3>4. h = [s \in Sub(k) |-> Below(base, list, h, s)]
      BY <3>3
    <3>5. Has(k)
      <4>. HIDE DEF h
      <4>. QED  BY <3>4
    <3>. QED  BY <2>2, <3>5
  <2>. QED  BY <2>2, <2>3, <2>4
<1>4. Has(n)
  BY <1>1, <1>3
<1>5. Sub(n) = SUBSET DOMAIN list
  BY <1>2
<1>6. PICK g : g = [s \in SUBSET DOMAIN list |-> Below(base, list, g, s)]
  BY <1>4, <1>5
<1>. QED  BY <1>6 DEF FoldOver

\* Whatever one op leaves, many leave.
LEMMA FoldDoc ==
  ASSUME NEW d, IsDoc(d), NEW list \in Seq(Ops)
  PROVE  IsDoc(FoldLeft(Apply, d, list))
<1>. DEFINE F == FoldOver(d, list)
            Bad == {k \in Nat : \E s \in SUBSET DOMAIN list :
                                  Cardinality(s) = k /\ ~ IsDoc(F[s])}
<1>1. DOMAIN list = 1 .. Len(list) /\ Len(list) \in Nat
  OBVIOUS
<1>2. \A s \in SUBSET DOMAIN list : F[s] = Below(d, list, F, s)
  <2>1. F = [s \in SUBSET DOMAIN list |-> Below(d, list, F, s)]
    BY FoldExists
  <2>. HIDE DEF F
  <2>. QED  BY <2>1
<1>. HIDE DEF F
<1>3. ASSUME NEW s \in SUBSET DOMAIN list, ~ IsDoc(F[s]) PROVE FALSE
  <2>1. \A t \in SUBSET DOMAIN list : IsFiniteSet(t) /\ Cardinality(t) \in Nat
    BY <1>1, PlacesAreFinite
  <2>2. Bad \in SUBSET Nat /\ Bad # {}
    BY <1>3, <2>1
  <2>3. PICK k \in Bad : \A j \in Bad : k =< j
    BY <2>2, LeastNumber
  <2>4. PICK t \in SUBSET DOMAIN list : Cardinality(t) = k /\ ~ IsDoc(F[t])
    BY <2>3
  <2>5. t # {}
    BY <1>2, <2>4 DEF Below
  <2>. DEFINE u == t \ {Max(t)}
  <2>6. Max(t) \in t
    BY <1>1, <2>5, GreatestPlace
  <2>7. u \in SUBSET DOMAIN list /\ Cardinality(u) = k - 1 /\ k - 1 < k /\ k \in Nat
    BY SMTT(30), <2>1, <2>4, <2>6, FS_RemoveElement
  <2>8. k - 1 \in Nat
    BY <2>1, <2>7
  <2>9. IsDoc(F[u])
    BY <2>3, <2>7, <2>8
  <2>10. F[t] = Apply(F[u], list[Max(t)])
    BY <1>2, <2>5 DEF Below
  <2>11. list[Max(t)] \in Ops
    BY <2>6
  <2>. QED  BY <2>4, <2>9, <2>10, <2>11, ApplyDoc
<1>. QED  BY <1>3, FoldIsOver DEF F

-----------------------------------------------------------------------------
(* What a step leaves of the invariant, one part of it after the other.      *)

\* Mail and drafts only get more.
LEMMA Grows ==
  ASSUME Shape, Next
  PROVE  /\ arrived \subseteq arrived' /\ saves' \in 0 .. MaxSaves /\ saves <= saves'
         /\ There \subseteq There' /\ arrived' \subseteq There'
<1>1. saves \in 0 .. MaxSaves /\ arrived \subseteq There
  BY DEF Shape, TallyOK
<1>2. ASSUME arrived' = arrived, saves' = saves
      PROVE  /\ arrived \subseteq arrived' /\ saves' \in 0 .. MaxSaves /\ saves <= saves'
             /\ There \subseteq There' /\ arrived' \subseteq There'
  BY <1>1, <1>2 DEF There
<1>3. ASSUME NEW c \in Message, Deliver(c)
      PROVE  /\ arrived' = arrived \cup {c} /\ saves' = saves
  BY <1>3 DEF Deliver
<1>4. ASSUME NEW w \in Worker, Put(w)
      PROVE  /\ saves' = saves + 1 /\ saves < MaxSaves
             /\ arrived' = arrived \/ arrived' = arrived \cup {Draft(saves')}
  BY SMTT(30), <1>4 DEF Put
<1>5. ASSUME NEW w \in Worker,
             \/ List(w) \/ Compare(w) \/ Fetch(w) \/ Install(w) \/ Plan(w) \/ Rule(w)
             \/ RulesDone(w) \/ Pick(w) \/ Copy(w) \/ Delete(w) \/ Reindex(w)
             \/ MoveDone(w) \/ Save(w) \/ PurgeOne(w) \/ Forget(w) \/ PurgeDone(w)
             \/ Flag(w) \/ Note(w) \/ DropObject(w) \/ Dropped(w) \/ Strike(w)
      PROVE  arrived' = arrived /\ saves' = saves
  BY <1>5 DEF List, Compare, Fetch, Install, Plan, Rule, RulesDone, Pick, Copy, Delete,
     Reindex, MoveDone, Save, PurgeOne, Forget, PurgeDone, Flag, Note, DropObject,
     Dropped, Strike, history
<1>6. ASSUME NEW w \in Worker,
             \/ Refresh(w) \/ SaveDraft(w) \/ DropDraft(w)
             \/ \E K \in SUBSET InTrash(w) : Purge(w, K)
             \/ \E K \in SUBSET DOMAIN Index(w) : \E f \in Folder \ {Drafts} : Move(w, K, f)
      PROVE  arrived' = arrived /\ saves' = saves
  BY <1>6 DEF Refresh, SaveDraft, DropDraft, Purge, Move, Begin
<1>7. ASSUME NEW m \in Machine, Crash(m) PROVE arrived' = arrived /\ saves' = saves
  BY <1>7 DEF Crash
<1>8. ASSUME NEW c \in Message, Deliver(c)
      PROVE  /\ There \subseteq There' /\ arrived' \subseteq There'
             /\ saves' \in 0 .. MaxSaves /\ saves <= saves'
  BY <1>1, <1>3, <1>8 DEF There
<1>9. ASSUME NEW w \in Worker, Put(w)
      PROVE  /\ There \subseteq There' /\ arrived' \subseteq There'
             /\ saves' \in 0 .. MaxSaves /\ saves <= saves'
  <2>1. saves' = saves + 1 /\ saves' \in 1 .. MaxSaves
    BY <1>1, <1>4, <1>9, MailboxAssumption
  <2>2. 1 .. saves \subseteq 1 .. saves' /\ saves' \in 1 .. saves'
    BY <1>1, <2>1
  <2>3. {Draft(n) : n \in 1 .. saves} \subseteq {Draft(n) : n \in 1 .. saves'}
    BY <2>2
  <2>. QED  BY <1>1, <1>4, <1>9, <2>1, <2>2, <2>3 DEF There
<1>. QED  BY <1>2, <1>3, <1>4, <1>5, <1>6, <1>7, <1>8, <1>9 DEF Next, Step

\* The keys that mail and drafts come under.
LEMMA FirstKeys ==
  /\ \A c \in Message : \A f \in Folder :
       KeyFor(BaseName(c), f) \in Key /\ ContentOf(Mid(KeyFor(BaseName(c), f))) = c
  /\ \A c \in Message : Home(c) \in Key /\ ContentOf(Mid(Home(c))) = c
  /\ \A n \in 1 .. MaxSaves : DraftKey(n) \in Key /\ ContentOf(Mid(DraftKey(n))) = Draft(n)
<1>1. \A c \in Message : \A f \in Folder :
        KeyFor(BaseName(c), f) \in Key /\ ContentOf(Mid(KeyFor(BaseName(c), f))) = c
  BY FirstNames, KeyParts
<1>2. Inbox \in Folder /\ Drafts \in Folder
  BY DEF Folder
<1>. QED  BY <1>1, <1>2, FirstNames, KeyParts DEF Home, DraftKey

LEMMA BucketPut ==
  ASSUME BucketOK, There \subseteq There',
         NEW k \in Key, NEW v \in Content, v \in There', v = ContentOf(Mid(k)),
         bucket' = Set(bucket, k, v)
  PROVE  BucketOK'
<1>1. /\ IsMap(bucket', Content) /\ DOMAIN bucket' = DOMAIN bucket \cup {k}
      /\ bucket'[k] = v /\ \A j \in DOMAIN bucket \ {k} : bucket'[j] = bucket[j]
  <2>1. IsMap(bucket, Content)
    BY DEF BucketOK
  <2>. QED  BY <2>1, SetMap
<1>2. \A j \in DOMAIN bucket' : bucket'[j] = ContentOf(Mid(j)) /\ bucket'[j] \in There'
  BY <1>1 DEF BucketOK
<1>. QED  BY <1>1, <1>2 DEF BucketOK

LEMMA BucketCut ==
  ASSUME BucketOK, There \subseteq There', NEW k, bucket' = Without(bucket, {k})
  PROVE  BucketOK'
<1>1. /\ IsMap(bucket', Content) /\ DOMAIN bucket' = DOMAIN bucket \ {k}
      /\ \A j \in DOMAIN bucket \ {k} : bucket'[j] = bucket[j]
  <2>1. IsMap(bucket, Content)
    BY DEF BucketOK
  <2>. QED  BY <2>1, WithoutMap
<1>2. \A j \in DOMAIN bucket' : bucket'[j] = ContentOf(Mid(j)) /\ bucket'[j] \in There'
  BY <1>1 DEF BucketOK
<1>. QED  BY <1>1, <1>2 DEF BucketOK

LEMMA BucketSame ==
  ASSUME BucketOK, There \subseteq There', bucket' = bucket
  PROVE  BucketOK'
<1>1. IsMap(bucket', Content)
  BY DEF BucketOK
<1>2. \A j \in DOMAIN bucket' : bucket'[j] = ContentOf(Mid(j)) /\ bucket'[j] \in There'
  BY DEF BucketOK
<1>. QED  BY <1>1, <1>2 DEF BucketOK

LEMMA BucketNext == ASSUME Shape, Next PROVE BucketOK'
<1>1. BucketOK /\ There \subseteq There' /\ arrived' \subseteq There'
  BY Grows DEF Shape
<1>2. ASSUME NEW c \in Message, Deliver(c) PROVE BucketOK'
  <2>1. bucket' = Set(bucket, Home(c), c) /\ c \in arrived'
    BY <1>2 DEF Deliver
  <2>2. c \in Content
    BY DEF Content
  <2>. QED  BY <1>1, <2>1, <2>2, FirstKeys, BucketPut
<1>3. ASSUME NEW w \in Worker, Copy(w) PROVE BucketOK'
  <2>1. \/ bucket' = bucket
        \/ /\ mem[w].from \in DOMAIN bucket
           /\ bucket' = Set(bucket, mem[w].to, bucket[mem[w].from])
    BY <1>3 DEF Copy
  <2>2. mem[w].to \in Key /\ ContentOf(Mid(mem[w].from)) = ContentOf(Mid(mem[w].to))
    BY <1>3 DEF Copy, Shape, WorkersOK, At
  <2>3. CASE mem[w].from \in DOMAIN bucket
    <3>. DEFINE v == bucket[mem[w].from]
    <3>1. v \in Content /\ v = ContentOf(Mid(mem[w].to)) /\ v \in There'
      BY <1>1, <2>2, <2>3 DEF BucketOK, IsMap
    <3>. QED  BY <1>1, <2>1, <2>2, <3>1, BucketPut, BucketSame
  <2>. QED  BY <1>1, <2>1, <2>3, BucketSame
<1>4. ASSUME NEW w \in Worker, Put(w) PROVE BucketOK'
  <2>1. \/ bucket' = bucket
        \/ bucket' = Set(bucket, DraftKey(saves'), Draft(saves'))
    BY <1>4 DEF Put
  <2>2. saves' = saves + 1 /\ saves < MaxSaves /\ saves \in Nat
    BY <1>4 DEF Put, Shape, TallyOK
  <2>3. saves' \in 1 .. MaxSaves /\ saves' \in 1 .. saves'
    BY <2>2, MailboxAssumption
  <2>4. Draft(saves') \in Content /\ Draft(saves') \in There'
    BY <2>3 DEF Content, There
  <2>. QED  BY <1>1, <2>1, <2>3, <2>4, FirstKeys, BucketPut, BucketSame
<1>5. ASSUME NEW w \in Worker, Delete(w) \/ PurgeOne(w) \/ DropObject(w)
      PROVE  BucketOK'
  <2>1. bucket' = bucket \/ \E k : bucket' = Without(bucket, {k})
    BY <1>5 DEF Delete, PurgeOne, DropObject
  <2>. QED  BY <1>1, <2>1, BucketCut, BucketSame
<1>6. ASSUME NEW w \in Worker,
             \/ List(w) \/ Compare(w) \/ Fetch(w) \/ Install(w) \/ Plan(w) \/ Rule(w)
             \/ RulesDone(w) \/ Pick(w) \/ Reindex(w)
             \/ MoveDone(w) \/ Save(w) \/ Forget(w) \/ PurgeDone(w)
             \/ Flag(w) \/ Note(w) \/ Dropped(w) \/ Strike(w)
      PROVE  bucket' = bucket
  BY <1>6 DEF List, Compare, Fetch, Install, Plan, Rule, RulesDone, Pick,
     Reindex, MoveDone, Save, Forget, PurgeDone, Flag, Note, Dropped, Strike, shared
<1>7. ASSUME NEW w \in Worker,
             \/ Refresh(w) \/ SaveDraft(w) \/ DropDraft(w)
             \/ \E K \in SUBSET InTrash(w) : Purge(w, K)
             \/ \E K \in SUBSET DOMAIN Index(w) : \E f \in Folder \ {Drafts} : Move(w, K, f)
      PROVE  bucket' = bucket
  BY <1>7 DEF Refresh, SaveDraft, DropDraft, Purge, Move, Begin, shared
<1>8. ASSUME NEW m \in Machine, Crash(m) PROVE bucket' = bucket
  BY <1>8 DEF Crash, shared
<1>. QED  BY <1>1, <1>2, <1>3, <1>4, <1>5, <1>6, <1>7, <1>8, BucketSame DEF Next, Step

\* An index is replaced, and perhaps written to the cache file.
LEMMA IndexSet ==
  ASSUME IndexOK, NEW w \in Worker, NEW i, IsMap(i, Entry), SetIndex(w, i),
         host' = host, disk' = disk \/ WriteCache(w)
  PROVE  IndexOK'
<1>1. host[w] \in Machine /\ index' = [index EXCEPT ![host[w]] = i]
  BY DEF IndexOK, SetIndex
<1>2. DOMAIN index' = Machine /\ \A m \in Machine : IsMap(index'[m], Entry)
  BY <1>1 DEF IndexOK
<1>3. DOMAIN disk' = Machine /\ \A m \in Machine : IsMap(disk'[m], Entry)
  BY <1>1, <1>2 DEF IndexOK, WriteCache
<1>. QED  BY <1>2, <1>3 DEF IndexOK

\* The index stays; the cache file may get it.
LEMMA IndexSame ==
  ASSUME IndexOK, NEW w \in Worker, index' = index, host' = host,
         disk' = disk \/ disk' = [disk EXCEPT ![host[w]] = Index(w)]
  PROVE  IndexOK'
<1>1. IsMap(Index(w), Entry)
  BY DEF IndexOK, Index
<1>2. DOMAIN disk' = Machine /\ \A m \in Machine : IsMap(disk'[m], Entry)
  BY <1>1 DEF IndexOK
<1>. QED  BY <1>2 DEF IndexOK

LEMMA IndexNext == ASSUME Shape, Next PROVE IndexOK'
<1>1. IndexOK /\ \A w \in Worker : IsMap(Index(w), Entry) /\ MemOK(mem[w]) /\ At(pc[w], mem[w], There)
  BY DEF Shape, IndexOK, Index, WorkersOK
<1>2. ASSUME NEW w \in Worker, Compare(w) PROVE IndexOK'
  <2>1. SetIndex(w, Present(Index(w), mem[w].listing)) /\ host' = host /\ disk' = disk
    BY <1>2 DEF Compare
  <2>2. IsMap(Present(Index(w), mem[w].listing), Entry)
    BY <1>1, RestrictMap DEF Present
  <2>. QED  BY <1>1, <2>1, <2>2, IndexSet
<1>3. ASSUME NEW w \in Worker, Install(w) PROVE IndexOK'
  <2>1. SetIndex(w, Over(mem[w].fresh, Index(w))) /\ host' = host /\ WriteCache(w)
    BY <1>3 DEF Install
  <2>2. IsMap(mem[w].fresh, Entry)
    BY <1>1 DEF MemOK
  <2>3. IsMap(Over(mem[w].fresh, Index(w)), Entry)
    BY <1>1, <2>2, OverMap
  <2>. QED  BY <1>1, <2>1, <2>3, IndexSet
<1>4. ASSUME NEW w \in Worker, Reindex(w) PROVE IndexOK'
  <2>1. /\ SetIndex(w, Set(Without(Index(w), {mem[w].from}), mem[w].to, mem[w].entry))
        /\ host' = host /\ disk' = disk /\ pc[w] = "reindex"
    BY <1>4 DEF Reindex
  <2>2. mem[w].to \in Key /\ mem[w].entry \in Entry
    BY <1>1, <2>1 DEF At
  <2>3. IsMap(Without(Index(w), {mem[w].from}), Entry)
    BY <1>1, WithoutMap
  <2>4. IsMap(Set(Without(Index(w), {mem[w].from}), mem[w].to, mem[w].entry), Entry)
    BY <2>2, <2>3, SetMap
  <2>. QED  BY <1>1, <2>1, <2>4, IndexSet
<1>5. ASSUME NEW w \in Worker, Note(w) PROVE IndexOK'
  <2>1. /\ SetIndex(w, Set(Index(w), mem[w].to, mem[w].entry))
        /\ host' = host /\ WriteCache(w) /\ pc[w] = "note"
    BY <1>5 DEF Note
  <2>2. mem[w].to \in Key /\ mem[w].entry \in Entry
    BY <1>1, <2>1 DEF At
  <2>3. IsMap(Set(Index(w), mem[w].to, mem[w].entry), Entry)
    BY <1>1, <2>2, SetMap
  <2>. QED  BY <1>1, <2>1, <2>3, IndexSet
<1>6. ASSUME NEW w \in Worker, Forget(w) \/ Dropped(w) PROVE IndexOK'
  <2>1. /\ SetIndex(w, Without(Index(w), {mem[w].from}))
        /\ host' = host /\ (disk' = disk \/ WriteCache(w))
    BY <1>6 DEF Forget, Dropped
  <2>2. IsMap(Without(Index(w), {mem[w].from}), Entry)
    BY <1>1, WithoutMap
  <2>. QED  BY <1>1, <2>1, <2>2, IndexSet
<1>7. ASSUME NEW w \in Worker,
             \/ List(w) \/ Fetch(w) \/ Plan(w) \/ Rule(w) \/ RulesDone(w) \/ Pick(w)
             \/ Copy(w) \/ Delete(w) \/ MoveDone(w) \/ Save(w) \/ PurgeOne(w)
             \/ PurgeDone(w) \/ Put(w) \/ Flag(w) \/ DropObject(w) \/ Strike(w)
      PROVE  IndexOK'
  <2>1. /\ index' = index /\ host' = host
        /\ disk' = disk \/ disk' = [disk EXCEPT ![host[w]] = Index(w)]
    BY <1>7 DEF List, Fetch, Plan, Rule, RulesDone, Pick, Copy, Delete, MoveDone, Save,
       PurgeOne, PurgeDone, Put, Flag, DropObject, Strike, local
  <2>. QED  BY <1>1, <2>1, IndexSame
<1>8. ASSUME NEW w \in Worker,
             \/ Refresh(w) \/ SaveDraft(w) \/ DropDraft(w)
             \/ \E K \in SUBSET InTrash(w) : Purge(w, K)
             \/ \E K \in SUBSET DOMAIN Index(w) : \E f \in Folder \ {Drafts} : Move(w, K, f)
      PROVE  IndexOK'
  <2>1. index' = index /\ host' = host /\ disk' = disk
    BY <1>8 DEF Refresh, SaveDraft, DropDraft, Purge, Move, Begin
  <2>. QED  BY <1>1, <2>1 DEF IndexOK
<1>9. ASSUME NEW m \in Machine, Crash(m) PROVE IndexOK'
  <2>1. index' = [index EXCEPT ![m] = disk[m]] /\ host' = host /\ disk' = disk
    BY <1>9 DEF Crash
  <2>. QED  BY <1>1, <2>1 DEF IndexOK
<1>10. ASSUME NEW c \in Message, Deliver(c) PROVE IndexOK'
  <2>1. index' = index /\ host' = host /\ disk' = disk
    BY <1>10 DEF Deliver, local
  <2>. QED  BY <1>1, <2>1 DEF IndexOK
<1>. QED  BY <1>2, <1>3, <1>4, <1>5, <1>6, <1>7, <1>8, <1>9, <1>10 DEF Next, Step

-----------------------------------------------------------------------------
\* What is flushed is in the document, what is not waits.
LEMMA FlushedDoc ==
  ASSUME StateOK, IndexOK, NEW w \in Worker, NEW list \in Seq(Ops), Flush(w, list)
  PROVE  IsDoc(doc') /\ pend' \in [Machine -> Seq(Ops)]
<1>1. host[w] \in Machine /\ IsDoc(doc) /\ pend \in [Machine -> Seq(Ops)]
  BY DEF IndexOK, StateOK
<1>2. \/ doc' = doc /\ pend' = [pend EXCEPT ![host[w]] = list]
      \/ /\ doc' = FoldLeft(Apply, doc, list)
         /\ pend' = [pend EXCEPT ![host[w]] = <<>>]
  BY DEF Flush
<1>3. <<>> \in Seq(Ops) /\ IsDoc(FoldLeft(Apply, doc, list))
  BY <1>1, FoldDoc
<1>. HIDE DEF IsDoc
<1>4. IsDoc(doc')
  BY <1>1, <1>2, <1>3
<1>5. pend' \in [Machine -> Seq(Ops)]
  BY <1>1, <1>2, <1>3
<1>. QED  BY <1>4, <1>5

LEMMA MutatedDoc ==
  ASSUME StateOK, IndexOK, NEW w \in Worker, NEW op \in Ops, Mutate(w, op)
  PROVE  StateOK'
<1>1. host[w] \in Machine /\ pend[host[w]] \in Seq(Ops) /\ IsDoc(view[host[w]])
  BY DEF IndexOK, StateOK
<1>2. Append(pend[host[w]], op) \in Seq(Ops) /\ IsDoc(Apply(view[host[w]], op))
  BY <1>1, ApplyDoc
<1>3. IsDoc(doc') /\ pend' \in [Machine -> Seq(Ops)]
  BY <1>2, FlushedDoc DEF Mutate
<1>4. view' = [view EXCEPT ![host[w]] = Apply(view[host[w]], op)]
  BY DEF Mutate
<1>5. DOMAIN view' = Machine /\ \A m \in Machine : IsDoc(view'[m])
  BY <1>1, <1>2, <1>4 DEF StateOK
<1>. QED  BY <1>3, <1>5 DEF StateOK

\* The ops that are written.
LEMMA OpsMade ==
  ASSUME NEW mid \in Name
  PROVE  /\ Op("ruled", mid) \in Ops /\ Op("flags", mid) \in Ops /\ Op("drop", mid) \in Ops
         /\ \A new \in Name : [t |-> "rekey", mid |-> mid, new |-> new] \in Ops
BY DEF Op, Ops

LEMMA StateNext == ASSUME Shape, Next PROVE StateOK'
<1>1. /\ StateOK /\ IndexOK
      /\ \A w \in Worker : /\ host[w] \in Machine /\ pend[host[w]] \in Seq(Ops)
                           /\ MemOK(mem[w]) /\ At(pc[w], mem[w], There)
  BY DEF Shape, StateOK, IndexOK, WorkersOK
<1>2. ASSUME NEW w \in Worker, NEW list \in Seq(Ops), Flush(w, list), view' = view
      PROVE  StateOK'
  BY <1>1, <1>2, FlushedDoc DEF StateOK
<1>3. ASSUME doc' = doc, view' = view, pend' = pend PROVE StateOK'
  BY <1>1, <1>3 DEF StateOK
<1>4. ASSUME NEW w \in Worker, Rule(w) PROVE StateOK'
  <2>. DEFINE k == CHOOSE k \in mem[w].todo : TRUE
  <2>1. k \in mem[w].todo /\ Mutate(w, Op("ruled", Mid(k)))
    BY <1>4 DEF Rule
  <2>2. k \in Key
    BY <1>1, <2>1 DEF MemOK
  <2>. HIDE DEF k
  <2>. QED  BY <1>1, <2>1, <2>2, KeyParts, OpsMade, MutatedDoc
<1>5. ASSUME NEW w \in Worker, Reindex(w) PROVE StateOK'
  <2>. DEFINE op == [t |-> "rekey", mid |-> Mid(mem[w].from), new |-> Mid(mem[w].to)]
  <2>1. pc[w] = "reindex" /\ (Mutate(w, op) \/ UNCHANGED <<doc, view, pend>>)
    BY <1>5 DEF Reindex
  <2>2. mem[w].from \in Key /\ mem[w].to \in Key
    BY <1>1, <2>1 DEF At
  <2>3. op \in Ops
    BY <2>2, KeyParts, OpsMade
  <2>. HIDE DEF op
  <2>. QED  BY <1>1, <1>3, <2>1, <2>3, MutatedDoc
<1>6. ASSUME NEW w \in Worker, Flag(w) PROVE StateOK'
  <2>1. pc[w] = "flag" /\ Mutate(w, Op("flags", Mid(mem[w].to)))
    BY <1>6 DEF Flag
  <2>2. mem[w].to \in Key
    BY <1>1, <2>1 DEF At
  <2>. QED  BY <1>1, <2>1, <2>2, KeyParts, OpsMade, MutatedDoc
<1>7. ASSUME NEW w \in Worker, Forget(w) \/ Strike(w) PROVE StateOK'
  <2>1. pc[w] \in {"forget", "strike"} /\ Mutate(w, Op("drop", Mid(mem[w].from)))
    BY <1>7 DEF Forget, Strike
  <2>2. mem[w].from \in Key
    BY <1>1, <2>1 DEF At
  <2>. QED  BY <1>1, <2>1, <2>2, KeyParts, OpsMade, MutatedDoc
<1>8. ASSUME NEW w \in Worker, Save(w) PROVE StateOK'
  <2>1. Flush(w, pend[host[w]]) /\ view' = view
    BY <1>8 DEF Save
  <2>. QED  BY <1>1, <1>2, <2>1
<1>9. ASSUME NEW w \in Worker, Refresh(w) PROVE StateOK'
  <2>1. /\ view' = [view EXCEPT ![host[w]] = FoldLeft(Apply, doc, pend[host[w]])]
        /\ doc' = doc /\ pend' = pend
    BY <1>9 DEF Refresh, Begin, shared
  <2>2. IsDoc(FoldLeft(Apply, doc, pend[host[w]]))
    BY <1>1, FoldDoc DEF StateOK
  <2>. QED  BY <1>1, <2>1, <2>2 DEF StateOK
<1>10. ASSUME NEW m \in Machine, Crash(m) PROVE StateOK'
  <2>1. /\ view' = [view EXCEPT ![m] = doc] /\ pend' = [pend EXCEPT ![m] = <<>>]
        /\ doc' = doc
    BY <1>10 DEF Crash, shared
  <2>2. <<>> \in Seq(Ops)
    BY SMTT(30)
  <2>. QED  BY <1>1, <2>1, <2>2 DEF StateOK
<1>11. ASSUME NEW w \in Worker,
             \/ List(w) \/ Compare(w) \/ Fetch(w) \/ Install(w) \/ Plan(w)
             \/ RulesDone(w) \/ Pick(w) \/ Copy(w) \/ Delete(w) \/ MoveDone(w)
             \/ PurgeOne(w) \/ PurgeDone(w) \/ Put(w) \/ Note(w) \/ DropObject(w)
             \/ Dropped(w)
      PROVE  doc' = doc /\ view' = view /\ pend' = pend
  BY <1>11 DEF List, Compare, Fetch, Install, Plan, RulesDone, Pick, Copy, Delete,
     MoveDone, PurgeOne, PurgeDone, Put, Note, DropObject, Dropped, shared, local
<1>12. ASSUME NEW w \in Worker,
             \/ SaveDraft(w) \/ DropDraft(w)
             \/ \E K \in SUBSET InTrash(w) : Purge(w, K)
             \/ \E K \in SUBSET DOMAIN Index(w) : \E f \in Folder \ {Drafts} : Move(w, K, f)
      PROVE  doc' = doc /\ view' = view /\ pend' = pend
  BY <1>12 DEF SaveDraft, DropDraft, Purge, Move, Begin, shared
<1>13. ASSUME NEW c \in Message, Deliver(c) PROVE doc' = doc /\ view' = view /\ pend' = pend
  BY <1>13 DEF Deliver, local
<1>. QED  BY <1>3, <1>4, <1>5, <1>6, <1>7, <1>8, <1>9, <1>10, <1>11, <1>12, <1>13 DEF Next, Step

-----------------------------------------------------------------------------
\* The counters and what they count, and the histories.
CountersOK == /\ ops \in 0 .. MaxOp /\ spent \in 0 .. MaxFault /\ failed \subseteq FaultKind
              /\ calm \subseteq Worker
StoryOK == /\ destroyed \subseteq Content /\ bare \subseteq Name /\ filed \in [Message -> Nat]

LEMMA Faulty ==
  ASSUME spent \in 0 .. MaxFault, failed \subseteq FaultKind,
         Fine \/ \E kind \in FaultKind : Fault(kind)
  PROVE  spent' \in 0 .. MaxFault /\ failed' \subseteq FaultKind
<1>1. CASE Fine
  BY <1>1 DEF Fine
<1>2. CASE \E kind \in FaultKind : Fault(kind)
  <2>1. spent' = spent + 1 /\ spent < MaxFault /\ failed' \subseteq FaultKind
    BY <1>2 DEF Fault
  <2>. QED  BY <2>1, MailboxAssumption
<1>. QED  BY <1>1, <1>2

LEMMA CountersNext == ASSUME Shape, Next PROVE CountersOK'
<1>1. /\ ops \in 0 .. MaxOp /\ spent \in 0 .. MaxFault /\ failed \subseteq FaultKind
      /\ calm \subseteq Worker
  BY DEF Shape, TallyOK
<1>2. {"list", "get", "copy", "delete", "put", "crash"} \subseteq FaultKind
  BY SMTT(30) DEF FaultKind
<1>3. ASSUME NEW w \in Worker,
             \/ List(w) \/ Compare(w) \/ Fetch(w) \/ Install(w) \/ Plan(w) \/ Rule(w)
             \/ RulesDone(w) \/ Pick(w) \/ Copy(w) \/ Delete(w)
      PROVE  /\ ops' = ops /\ calm' \subseteq calm
             /\ Fine \/ \E kind \in FaultKind : Fault(kind)
  BY <1>2, <1>3 DEF List, Compare, Fetch, Install, Plan, Rule, RulesDone, Pick, Copy, Delete,
     Disturbs, DisturbsAll, DisturbsNobody, tally, Fine
<1>4. ASSUME NEW w \in Worker,
             \/ Reindex(w) \/ MoveDone(w) \/ Save(w) \/ PurgeOne(w) \/ Forget(w)
             \/ PurgeDone(w) \/ Put(w) \/ Flag(w) \/ Note(w) \/ DropObject(w)
             \/ Dropped(w) \/ Strike(w)
      PROVE  /\ ops' = ops /\ calm' \subseteq calm
             /\ Fine \/ \E kind \in FaultKind : Fault(kind)
  BY <1>2, <1>4 DEF Reindex, MoveDone, Save, PurgeOne, Forget, PurgeDone, Put, Flag, Note,
     DropObject, Dropped, Strike, Disturbs, DisturbsAll, DisturbsNobody, tally, Fine
<1>5. ASSUME NEW w \in Worker,
             \/ Refresh(w) \/ SaveDraft(w) \/ DropDraft(w)
             \/ \E K \in SUBSET InTrash(w) : Purge(w, K)
             \/ \E K \in SUBSET DOMAIN Index(w) : \E f \in Folder \ {Drafts} : Move(w, K, f)
      PROVE  /\ ops < MaxOp /\ ops' = ops + 1 /\ calm' \subseteq calm \cup {w} /\ Fine
  BY <1>5 DEF Refresh, SaveDraft, DropDraft, Purge, Move, Begin, Fine, DisturbsNobody
<1>6. ASSUME NEW c \in Message, Deliver(c)
      PROVE  ops < MaxOp /\ ops' = ops + 1 /\ calm' = {} /\ Fine
  BY <1>6 DEF Deliver, DisturbsAll, Fine
<1>7. ASSUME NEW m \in Machine, Crash(m)
      PROVE  ops' = ops /\ calm' = {} /\ \E kind \in FaultKind : Fault(kind)
  BY <1>2, <1>7 DEF Crash, DisturbsAll
<1>8. ASSUME ops < MaxOp, ops' = ops + 1 PROVE ops' \in 0 .. MaxOp
  BY <1>1, <1>8, MailboxAssumption
<1>9. calm' \subseteq Worker
  BY <1>1, <1>3, <1>4, <1>5, <1>6, <1>7 DEF Next, Step
<1>10. ops' \in 0 .. MaxOp
  BY <1>1, <1>3, <1>4, <1>5, <1>6, <1>7, <1>8 DEF Next, Step
<1>11. Fine \/ \E kind \in FaultKind : Fault(kind)
  BY <1>3, <1>4, <1>5, <1>6, <1>7 DEF Next, Step
<1>. QED  BY <1>1, <1>9, <1>10, <1>11, Faulty DEF CountersOK

\* What is destroyed was in the bucket, what is bare has been a name.
LEMMA StoryNext == ASSUME Shape, Next PROVE StoryOK'
<1>1. /\ destroyed \subseteq Content /\ bare \subseteq Name /\ filed \in [Message -> Nat]
      /\ \A k \in DOMAIN bucket : bucket[k] \in Content
  BY DEF Shape, TallyOK, BucketOK, IsMap
<1>2. \A w \in Worker : pc[w] \in {"copy", "delete", "reindex"} => Bare(w) \subseteq Name
  <2>1. \A w \in Worker : pc[w] \in {"copy", "delete", "reindex"} => mem[w].to \in Key
    BY DEF Shape, WorkersOK, At
  <2>. QED  BY <2>1, KeyParts DEF Bare
<1>3. ASSUME NEW w \in Worker, Copy(w)
      PROVE  destroyed' = destroyed /\ bare' \subseteq Name /\ filed' \in [Message -> Nat]
  <2>1. /\ destroyed' = destroyed /\ (bare' = bare \/ bare' = bare \cup Bare(w))
        /\ pc[w] = "copy"
        /\ \/ filed' = filed
           \/ \E c \in Message : filed' = [filed EXCEPT ![c] = @ + 1]
    BY <1>3 DEF Copy
  <2>. QED  BY <1>1, <1>2, <2>1
<1>4. ASSUME NEW w \in Worker, Delete(w)
      PROVE  destroyed' = destroyed /\ bare' \subseteq Name /\ filed' = filed
  <2>1. /\ destroyed' = destroyed /\ (bare' = bare \/ bare' = bare \cup Bare(w))
        /\ pc[w] = "delete" /\ filed' = filed
    BY <1>4 DEF Delete
  <2>. QED  BY <1>1, <1>2, <2>1
<1>5. ASSUME NEW w \in Worker, PurgeOne(w) \/ DropObject(w)
      PROVE  destroyed' \subseteq Content /\ bare' = bare /\ filed' = filed
  <2>1. /\ bare' = bare /\ filed' = filed
        /\ \/ destroyed' = destroyed
           \/ \E k : destroyed' = destroyed \cup {bucket[j] : j \in {k} \cap DOMAIN bucket}
    BY <1>5 DEF PurgeOne, DropObject
  <2>. QED  BY <1>1, <2>1
<1>6. ASSUME NEW w \in Worker, Forget(w)
      PROVE  destroyed' = destroyed /\ bare' \subseteq Name /\ filed' = filed
  <2>1. /\ destroyed' = destroyed /\ bare' = bare \cup {Mid(mem[w].from)} /\ filed' = filed
        /\ pc[w] = "forget"
    BY <1>6 DEF Forget
  <2>2. mem[w].from \in Key
    BY <2>1 DEF Shape, WorkersOK, At
  <2>. QED  BY <1>1, <2>1, <2>2, KeyParts
<1>7. ASSUME NEW m \in Machine, Crash(m)
      PROVE  destroyed' = destroyed /\ bare' \subseteq Name /\ filed' = filed
  <2>. DEFINE Here == {w \in Worker : host[w] = m}
              Lost == UNION {Bare(w) : w \in {v \in Here : pc[v] \in {"delete", "reindex"}}}
              Renamed == {op.new : op \in {o \in Range(pend[m]) : o.t = "rekey"}}
  <2>1. destroyed' = destroyed /\ filed' = filed
    BY <1>7 DEF Crash
  <2>2. bare' = bare \cup Lost \cup Renamed
    BY <1>7 DEF Crash
  <2>3. Lost \subseteq Name
    BY <1>2
  <2>4. Renamed \subseteq Name
    <3>1. pend[m] \in Seq(Ops)
      BY DEF Shape, StateOK
    <3>2. \A op \in Range(pend[m]) : op \in Ops
      BY SMTT(30), <3>1 DEF Range
    <3>. QED  BY <3>2 DEF Ops
  <2>. HIDE DEF Lost, Renamed
  <2>. QED  BY <1>1, <2>1, <2>2, <2>3, <2>4
<1>8. ASSUME NEW w \in Worker,
             \/ List(w) \/ Compare(w) \/ Fetch(w) \/ Install(w) \/ Plan(w) \/ Rule(w)
             \/ RulesDone(w) \/ Pick(w) \/ MoveDone(w) \/ Save(w)
             \/ PurgeDone(w) \/ Put(w) \/ Flag(w) \/ Note(w) \/ Dropped(w) \/ Strike(w)
      PROVE  destroyed' = destroyed /\ bare' = bare /\ filed' = filed
  BY <1>8 DEF List, Compare, Fetch, Install, Plan, Rule, RulesDone, Pick,
     MoveDone, Save, PurgeDone, Put, Flag, Note, Dropped, Strike, history
<1>9. ASSUME NEW w \in Worker,
             \/ Refresh(w) \/ SaveDraft(w) \/ DropDraft(w)
             \/ \E K \in SUBSET InTrash(w) : Purge(w, K)
             \/ \E K \in SUBSET DOMAIN Index(w) : \E f \in Folder \ {Drafts} : Move(w, K, f)
      PROVE  destroyed' = destroyed /\ bare' = bare /\ filed' = filed
  BY <1>9 DEF Refresh, SaveDraft, DropDraft, Purge, Move, Begin
<1>10. ASSUME NEW c \in Message, Deliver(c)
       PROVE  destroyed' = destroyed /\ bare' = bare /\ filed' = filed
  BY <1>10 DEF Deliver
<1>11. ASSUME NEW w \in Worker, Reindex(w)
       PROVE  destroyed' = destroyed /\ bare' \subseteq Name /\ filed' = filed
  <2>1. destroyed' = destroyed /\ bare' = bare \cup Untold(w) /\ filed' = filed /\ pc[w] = "reindex"
    BY <1>11 DEF Reindex
  <2>2. Untold(w) \subseteq Bare(w)
    BY DEF Untold
  <2>. QED  BY <1>1, <1>2, <2>1, <2>2
<1>12. destroyed' \subseteq Content
  BY <1>1, <1>3, <1>4, <1>5, <1>6, <1>7, <1>8, <1>9, <1>10, <1>11 DEF Next, Step
<1>13. bare' \subseteq Name
  BY <1>1, <1>3, <1>4, <1>5, <1>6, <1>7, <1>8, <1>9, <1>10, <1>11 DEF Next, Step
<1>14. filed' \in [Message -> Nat]
  BY <1>1, <1>3, <1>4, <1>5, <1>6, <1>7, <1>8, <1>9, <1>10, <1>11 DEF Next, Step
<1>. QED  BY <1>12, <1>13, <1>14 DEF StoryOK

\* Only a handler that begins can overlap, only a copy can cross a move.
LEMMA MixedUp ==
  ASSUME Shape, Next
  PROVE  overlap' \in BOOLEAN /\ crossed' \in BOOLEAN /\ (crossed => crossed')
<1>1. overlap \in BOOLEAN /\ crossed \in BOOLEAN
  BY DEF Shape, TallyOK
<1>2. ASSUME NEW w \in Worker, Copy(w)
      PROVE  overlap' = overlap /\ crossed' \in BOOLEAN /\ (crossed => crossed')
  <2>1. overlap' = overlap
    BY <1>2 DEF Copy
  <2>2. crossed' = (crossed \/ \E v \in Worker \ {w} :
                              pc[v] = "delete" /\ mem[v].from = mem[w].to)
    BY <1>2 DEF Copy
  <2>3. crossed' \in BOOLEAN
    BY <2>2
  <2>4. crossed => crossed'
    BY <2>2, ZenonT(30)
  <2>. QED  BY <2>1, <2>3, <2>4
<1>3. ASSUME NEW w \in Worker,
             \/ List(w) \/ Compare(w) \/ Fetch(w) \/ Install(w) \/ Plan(w) \/ Rule(w)
             \/ RulesDone(w) \/ Pick(w) \/ Delete(w) \/ Reindex(w) \/ MoveDone(w) \/ Save(w)
             \/ PurgeOne(w) \/ Forget(w) \/ PurgeDone(w) \/ Put(w) \/ Flag(w) \/ Note(w)
             \/ DropObject(w) \/ Dropped(w) \/ Strike(w)
      PROVE  overlap' = overlap /\ crossed' = crossed
  BY <1>3 DEF List, Compare, Fetch, Install, Plan, Rule, RulesDone, Pick, Delete, Reindex,
     MoveDone, Save, PurgeOne, Forget, PurgeDone, Put, Flag, Note, DropObject, Dropped,
     Strike, history
<1>4. ASSUME NEW w \in Worker,
             \/ Refresh(w) \/ SaveDraft(w) \/ DropDraft(w)
             \/ \E K \in SUBSET InTrash(w) : Purge(w, K)
             \/ \E K \in SUBSET DOMAIN Index(w) : \E f \in Folder \ {Drafts} : Move(w, K, f)
      PROVE  /\ overlap' = (overlap \/ \E v \in Worker \ {w} : ~Idle(v))
             /\ crossed' = crossed
  BY <1>4 DEF Refresh, SaveDraft, DropDraft, Purge, Move, Begin
<1>5. ASSUME NEW m \in Machine, Crash(m) PROVE overlap' = overlap /\ crossed' = crossed
  BY <1>5 DEF Crash
<1>6. ASSUME NEW c \in Message, Deliver(c) PROVE overlap' = overlap /\ crossed' = crossed
  BY <1>6 DEF Deliver
<1>7. overlap' \in BOOLEAN
  BY <1>1, <1>2, <1>3, <1>4, <1>5, <1>6 DEF Next, Step
<1>8. crossed' \in BOOLEAN
  BY <1>1, <1>2, <1>3, <1>4, <1>5, <1>6 DEF Next, Step
<1>9. crossed => crossed'
  BY <1>1, <1>2, <1>3, <1>4, <1>5, <1>6 DEF Next, Step
<1>. QED  BY <1>7, <1>8, <1>9

LEMMA TallyNext == ASSUME Shape, Next PROVE TallyOK'
<1>1. saves' \in 0 .. MaxSaves /\ arrived' \subseteq There'
  BY Grows
<1>2. CountersOK' /\ StoryOK'
  BY CountersNext, StoryNext
<1>3. overlap' \in BOOLEAN /\ crossed' \in BOOLEAN
  BY MixedUp
<1>. QED  BY <1>1, <1>2, <1>3 DEF TallyOK, CountersOK, StoryOK

-----------------------------------------------------------------------------
(* What the workers hold on to.                                              *)

\* A worker goes on to a step with what the step needs.
LEMMA WorkerGoes ==
  ASSUME WorkersOK, There \subseteq There', NEW w \in Worker, NEW step \in PcType, NEW x,
         Goto(w, step, x), MemOK(x), At(step, x, There)
  PROVE  WorkersOK'
<1>1. pc' = [pc EXCEPT ![w] = step] /\ mem' = [mem EXCEPT ![w] = x]
  BY DEF Goto
<1>2. pc' \in [Worker -> PcType] /\ DOMAIN mem' = Worker
  BY <1>1 DEF WorkersOK
<1>3. ASSUME NEW v \in Worker
      PROVE  MemOK(mem'[v]) /\ At(pc'[v], mem'[v], There)
  BY <1>1 DEF WorkersOK
<1>4. ASSUME NEW s, NEW y, At(s, y, There) PROVE At(s, y, There')
  BY <1>4 DEF At
<1>5. \A v \in Worker : MemOK(mem'[v]) /\ At(pc'[v], mem'[v], There')
  BY <1>3, <1>4
<1>. QED  BY <1>2, <1>5 DEF WorkersOK

\* What is not set stays.
LEMMA BlankMem ==
  /\ DOMAIN Blank = {"listing", "todo", "fresh", "auto", "keys", "target", "back", "from",
                     "to", "entry", "inARow"}
  /\ MemOK(Blank)
<1>1. DOMAIN Blank = {"listing", "todo", "fresh", "auto", "keys", "target", "back", "from",
                      "to", "entry", "inARow"}
  BY DEF Blank
<1>2. IsMap(Blank.listing, Content) /\ IsMap(Blank.fresh, Entry)
  BY NoMap DEF Blank
<1>3. /\ Blank.todo = {} /\ Blank.keys = {} /\ Blank.target \in Folder /\ Blank.back = "save"
      /\ Blank.from = <<>> /\ Blank.inARow = 0
  BY DEF Blank, Folder
<1>4. 0 \in 0 .. GiveUpAfter - 1
  BY SMTT(30), MailboxAssumption
<1>. QED  BY <1>1, <1>2, <1>3, <1>4 DEF MemOK

LEMMA MemSet ==
  ASSUME NEW x, MemOK(x)
  PROVE  /\ \A l : IsMap(l, Content) => MemOK([x EXCEPT !.listing = l])
         /\ \A S \in SUBSET Key : MemOK([x EXCEPT !.todo = S])
         /\ \A S \in SUBSET Key : MemOK([x EXCEPT !.keys = S])
         /\ \A k \in Key \cup {<<>>} : MemOK([x EXCEPT !.from = k])
         /\ \A n \in 0 .. GiveUpAfter - 1 : MemOK([x EXCEPT !.inARow = n])
         /\ \A r : \A S \in SUBSET Key : IsMap(r, Entry) => MemOK([x EXCEPT !.todo = S, !.fresh = r])
         /\ \A h : \A S \in SUBSET Key : MemOK([x EXCEPT !.todo = S, !.auto = h])
         /\ \A S \in SUBSET Key, f \in Folder : MemOK([x EXCEPT !.keys = S, !.target = f])
         /\ \A S \in SUBSET Key, k \in Key : MemOK([x EXCEPT !.keys = S, !.from = k])
         /\ \A k, e : MemOK([x EXCEPT !.to = k, !.entry = e])
<1>. DOMAIN x = {"listing", "todo", "fresh", "auto", "keys", "target", "back", "from",
                 "to", "entry", "inARow"}
  BY BlankMem DEF MemOK
<1>1. \A l : IsMap(l, Content) => MemOK([x EXCEPT !.listing = l])
  BY DEF MemOK
<1>2. \A S \in SUBSET Key : MemOK([x EXCEPT !.todo = S])
  BY DEF MemOK
<1>3. \A S \in SUBSET Key : MemOK([x EXCEPT !.keys = S])
  BY DEF MemOK
<1>4. \A k \in Key \cup {<<>>} : MemOK([x EXCEPT !.from = k])
  BY DEF MemOK
<1>5. \A n \in 0 .. GiveUpAfter - 1 : MemOK([x EXCEPT !.inARow = n])
  BY DEF MemOK
<1>6. \A r : \A S \in SUBSET Key : IsMap(r, Entry) => MemOK([x EXCEPT !.todo = S, !.fresh = r])
  BY DEF MemOK
<1>7. \A h : \A S \in SUBSET Key : MemOK([x EXCEPT !.todo = S, !.auto = h])
  BY DEF MemOK
<1>8. \A S \in SUBSET Key, f \in Folder : MemOK([x EXCEPT !.keys = S, !.target = f])
  BY DEF MemOK
<1>9. \A S \in SUBSET Key, k \in Key : MemOK([x EXCEPT !.keys = S, !.from = k])
  BY DEF MemOK
<1>10. \A k, e : MemOK([x EXCEPT !.to = k, !.entry = e])
  BY DEF MemOK
<1>. QED  BY <1>1, <1>2, <1>3, <1>4, <1>5, <1>6, <1>7, <1>8, <1>9, <1>10

\* The steps that need nothing.
NeedsNothing == {"idle", "list", "compare", "plan", "rule", "pick", "purge", "save", "flush",
                 "put"}

LEMMA FreeSteps ==
  /\ \A step \in NeedsNothing : step \in PcType /\ \A x, there : At(step, x, there)
  /\ {"fetch", "copy", "delete", "reindex", "flag", "note", "forget", "drop", "dropped",
      "strike"} \subseteq PcType
BY DEF NeedsNothing, PcType, At, RefreshStep, BatchStep, DraftStep

\* One more failure.
LEMMA NotMovedGoes ==
  ASSUME WorkersOK, There \subseteq There', NEW w \in Worker, NotMoved(w)
  PROVE  WorkersOK'
<1>. DEFINE n == mem[w].inARow + 1
<1>1. MemOK(mem[w]) /\ mem[w].inARow \in 0 .. GiveUpAfter - 1 /\ GiveUpAfter \in Nat \ {0}
  BY MailboxAssumption DEF WorkersOK, MemOK
<1>2. CASE n >= GiveUpAfter
  <2>1. Goto(w, "save", Blank)
    BY <1>2 DEF NotMoved
  <2>. QED  BY <2>1, BlankMem, FreeSteps, WorkerGoes DEF NeedsNothing
<1>3. CASE ~ (n >= GiveUpAfter)
  <2>1. Goto(w, "pick", [mem[w] EXCEPT !.inARow = n])
    BY <1>3 DEF NotMoved
  <2>2. n \in 0 .. GiveUpAfter - 1
    BY SMTT(30), <1>1, <1>3
  <2>. HIDE DEF n
  <2>3. MemOK([mem[w] EXCEPT !.inARow = n])
    BY <1>1, <2>2, MemSet
  <2>. QED  BY <2>1, <2>3, FreeSteps, WorkerGoes DEF NeedsNothing
<1>. QED  BY <1>2, <1>3

LEMMA RefreshGoes ==
  ASSUME Shape, Next, NEW w \in Worker,
         List(w) \/ Compare(w) \/ Fetch(w) \/ Install(w)
  PROVE  WorkersOK'
<1>1. /\ WorkersOK /\ There \subseteq There' /\ MemOK(mem[w]) /\ At(pc[w], mem[w], There)
      /\ IsMap(bucket, Content) /\ IsMap(mem[w].listing, Content) /\ IsMap(mem[w].fresh, Entry)
      /\ mem[w].todo \subseteq Key
  BY Grows DEF Shape, WorkersOK, BucketOK, MemOK
<1>2. ASSUME End(w) PROVE WorkersOK'
  BY <1>1, <1>2, BlankMem, FreeSteps, WorkerGoes DEF NeedsNothing, End
<1>3. CASE List(w)
  <2>1. Goto(w, "compare", [Blank EXCEPT !.listing = bucket]) \/ End(w)
    BY SMTT(30), <1>3 DEF List
  <2>2. MemOK([Blank EXCEPT !.listing = bucket])
    BY <1>1, BlankMem, MemSet
  <2>. QED  BY <1>1, <1>2, <2>1, <2>2, FreeSteps, WorkerGoes DEF NeedsNothing
<1>4. CASE Compare(w)
  <2>. DEFINE S == ToFetch(Index(w), mem[w].listing)
              x == [mem[w] EXCEPT !.todo = S]
  <2>1. Goto(w, "fetch", x)
    BY <1>4 DEF Compare
  <2>2. S \subseteq DOMAIN mem[w].listing /\ S \subseteq Key
    BY SMTT(30), <1>1 DEF ToFetch, IsMap
  <2>. HIDE DEF S
  <2>3. MemOK(x)
    BY <1>1, <2>2, MemSet
  <2>4. x.todo = S /\ x.listing = mem[w].listing
    BY <1>1, BlankMem DEF MemOK
  <2>. HIDE DEF x
  <2>5. At("fetch", x, There)
    BY <2>2, <2>4 DEF At
  <2>. QED  BY <1>1, <2>1, <2>3, <2>5, FreeSteps, WorkerGoes
<1>5. CASE Fetch(w)
  <2>. DEFINE k == CHOOSE k \in mem[w].todo : TRUE
              S == mem[w].todo \ {k}
              Added(what) == Set(mem[w].fresh, k, [etag |-> mem[w].listing[k], shows |-> what])
              x(what) == [mem[w] EXCEPT !.todo = S, !.fresh = Added(what)]
  <2>1. pc[w] = "fetch" /\ mem[w].todo # {}
    BY SMTT(30), <1>5 DEF Fetch
  <2>2. PICK what : /\ Goto(w, "fetch", x(what))
                    /\ \/ what = IF k \in DOMAIN bucket THEN bucket[k] ELSE Unreadable
                       \/ what = Unreadable
    BY <1>5 DEF Fetch
  <2>3. k \in mem[w].todo
    BY <2>1
  <2>. HIDE DEF k
  <2>4. what \in Content \cup {Unreadable}
    BY <1>1, <2>2 DEF IsMap
  <2>5. k \in DOMAIN mem[w].listing /\ k \in Key /\ mem[w].listing[k] \in Content
    BY <1>1, <2>1, <2>3 DEF At, IsMap
  <2>6. [etag |-> mem[w].listing[k], shows |-> what] \in Entry
    BY <2>4, <2>5 DEF Entry
  <2>7. IsMap(Added(what), Entry)
    BY <1>1, <2>5, <2>6, SetMap
  <2>8. S \subseteq Key /\ S \subseteq mem[w].todo
    BY <1>1
  <2>. HIDE DEF S, Added
  <2>9. MemOK(x(what))
    BY <1>1, <2>7, <2>8, MemSet
  <2>10. x(what).todo = S /\ x(what).listing = mem[w].listing
    BY <1>1, BlankMem DEF MemOK
  <2>11. mem[w].todo \subseteq DOMAIN mem[w].listing
    BY <1>1, <2>1 DEF At
  <2>. HIDE DEF x
  <2>12. At("fetch", x(what), There)
    BY <2>8, <2>10, <2>11 DEF At
  <2>. QED  BY <1>1, <2>2, <2>9, <2>12, FreeSteps, WorkerGoes
<1>6. CASE Install(w)
  <2>1. Goto(w, "plan", Blank) \/ End(w)
    BY <1>6 DEF Install
  <2>. QED  BY <1>1, <1>2, <2>1, BlankMem, FreeSteps, WorkerGoes DEF NeedsNothing
<1>. QED  BY <1>3, <1>4, <1>5, <1>6

LEMMA RulesGo ==
  ASSUME Shape, Next, NEW w \in Worker,
         Plan(w) \/ Rule(w) \/ RulesDone(w) \/ Save(w) \/ MoveDone(w)
  PROVE  WorkersOK'
<1>1. /\ WorkersOK /\ There \subseteq There' /\ MemOK(mem[w])
      /\ IsMap(Index(w), Entry) /\ mem[w].todo \subseteq Key
      /\ mem[w].back \in {"save", "rule"}
  BY Grows DEF Shape, WorkersOK, IndexOK, Index, MemOK
<1>2. ASSUME End(w) PROVE WorkersOK'
  BY <1>1, <1>2, BlankMem, FreeSteps, WorkerGoes DEF NeedsNothing, End
<1>3. CASE Plan(w)
  <2>. DEFINE pool == {k \in DOMAIN Index(w) : NotYetRuled(w, Mid(k))}
  <2>1. End(w) \/ \E hit : Goto(w, "rule", [Blank EXCEPT !.todo = pool, !.auto = hit])
    BY <1>3 DEF Plan
  <2>2. pool \subseteq Key
    BY SMTT(30), <1>1 DEF IsMap
  <2>. HIDE DEF pool
  <2>3. \A hit : MemOK([Blank EXCEPT !.todo = pool, !.auto = hit])
    BY <2>2, BlankMem, MemSet
  <2>. QED  BY <1>1, <1>2, <2>1, <2>3, FreeSteps, WorkerGoes DEF NeedsNothing
<1>4. CASE Rule(w)
  <2>. DEFINE k == CHOOSE k \in mem[w].todo : TRUE
              x == [mem[w] EXCEPT !.todo = @ \ {k}]
              y == [x EXCEPT !.keys = {k}, !.target = RuleTarget, !.back = "rule", !.inARow = 0]
  <2>1. mem[w].todo # {} /\ (Goto(w, "pick", y) \/ Goto(w, "rule", x))
    BY <1>4 DEF Rule
  <2>2. k \in mem[w].todo /\ k \in Key
    BY SMTT(30), <1>1, <2>1
  <2>. HIDE DEF k
  <2>3. MemOK(x)
    BY <1>1, MemSet
  <2>. HIDE DEF x
  <2>4. RuleTarget \in Folder /\ 0 \in 0 .. GiveUpAfter - 1
    BY MailboxAssumption DEF RuleTarget, Folder
  <2>5. DOMAIN x = {"listing", "todo", "fresh", "auto", "keys", "target", "back", "from",
                    "to", "entry", "inARow"}
    BY <2>3, BlankMem DEF MemOK
  <2>6. MemOK(y)
    BY <2>2, <2>3, <2>4, <2>5 DEF MemOK
  <2>. HIDE DEF y
  <2>. QED  BY <1>1, <2>1, <2>3, <2>6, FreeSteps, WorkerGoes DEF NeedsNothing
<1>5. CASE RulesDone(w)
  <2>1. Goto(w, "flush", Blank)
    BY <1>5 DEF RulesDone
  <2>. QED  BY <1>1, <2>1, BlankMem, FreeSteps, WorkerGoes DEF NeedsNothing
<1>6. CASE Save(w)
  BY <1>2, <1>6 DEF Save
<1>7. CASE MoveDone(w)
  <2>1. Goto(w, mem[w].back, mem[w])
    BY <1>7 DEF MoveDone
  <2>. QED  BY <1>1, <2>1, FreeSteps, WorkerGoes DEF NeedsNothing
<1>. QED  BY <1>3, <1>4, <1>5, <1>6, <1>7

\* The name a message is to get: another folder, the same message.
LEMMA PickGoes ==
  ASSUME Shape, Next, NEW w \in Worker, Pick(w) PROVE WorkersOK'
<1>1. /\ WorkersOK /\ There \subseteq There' /\ MemOK(mem[w]) /\ IsMap(Index(w), Entry)
      /\ mem[w].keys \subseteq Key /\ mem[w].target \in Folder
  BY Grows DEF Shape, WorkersOK, IndexOK, Index, MemOK
<1>. DEFINE k == CHOOSE k \in mem[w].keys : TRUE
            x == [mem[w] EXCEPT !.keys = @ \ {k}]
            y == [x EXCEPT !.from = k, !.entry = Index(w)[k],
                           !.to = FreeKey(Index(w), Mid(k), mem[w].target)]
<1>2. /\ mem[w].keys # {}
      /\ IF k \notin DOMAIN Index(w) \/ FolderOf(k) = mem[w].target
         THEN Goto(w, "pick", x) ELSE Goto(w, "copy", y)
  BY DEF Pick
<1>3. k \in Key
  BY SMTT(30), <1>1, <1>2
<1>. HIDE DEF k
<1>4. MemOK(x)
  BY <1>1, MemSet
<1>5. CASE k \notin DOMAIN Index(w) \/ FolderOf(k) = mem[w].target
  <2>. HIDE DEF x
  <2>. QED  BY <1>1, <1>2, <1>4, <1>5, FreeSteps, WorkerGoes DEF NeedsNothing
<1>6. CASE ~ (k \notin DOMAIN Index(w) \/ FolderOf(k) = mem[w].target)
  <2>. DEFINE to == FreeKey(Index(w), Mid(k), mem[w].target)
  <2>1. Goto(w, "copy", y) /\ k \in DOMAIN Index(w) /\ FolderOf(k) # mem[w].target
    BY <1>2, <1>6
  <2>2. /\ to \in Key /\ FolderOf(to) = mem[w].target
        /\ ContentOf(Mid(to)) = ContentOf(Mid(k))
    BY <1>1, <1>3, KeyParts, FreeKeyIsFree
  <2>3. Index(w)[k] \in Entry
    BY <1>1, <2>1 DEF IsMap
  <2>. HIDE DEF to, x
  <2>4. DOMAIN x = {"listing", "todo", "fresh", "auto", "keys", "target", "back", "from",
                    "to", "entry", "inARow"}
    BY <1>4, BlankMem DEF MemOK
  <2>5. y = [x EXCEPT !.from = k, !.entry = Index(w)[k], !.to = to]
    BY DEF to
  <2>. HIDE DEF y
  <2>6. MemOK(y)
    BY <1>3, <1>4, <2>4, <2>5 DEF MemOK
  <2>7. y.from = k /\ y.to = to /\ y.entry = Index(w)[k]
    BY <2>4, <2>5
  <2>8. At("copy", y, There)
    BY <1>3, <2>1, <2>2, <2>3, <2>7 DEF At
  <2>. QED  BY <1>1, <2>1, <2>6, <2>8, FreeSteps, WorkerGoes
<1>. QED  BY <1>5, <1>6

LEMMA MoveGoes ==
  ASSUME Shape, Next, NEW w \in Worker, Copy(w) \/ Delete(w) \/ Reindex(w)
  PROVE  WorkersOK'
<1>1. /\ WorkersOK /\ There \subseteq There' /\ MemOK(mem[w]) /\ At(pc[w], mem[w], There)
      /\ BucketOK
  BY Grows DEF Shape, WorkersOK
<1>2. ASSUME NotMoved(w) PROVE WorkersOK'
  BY <1>1, <1>2, NotMovedGoes
<1>3. CASE Copy(w)
  <2>1. /\ pc[w] = "copy"
        /\ \/ mem[w].from \in DOMAIN bucket /\ Goto(w, "delete", mem[w])
           \/ NotMoved(w)
    BY <1>3 DEF Copy
  <2>2. ASSUME mem[w].from \in DOMAIN bucket PROVE At("delete", mem[w], There)
    BY <1>1, <2>1, <2>2 DEF At, BucketOK
  <2>. QED  BY <1>1, <1>2, <2>1, <2>2, FreeSteps, WorkerGoes
<1>4. CASE Delete(w)
  <2>1. pc[w] = "delete" /\ (Goto(w, "reindex", mem[w]) \/ NotMoved(w))
    BY <1>4 DEF Delete
  <2>2. At("reindex", mem[w], There)
    BY <1>1, <2>1 DEF At
  <2>. QED  BY <1>1, <1>2, <2>1, <2>2, FreeSteps, WorkerGoes
<1>5. CASE Reindex(w)
  <2>1. Goto(w, "pick", [mem[w] EXCEPT !.inARow = 0])
    BY SMTT(30), <1>5 DEF Reindex
  <2>2. MemOK([mem[w] EXCEPT !.inARow = 0])
    <3>1. 0 \in 0 .. GiveUpAfter - 1
      BY MailboxAssumption
    <3>. QED  BY <1>1, <3>1, MemSet
  <2>. QED  BY <1>1, <2>1, <2>2, FreeSteps, WorkerGoes DEF NeedsNothing
<1>. QED  BY <1>3, <1>4, <1>5

LEMMA PurgeGoes ==
  ASSUME Shape, Next, NEW w \in Worker, PurgeOne(w) \/ Forget(w) \/ PurgeDone(w)
  PROVE  WorkersOK'
<1>1. /\ WorkersOK /\ There \subseteq There' /\ MemOK(mem[w]) /\ mem[w].keys \subseteq Key
  BY Grows DEF Shape, WorkersOK, MemOK
<1>2. ASSUME Goto(w, "save", Blank) PROVE WorkersOK'
  BY <1>1, <1>2, BlankMem, FreeSteps, WorkerGoes DEF NeedsNothing
<1>3. CASE PurgeOne(w)
  <2>. DEFINE k == CHOOSE k \in mem[w].keys : TRUE
              S == mem[w].keys \ {k}
              x == [mem[w] EXCEPT !.keys = S, !.from = k]
  <2>1. mem[w].keys # {} /\ (Goto(w, "forget", x) \/ Goto(w, "save", Blank))
    BY <1>3 DEF PurgeOne
  <2>2. k \in Key /\ S \in SUBSET Key
    BY SMTT(30), <1>1, <2>1
  <2>. HIDE DEF k, S
  <2>3. MemOK(x)
    BY <1>1, <2>2, MemSet
  <2>4. x.from = k
    BY <1>1, BlankMem DEF MemOK
  <2>. HIDE DEF x
  <2>5. At("forget", x, There)
    BY <2>2, <2>4 DEF At
  <2>. QED  BY <1>1, <1>2, <2>1, <2>3, <2>5, FreeSteps, WorkerGoes
<1>4. CASE Forget(w)
  <2>1. Goto(w, "purge", [mem[w] EXCEPT !.from = <<>>])
    BY SMTT(30), <1>4 DEF Forget
  <2>2. MemOK([mem[w] EXCEPT !.from = <<>>])
    BY <1>1, MemSet
  <2>. QED  BY <1>1, <2>1, <2>2, FreeSteps, WorkerGoes DEF NeedsNothing
<1>5. CASE PurgeDone(w)
  BY <1>2, <1>5 DEF PurgeDone
<1>. QED  BY <1>3, <1>4, <1>5

LEMMA DraftGoes ==
  ASSUME Shape, Next, NEW w \in Worker,
         \/ Put(w) \/ Flag(w) \/ Note(w) \/ DropObject(w) \/ Dropped(w) \/ Strike(w)
  PROVE  WorkersOK'
<1>1. /\ WorkersOK /\ There \subseteq There' /\ MemOK(mem[w]) /\ At(pc[w], mem[w], There)
      /\ mem[w].from \in Key \cup {<<>>}
  BY Grows DEF Shape, WorkersOK, MemOK
<1>2. ASSUME End(w) PROVE WorkersOK'
  BY <1>1, <1>2, BlankMem, FreeSteps, WorkerGoes DEF NeedsNothing, End
<1>3. CASE Put(w)
  <2>. DEFINE e == [etag |-> NoETag, shows |-> Draft(saves')]
              x == [mem[w] EXCEPT !.to = DraftKey(saves'), !.entry = e]
  <2>1. /\ saves' = saves + 1 /\ saves < MaxSaves
        /\ Goto(w, "flag", x) \/ End(w)
    BY <1>3 DEF Put
  <2>2. saves' \in 1 .. MaxSaves
    BY <2>1, MailboxAssumption DEF Shape, TallyOK
  <2>3. DraftKey(saves') \in Key /\ e \in Entry
    BY SMTT(30), <2>2, FirstKeys DEF Entry, Content
  <2>. HIDE DEF e
  <2>4. MemOK(x)
    BY <1>1, MemSet
  <2>5. x.to = DraftKey(saves') /\ x.entry = e
    BY <1>1, BlankMem DEF MemOK
  <2>. HIDE DEF x
  <2>6. At("flag", x, There)
    BY <2>3, <2>5 DEF At
  <2>. QED  BY <1>1, <1>2, <2>1, <2>4, <2>6, FreeSteps, WorkerGoes
<1>4. CASE Flag(w)
  <2>1. Goto(w, "note", mem[w]) /\ pc[w] = "flag"
    BY <1>4 DEF Flag
  <2>2. At("note", mem[w], There)
    BY <1>1, <2>1 DEF At
  <2>. QED  BY <1>1, <2>1, <2>2, FreeSteps, WorkerGoes
<1>5. CASE Note(w)
  <2>. DEFINE x == [Blank EXCEPT !.from = mem[w].from]
  <2>1. IF mem[w].from = <<>> THEN End(w) ELSE Goto(w, "drop", x)
    BY SMTT(30), <1>5 DEF Note
  <2>2. MemOK(x)
    BY <1>1, BlankMem, MemSet
  <2>3. x.from = mem[w].from
    BY BlankMem
  <2>. HIDE DEF x
  <2>4. mem[w].from # <<>> => At("drop", x, There)
    BY <1>1, <2>3 DEF At
  <2>. QED  BY <1>1, <1>2, <2>1, <2>2, <2>4, FreeSteps, WorkerGoes
<1>6. CASE DropObject(w) \/ Dropped(w)
  <2>1. PICK step \in {"dropped", "strike"} :
          pc[w] \in {"drop", "dropped"} /\ (Goto(w, step, mem[w]) \/ End(w))
    BY <1>6 DEF DropObject, Dropped
  <2>2. At(step, mem[w], There)
    BY <1>1, <2>1 DEF At
  <2>. QED  BY <1>1, <1>2, <2>1, <2>2, FreeSteps, WorkerGoes
<1>7. CASE Strike(w)
  BY <1>2, <1>7 DEF Strike
<1>. QED  BY <1>3, <1>4, <1>5, <1>6, <1>7

LEMMA BeginGoes ==
  ASSUME Shape, Next, NEW w \in Worker,
         \/ Refresh(w) \/ SaveDraft(w) \/ DropDraft(w)
         \/ \E K \in SUBSET InTrash(w) : Purge(w, K)
         \/ \E K \in SUBSET DOMAIN Index(w) : \E f \in Folder \ {Drafts} : Move(w, K, f)
  PROVE  WorkersOK'
<1>1. /\ WorkersOK /\ There \subseteq There' /\ IsMap(Index(w), Entry)
      /\ saves \in 0 .. MaxSaves /\ arrived \subseteq There
  BY Grows DEF Shape, WorkersOK, IndexOK, Index, TallyOK
<1>2. \A k \in OldDrafts(w) : k \in Key
  <2>1. 1 .. saves \subseteq 1 .. MaxSaves
    BY <1>1, MailboxAssumption
  <2>. QED  BY <2>1, FirstKeys DEF OldDrafts
<1>3. \A k \in InTrash(w) : k \in Key
  <2>1. \A c \in arrived : KeyFor(BaseName(c), Trash) \in Key
    <3>1. 1 .. saves \subseteq 1 .. MaxSaves /\ Trash \in Folder
      BY <1>1, MailboxAssumption DEF Folder
    <3>2. \A c \in arrived : c \in Message \/ \E n \in 1 .. saves : c = Draft(n)
      BY <1>1 DEF There
    <3>3. \A c \in arrived : BaseName(c) \in Name
      BY <3>1, <3>2, FirstNames
    <3>. QED  BY <3>1, <3>3, KeyParts
  <2>. QED  BY <1>1, <2>1 DEF InTrash, IsMap
<1>4. CASE Refresh(w)
  <2>1. Goto(w, "list", Blank)
    BY <1>4 DEF Refresh, Begin
  <2>. QED  BY <1>1, <2>1, BlankMem, FreeSteps, WorkerGoes DEF NeedsNothing
<1>5. CASE SaveDraft(w)
  <2>1. PICK old \in {<<>>} \cup OldDrafts(w) : Goto(w, "put", [Blank EXCEPT !.from = old])
    BY <1>5 DEF SaveDraft, Begin
  <2>2. MemOK([Blank EXCEPT !.from = old])
    BY <1>2, BlankMem, MemSet
  <2>. QED  BY <1>1, <2>1, <2>2, FreeSteps, WorkerGoes DEF NeedsNothing
<1>6. CASE DropDraft(w)
  <2>1. PICK k \in OldDrafts(w) : Goto(w, "drop", [Blank EXCEPT !.from = k])
    BY SMTT(30), <1>6 DEF DropDraft, Begin
  <2>. DEFINE x == [Blank EXCEPT !.from = k]
  <2>2. MemOK(x) /\ k \in Key
    BY <1>2, BlankMem, MemSet
  <2>3. x.from = k
    BY BlankMem
  <2>4. Goto(w, "drop", x)
    BY <2>1
  <2>. HIDE DEF x
  <2>5. At("drop", x, There)
    BY <2>2, <2>3 DEF At
  <2>. QED  BY <1>1, <2>2, <2>4, <2>5, FreeSteps, WorkerGoes
<1>7. ASSUME NEW K \in SUBSET InTrash(w), Purge(w, K) PROVE WorkersOK'
  <2>1. Goto(w, "purge", [Blank EXCEPT !.keys = K])
    BY <1>7 DEF Purge, Begin
  <2>2. K \in SUBSET Key
    BY SMTT(30), <1>3
  <2>3. MemOK([Blank EXCEPT !.keys = K])
    BY <2>2, BlankMem, MemSet
  <2>. QED  BY <1>1, <2>1, <2>3, FreeSteps, WorkerGoes DEF NeedsNothing
<1>8. ASSUME NEW K \in SUBSET DOMAIN Index(w), NEW f \in Folder, Move(w, K, f)
      PROVE  WorkersOK'
  <2>1. Goto(w, "pick", [Blank EXCEPT !.keys = K, !.target = f])
    BY <1>8 DEF Move, Begin
  <2>2. K \in SUBSET Key
    BY SMTT(30), <1>1 DEF IsMap
  <2>3. MemOK([Blank EXCEPT !.keys = K, !.target = f])
    BY <2>2, BlankMem, MemSet
  <2>. QED  BY <1>1, <2>1, <2>3, FreeSteps, WorkerGoes DEF NeedsNothing
<1>. QED  BY <1>4, <1>5, <1>6, <1>7, <1>8

LEMMA WorkersNext == ASSUME Shape, Next PROVE WorkersOK'
<1>1. WorkersOK /\ There \subseteq There'
  BY Grows DEF Shape
<1>2. ASSUME NEW c \in Message, Deliver(c) PROVE WorkersOK'
  <2>1. pc' = pc /\ mem' = mem
    BY <1>2 DEF Deliver
  <2>2. \A w \in Worker : At(pc[w], mem[w], There')
    BY <1>1 DEF WorkersOK, At
  <2>. QED  BY <1>1, <2>1, <2>2 DEF WorkersOK
<1>3. ASSUME NEW m \in Machine, Crash(m) PROVE WorkersOK'
  <2>. DEFINE Here == {w \in Worker : host[w] = m}
  <2>1. /\ pc' = [w \in Worker |-> IF w \in Here THEN "idle" ELSE pc[w]]
        /\ mem' = [w \in Worker |-> IF w \in Here THEN Blank ELSE mem[w]]
    BY <1>3 DEF Crash
  <2>. HIDE DEF Here
  <2>2. "idle" \in PcType /\ MemOK(Blank) /\ \A there : At("idle", Blank, there)
    BY BlankMem, FreeSteps DEF NeedsNothing
  <2>3. \A w \in Worker : At(pc[w], mem[w], There')
    BY <1>1 DEF WorkersOK, At
  <2>4. pc' \in [Worker -> PcType] /\ DOMAIN mem' = Worker
    BY <1>1, <2>1, <2>2 DEF WorkersOK
  <2>5. \A w \in Worker : MemOK(mem'[w]) /\ At(pc'[w], mem'[w], There')
    BY <1>1, <2>1, <2>2, <2>3 DEF WorkersOK
  <2>. QED  BY <2>4, <2>5 DEF WorkersOK
<1>. QED  BY <1>2, <1>3, RefreshGoes, RulesGo, PickGoes, MoveGoes, PurgeGoes, DraftGoes,
     BeginGoes DEF Next, Step

-----------------------------------------------------------------------------
(* The invariant.                                                            *)

LEMMA InitShape == ASSUME Init PROVE Shape /\ Kept
<1>1. Old \in Message /\ Old \in Content
  BY MailboxAssumption DEF Content
<1>2. /\ Home(Old) \in Key /\ ContentOf(Mid(Home(Old))) = Old /\ <<Old>> \in Name
  <2>1. BaseName(Old) = <<Old>> /\ BaseName(Old) \in Name
    BY <1>1, FirstNames DEF BaseName
  <2>. QED  BY <1>1, <2>1, FirstKeys
<1>. DEFINE b == [k \in {Home(Old)} |-> Old]
            i == [k \in {Home(Old)} |-> [etag |-> Old, shows |-> Old]]
<1>3. IsMap(b, Content) /\ IsMap(i, Entry)
  <2>1. DOMAIN b = {Home(Old)} /\ DOMAIN i = {Home(Old)} /\ IsFiniteSet({Home(Old)})
    BY FS_Singleton
  <2>2. [etag |-> Old, shows |-> Old] \in Entry
    BY <1>1 DEF Entry
  <2>. QED  BY <1>1, <1>2, <2>1, <2>2 DEF IsMap
<1>4. bucket = b /\ arrived = {Old} /\ saves = 0
  BY DEF Init
<1>5. Old \in There
  BY <1>1, <1>4 DEF There
<1>6. BucketOK
  <2>1. IsMap(bucket, Content)
    BY <1>3, <1>4
  <2>2. \A k \in DOMAIN bucket : bucket[k] = ContentOf(Mid(k)) /\ bucket[k] \in There
    BY <1>2, <1>4, <1>5
  <2>. QED  BY <2>1, <2>2 DEF BucketOK
<1>7. IndexOK
  <2>1. host \in [Worker -> Machine] /\ index = [m \in Machine |-> i] /\ disk = index
    BY DEF Init
  <2>. HIDE DEF i
  <2>. QED  BY <1>3, <2>1 DEF IndexOK
<1>8. StateOK
  <2>1. PICK r \in BOOLEAN : doc = [mid \in {<<Old>>} |-> [marks |-> TRUE, ruled |-> r]]
    BY DEF Init
  <2>2. IsDoc(doc)
    BY <1>2, <2>1 DEF IsDoc, StateType
  <2>3. view = [m \in Machine |-> doc] /\ pend = [m \in Machine |-> <<>>]
    BY DEF Init
  <2>. HIDE DEF IsDoc
  <2>. QED  BY <2>2, <2>3 DEF StateOK
<1>9. TallyOK
  <2>1. /\ saves \in 0 .. MaxSaves /\ ops \in 0 .. MaxOp /\ spent \in 0 .. MaxFault
        /\ filed \in [Message -> Nat]
    BY MailboxAssumption DEF Init
  <2>2. /\ failed = {} /\ destroyed = {} /\ bare = {} /\ calm = {}
        /\ overlap = FALSE /\ crossed = FALSE
    BY DEF Init
  <2>3. arrived \subseteq There
    BY <1>4, <1>5
  <2>. QED  BY <2>1, <2>2, <2>3 DEF TallyOK
<1>10. WorkersOK
  <2>1. pc = [w \in Worker |-> "idle"] /\ mem = [w \in Worker |-> Blank]
    BY DEF Init
  <2>. QED  BY <2>1, BlankMem, FreeSteps DEF WorkersOK, NeedsNothing
<1>11. Kept
  <2>1. pc = [w \in Worker |-> "idle"]
    BY DEF Init
  <2>. QED  BY <1>4, <2>1 DEF Kept, Doomed
<1>. QED  BY <1>6, <1>7, <1>8, <1>9, <1>10, <1>11 DEF Shape

LEMMA ShapeNext == ASSUME Shape, [Next]_vars PROVE Shape'
<1>1. CASE Next
  BY <1>1, BucketNext, IndexNext, StateNext, TallyNext, WorkersNext DEF Shape
<1>2. CASE UNCHANGED vars
  <2>1. /\ bucket' = bucket /\ doc' = doc /\ host' = host /\ index' = index /\ disk' = disk
        /\ view' = view /\ pend' = pend /\ pc' = pc /\ mem' = mem /\ saves' = saves
        /\ ops' = ops /\ spent' = spent /\ failed' = failed /\ arrived' = arrived
        /\ destroyed' = destroyed /\ bare' = bare /\ filed' = filed /\ overlap' = overlap
        /\ crossed' = crossed /\ calm' = calm
    BY <1>2 DEF vars, shared, local, tally, history
  <2>2. There' = There
    BY <2>1 DEF There
  <2>3. BucketOK'
    BY <2>1, <2>2, BucketSame DEF Shape
  <2>4. IndexOK' /\ StateOK'
    BY <2>1 DEF Shape, IndexOK, StateOK
  <2>5. TallyOK'
    BY <2>1, <2>2 DEF Shape, TallyOK
  <2>6. WorkersOK'
    BY <2>1, <2>2 DEF Shape, WorkersOK
  <2>. QED  BY <2>3, <2>4, <2>5, <2>6 DEF Shape
<1>. QED  BY <1>1, <1>2

-----------------------------------------------------------------------------
(* Type correctness.                                                         *)

LEMMA ShapeIsType == ASSUME Shape PROVE TypeOK
<1>1. \A k \in DOMAIN bucket : IsKey(k) /\ bucket[k] \in Content
  BY KeyParts DEF Shape, BucketOK, IsMap
<1>2. \A d \in {doc} \cup Range(view) :
        \A mid \in DOMAIN d : IsMid(mid) /\ d[mid] \in StateType
  <2>1. \A mid \in Name : IsMid(mid)
    BY DEF Name
  <2>2. \A d \in {doc} \cup Range(view) : IsDoc(d)
    BY DEF Shape, StateOK, Range
  <2>. QED  BY <2>1, <2>2 DEF IsDoc
<1>3. \A i \in Range(index) \cup Range(disk) : \A k \in DOMAIN i :
        /\ IsKey(k) /\ i[k].etag \in Content \cup {NoETag}
        /\ i[k].shows \in Content \cup {Unreadable}
  <2>1. \A i \in Range(index) \cup Range(disk) : IsMap(i, Entry)
    BY DEF Shape, IndexOK, Range
  <2>. QED  BY <2>1, KeyParts DEF IsMap, Entry
<1>4. /\ pc \in [Worker -> {"idle"} \cup RefreshStep \cup BatchStep \cup DraftStep]
      /\ host \in [Worker -> Machine]
  BY DEF Shape, WorkersOK, IndexOK, PcType
<1>5. \A w \in Worker :
        /\ DOMAIN mem[w] = DOMAIN Blank
        /\ \A k \in mem[w].todo \cup mem[w].keys : IsKey(k)
        /\ mem[w].inARow \in 0 .. GiveUpAfter - 1
        /\ pc[w] \in {"copy", "delete", "reindex"} =>
             /\ IsKey(mem[w].from) /\ IsKey(mem[w].to)
             /\ FolderOf(mem[w].from) # FolderOf(mem[w].to)
  <2>. SUFFICES ASSUME NEW w \in Worker
                PROVE  /\ DOMAIN mem[w] = DOMAIN Blank
                       /\ \A k \in mem[w].todo \cup mem[w].keys : IsKey(k)
                       /\ mem[w].inARow \in 0 .. GiveUpAfter - 1
                       /\ pc[w] \in {"copy", "delete", "reindex"} =>
                            /\ IsKey(mem[w].from) /\ IsKey(mem[w].to)
                            /\ FolderOf(mem[w].from) # FolderOf(mem[w].to)
    OBVIOUS
  <2>1. MemOK(mem[w]) /\ At(pc[w], mem[w], There)
    BY DEF Shape, WorkersOK
  <2>2. /\ DOMAIN mem[w] = DOMAIN Blank /\ mem[w].inARow \in 0 .. GiveUpAfter - 1
        /\ \A k \in mem[w].todo \cup mem[w].keys : IsKey(k)
    BY <2>1, KeyParts DEF MemOK
  <2>3. pc[w] \in {"copy", "delete", "reindex"} =>
             /\ IsKey(mem[w].from) /\ IsKey(mem[w].to)
             /\ FolderOf(mem[w].from) # FolderOf(mem[w].to)
    BY <2>1, KeyParts DEF At
  <2>. QED  BY <2>2, <2>3
<1>6. arrived \subseteq Content /\ \A mid \in bare : IsMid(mid)
  <2>1. 1 .. saves \subseteq 1 .. MaxSaves
    BY MailboxAssumption DEF Shape, TallyOK
  <2>2. There \subseteq Content
    BY <2>1 DEF There, Content
  <2>3. arrived \subseteq There /\ bare \subseteq Name
    BY DEF Shape, TallyOK
  <2>. QED  BY <2>2, <2>3 DEF Name
<1>. QED  BY <1>1, <1>2, <1>3, <1>4, <1>5, <1>6 DEF TypeOK, Shape, TallyOK

\* Every step keeps keys, entries, marks and what workers hold on to in their
\* types; a move is always between two folders (mail.go: Move, freeKey, Delete,
\* Refresh, ApplyRules).
THEOREM TypeCorrect == Spec => []TypeOK
<1>1. Init => Shape
  BY InitShape
<1>2. Shape /\ [Next]_vars => Shape'
  BY ShapeNext
<1>3. Shape => TypeOK
  BY ShapeIsType
<1>. QED  BY <1>1, <1>2, <1>3, PTL DEF Spec

-----------------------------------------------------------------------------
(* Nothing is lost.                                                          *)

\* Where a message lies safely it stays safe, unless a move sets out to delete it.
LEMMA StaysSafe ==
  ASSUME NEW k, ~ Doomed(k),
         \A v \in Worker : pc'[v] = "delete" => pc[v] = "delete" /\ mem'[v].from = mem[v].from
  PROVE  ~ Doomed(k)'
BY DEF Doomed

\* Only a copy that succeeds sets out to delete.
LEMMA NoNewDoom ==
  ASSUME WorkersOK, NEW w \in Worker, NEW step, NEW x, Goto(w, step, x), step # "delete"
  PROVE  \A v \in Worker : pc'[v] = "delete" => pc[v] = "delete" /\ mem'[v].from = mem[v].from
<1>1. pc' = [pc EXCEPT ![w] = step] /\ mem' = [mem EXCEPT ![w] = x]
  BY DEF Goto
<1>. QED  BY <1>1 DEF WorkersOK

LEMMA NotMovedDoom ==
  ASSUME WorkersOK, NEW w \in Worker, NotMoved(w)
  PROVE  \A v \in Worker : pc'[v] = "delete" => pc[v] = "delete" /\ mem'[v].from = mem[v].from
<1>1. \E x : Goto(w, "save", x) \/ Goto(w, "pick", x)
  BY DEF NotMoved
<1>. QED  BY <1>1, NoNewDoom

\* What the bucket holds after an object is stored, or one is deleted.
LEMMA Stored ==
  ASSUME BucketOK, NEW k \in Key, NEW v \in Content, bucket' = Set(bucket, k, v)
  PROVE  /\ DOMAIN bucket' = DOMAIN bucket \cup {k} /\ bucket'[k] = v
         /\ \A j \in DOMAIN bucket \ {k} : bucket'[j] = bucket[j]
<1>1. IsMap(bucket, Content)
  BY DEF BucketOK
<1>. QED  BY SMTT(30), <1>1, SetMap

LEMMA Deleted ==
  ASSUME BucketOK, NEW k, bucket' = Without(bucket, {k})
  PROVE  /\ DOMAIN bucket' = DOMAIN bucket \ {k}
         /\ \A j \in DOMAIN bucket \ {k} : bucket'[j] = bucket[j]
<1>1. IsMap(bucket, Content)
  BY DEF BucketOK
<1>. QED  BY ZenonT(30), <1>1, WithoutMap

LEMMA DeliverKeeps ==
  ASSUME Shape, Kept, Next, NEW c0 \in Message, Deliver(c0) PROVE Kept'
<1>1. /\ c0 \notin arrived /\ arrived' = arrived \cup {c0} /\ bucket' = Set(bucket, Home(c0), c0)
      /\ destroyed' = destroyed /\ crossed' = crossed /\ pc' = pc /\ mem' = mem
  BY DEF Deliver
<1>2. Home(c0) \in Key /\ ContentOf(Mid(Home(c0))) = c0
  BY FirstKeys
<1>3. /\ DOMAIN bucket' = DOMAIN bucket \cup {Home(c0)} /\ bucket'[Home(c0)] = c0
      /\ \A j \in DOMAIN bucket \ {Home(c0)} : bucket'[j] = bucket[j]
  <2>1. BucketOK /\ c0 \in Content
    BY DEF Shape, Content
  <2>. QED  BY <1>1, <1>2, <2>1, Stored
<1>4. c0 \notin There
  <2>1. 1 .. saves \subseteq 1 .. MaxSaves
    BY MailboxAssumption DEF Shape, TallyOK
  <2>2. \A n \in 1 .. saves : Draft(n) # c0
    BY <2>1, MailboxAssumption DEF Draft
  <2>. QED  BY <1>1, <2>2 DEF There
<1>5. ~ Doomed(Home(c0))'
  <2>1. \A w \in Worker : pc[w] = "delete" => ContentOf(Mid(mem[w].from)) \in There
    BY DEF Shape, WorkersOK, At
  <2>. QED  BY <1>1, <1>2, <1>4, <2>1 DEF Doomed
<1>6. \A k : ~ Doomed(k) => ~ Doomed(k)'
  BY <1>1 DEF Doomed
<1>7. ASSUME NEW c \in arrived \ destroyed, NEW k \in DOMAIN bucket, bucket[k] = c
      PROVE  k \in DOMAIN bucket' /\ bucket'[k] = c
  <2>1. bucket[k] = ContentOf(Mid(k)) /\ c # c0
    BY <1>1, <1>7 DEF Shape, BucketOK
  <2>. QED  BY <1>2, <1>3, <1>7, <2>1
<1>. QED  BY <1>1, <1>3, <1>5, <1>6, <1>7 DEF Kept

LEMMA PutKeeps ==
  ASSUME Shape, Kept, Next, NEW w \in Worker, Put(w) PROVE Kept'
<1>. PICK n \in Nat : n = saves + 1
  BY DEF Shape, TallyOK
<1>. DEFINE c0 == Draft(n)
<1>1. /\ saves' = n /\ saves < MaxSaves /\ destroyed' = destroyed /\ crossed' = crossed
      /\ (\E x : Goto(w, "flag", x)) \/ Goto(w, "idle", Blank)
  BY DEF Put, End
<1>2. \/ arrived' = arrived \cup {c0} /\ bucket' = Set(bucket, DraftKey(n), c0)
      \/ arrived' = arrived /\ bucket' = Set(bucket, DraftKey(n), c0)
      \/ arrived' = arrived /\ bucket' = bucket
  BY <1>1 DEF Put
<1>3. n \in 1 .. MaxSaves /\ saves \in Nat
  BY <1>1, MailboxAssumption DEF Shape, TallyOK
<1>4. DraftKey(n) \in Key /\ ContentOf(Mid(DraftKey(n))) = c0 /\ c0 \in Content
  BY <1>3, FirstKeys DEF Content
<1>5. c0 \notin There
  <2>1. \A j \in 1 .. saves : Draft(j) # c0
    BY <1>3 DEF Draft
  <2>2. c0 \notin Message
    BY <1>3, MailboxAssumption DEF Draft
  <2>. QED  BY <2>1, <2>2 DEF There
<1>6. c0 \notin arrived /\ \A k \in DOMAIN bucket : bucket[k] = ContentOf(Mid(k)) /\ k # DraftKey(n)
  BY <1>4, <1>5 DEF Shape, TallyOK, BucketOK
<1>. HIDE DEF c0
<1>7. \A k : ~ Doomed(k) => ~ Doomed(k)'
  <2>1. \A v \in Worker : pc'[v] = "delete" => pc[v] = "delete" /\ mem'[v].from = mem[v].from
    BY <1>1, NoNewDoom DEF Shape
  <2>. QED  BY <2>1, StaysSafe
<1>8. ASSUME bucket' = Set(bucket, DraftKey(n), c0)
      PROVE  /\ DOMAIN bucket' = DOMAIN bucket \cup {DraftKey(n)} /\ bucket'[DraftKey(n)] = c0
             /\ \A j \in DOMAIN bucket \ {DraftKey(n)} : bucket'[j] = bucket[j]
  <2>1. BucketOK
    BY DEF Shape
  <2>. QED  BY <1>4, <1>8, <2>1, Stored
<1>9. \A k \in DOMAIN bucket : k \in DOMAIN bucket' /\ bucket'[k] = bucket[k]
  BY <1>2, <1>6, <1>8
<1>10. ASSUME c0 \in arrived'
       PROVE  /\ DraftKey(n) \in DOMAIN bucket' /\ bucket'[DraftKey(n)] = c0
              /\ ~ Doomed(DraftKey(n))'
  <2>1. bucket' = Set(bucket, DraftKey(n), c0)
    BY <1>2, <1>6, <1>10
  <2>2. \A v \in Worker : pc[v] = "delete" => ContentOf(Mid(mem[v].from)) \in There
    BY DEF Shape, WorkersOK, At
  <2>3. ~ Doomed(DraftKey(n))
    BY <1>4, <1>5, <2>2 DEF Doomed
  <2>. QED  BY <1>7, <1>8, <2>1, <2>3
<1>. QED  BY <1>1, <1>2, <1>7, <1>9, <1>10 DEF Kept

\* A move deletes what it copied, and what a move is about to delete is not what
\* keeps the message.
LEMMA DeleteKeeps ==
  ASSUME Shape, Kept, NEW w \in Worker, Delete(w) PROVE Kept'
<1>1. /\ pc[w] = "delete" /\ arrived' = arrived /\ destroyed' = destroyed /\ crossed' = crossed
      /\ bucket' = bucket \/ bucket' = Without(bucket, {mem[w].from})
      /\ Goto(w, "reindex", mem[w]) \/ NotMoved(w)
  BY DEF Delete
<1>2. \A k : ~ Doomed(k) => ~ Doomed(k)'
  <2>1. \A v \in Worker : pc'[v] = "delete" => pc[v] = "delete" /\ mem'[v].from = mem[v].from
    BY <1>1, NoNewDoom, NotMovedDoom DEF Shape
  <2>. QED  BY <2>1, StaysSafe
<1>3. \A k \in DOMAIN bucket : ~ Doomed(k) => k \in DOMAIN bucket' /\ bucket'[k] = bucket[k]
  <2>1. BucketOK /\ Doomed(mem[w].from)
    BY <1>1 DEF Shape, Doomed
  <2>2. bucket' = Without(bucket, {mem[w].from}) =>
          /\ DOMAIN bucket' = DOMAIN bucket \ {mem[w].from}
          /\ \A j \in DOMAIN bucket \ {mem[w].from} : bucket'[j] = bucket[j]
    BY <2>1, Deleted
  <2>. QED  BY <1>1, <2>1, <2>2
<1>. QED  BY <1>1, <1>2, <1>3 DEF Kept

\* What is deleted for good was to be.
LEMMA DestroyKeeps ==
  ASSUME Shape, Kept, NEW w \in Worker, PurgeOne(w) \/ DropObject(w) PROVE Kept'
<1>1. /\ arrived' = arrived /\ crossed' = crossed
      /\ \/ bucket' = bucket /\ destroyed' = destroyed
         \/ \E k : /\ bucket' = Without(bucket, {k})
                   /\ destroyed' = destroyed \cup {bucket[j] : j \in {k} \cap DOMAIN bucket}
      /\ \E x : \E step \in {"forget", "save", "dropped", "idle"} : Goto(w, step, x)
  BY DEF PurgeOne, DropObject, End
<1>2. \A k : ~ Doomed(k) => ~ Doomed(k)'
  <2>1. \A v \in Worker : pc'[v] = "delete" => pc[v] = "delete" /\ mem'[v].from = mem[v].from
    BY <1>1, NoNewDoom DEF Shape
  <2>. QED  BY <2>1, StaysSafe
<1>3. destroyed \subseteq destroyed' /\
        \A j \in DOMAIN bucket :
          bucket[j] \notin destroyed' => j \in DOMAIN bucket' /\ bucket'[j] = bucket[j]
  <2>1. CASE bucket' = bucket /\ destroyed' = destroyed
    BY <2>1
  <2>2. ASSUME NEW k, bucket' = Without(bucket, {k}),
               destroyed' = destroyed \cup {bucket[j] : j \in {k} \cap DOMAIN bucket}
        PROVE  destroyed \subseteq destroyed' /\
                 \A j \in DOMAIN bucket :
                   bucket[j] \notin destroyed' => j \in DOMAIN bucket' /\ bucket'[j] = bucket[j]
    <3>1. /\ DOMAIN bucket' = DOMAIN bucket \ {k}
          /\ \A j \in DOMAIN bucket \ {k} : bucket'[j] = bucket[j]
      <4>1. BucketOK
        BY DEF Shape
      <4>. QED  BY <2>2, <4>1, Deleted
    <3>. QED  BY <2>2, <3>1
  <2>. QED  BY <1>1, <2>1, <2>2
<1>. QED  BY <1>1, <1>2, <1>3 DEF Kept

\* The copy: where the message was is now about to be deleted, so it is kept by
\* the copy - unless another move is about to delete that.
LEMMA CopyKeeps ==
  ASSUME Shape, Kept, Next, NEW w \in Worker, Copy(w) PROVE Kept'
<1>. DEFINE from == mem[w].from
            to == mem[w].to
<1>1. /\ pc[w] = "copy" /\ arrived' = arrived /\ destroyed' = destroyed
      /\ \/ /\ from \in DOMAIN bucket /\ bucket' = Set(bucket, to, bucket[from])
            /\ Goto(w, "delete", mem[w])
         \/ bucket' = bucket /\ NotMoved(w)
         \/ /\ from \in DOMAIN bucket /\ bucket' = Set(bucket, to, bucket[from])
            /\ NotMoved(w)
  BY DEF Copy
<1>2. /\ from \in Key /\ to \in Key /\ from # to
      /\ ContentOf(Mid(from)) = ContentOf(Mid(to))
  BY <1>1 DEF Shape, WorkersOK, At
<1>3. ~crossed' => ~crossed /\ \A v \in Worker \ {w} : ~ (pc[v] = "delete" /\ mem[v].from = to)
  <2>1. crossed' = (crossed \/ \E v \in Worker \ {w} :
                              pc[v] = "delete" /\ mem[v].from = mem[w].to)
    BY DEF Copy
  <2>. QED  BY <2>1, Zenon
<1>4. /\ BucketOK /\ \A k \in DOMAIN bucket : bucket[k] \in Content
      /\ \A k \in DOMAIN bucket : bucket[k] = ContentOf(Mid(k))
  BY DEF Shape, BucketOK, IsMap
<1>5. ASSUME from \in DOMAIN bucket, bucket' = Set(bucket, to, bucket[from])
      PROVE  /\ DOMAIN bucket' = DOMAIN bucket \cup {to}
             /\ \A k \in DOMAIN bucket : bucket'[k] = bucket[k]
             /\ bucket'[to] = bucket[from]
  <2>1. bucket[from] \in Content
    BY <1>4, <1>5
  <2>. HIDE DEF from, to
  <2>2. /\ DOMAIN bucket' = DOMAIN bucket \cup {to} /\ bucket'[to] = bucket[from]
        /\ \A j \in DOMAIN bucket \ {to} : bucket'[j] = bucket[j]
    BY <1>2, <1>4, <1>5, <2>1, Stored
  <2>3. to \in DOMAIN bucket => bucket[to] = bucket[from]
    BY <1>2, <1>4, <1>5
  <2>. QED  BY <2>2, <2>3
<1>6. \A k \in DOMAIN bucket : k \in DOMAIN bucket' /\ bucket'[k] = bucket[k]
  BY <1>1, <1>5
<1>7. CASE NotMoved(w)
  <2>1. \A k : ~ Doomed(k) => ~ Doomed(k)'
    <3>1. \A v \in Worker : pc'[v] = "delete" => pc[v] = "delete" /\ mem'[v].from = mem[v].from
      BY <1>7, NotMovedDoom DEF Shape
    <3>. QED  BY <3>1, StaysSafe
  <2>. QED  BY <1>1, <1>3, <1>6, <2>1 DEF Kept
<1>8. CASE /\ from \in DOMAIN bucket /\ bucket' = Set(bucket, to, bucket[from])
           /\ Goto(w, "delete", mem[w])
  <2>1. /\ \A v \in Worker : mem'[v] = mem[v] /\ (pc'[v] = "delete" => v = w \/ pc[v] = "delete")
        /\ pc'[w] = "delete"
    BY <1>8 DEF Goto, Shape, WorkersOK
  <2>2. \A k : k # from /\ ~ Doomed(k) => ~ Doomed(k)'
    BY <2>1 DEF Doomed
  <2>3. PICK x \in Key, y \in Key : x = from /\ y = to
    BY <1>2
  <2>4. ~crossed' => ~ Doomed(y)'
    BY <1>2, <1>3, <2>1, <2>3 DEF Doomed
  <2>5. y \in DOMAIN bucket' /\ bucket'[y] = bucket[x] /\ \A k : k # x /\ ~ Doomed(k) => ~ Doomed(k)'
    BY <1>5, <1>8, <2>2, <2>3
  <2>. HIDE DEF from, to
  <2>. QED  BY <1>1, <1>3, <1>6, <2>4, <2>5 DEF Kept
<1>. QED  BY <1>1, <1>7, <1>8

LEMMA KeptNext == ASSUME Shape, Kept, [Next]_vars PROVE Kept'
<1>1. ASSUME bucket' = bucket, arrived' = arrived, destroyed' = destroyed, crossed' = crossed,
             \A v \in Worker : pc'[v] = "delete" => pc[v] = "delete" /\ mem'[v].from = mem[v].from
      PROVE  Kept'
  <2>1. \A k : ~ Doomed(k) => ~ Doomed(k)'
    BY <1>1, StaysSafe
  <2>. QED  BY <1>1, <2>1 DEF Kept
<1>2. ASSUME NEW w \in Worker,
             \/ List(w) \/ Compare(w) \/ Fetch(w) \/ Install(w) \/ Plan(w) \/ Rule(w)
             \/ RulesDone(w) \/ Pick(w) \/ Reindex(w) \/ Save(w) \/ Forget(w)
             \/ PurgeDone(w) \/ Flag(w) \/ Note(w) \/ Dropped(w) \/ Strike(w)
      PROVE  Kept'
  <2>1. bucket' = bucket /\ arrived' = arrived /\ destroyed' = destroyed /\ crossed' = crossed
    BY <1>2 DEF List, Compare, Fetch, Install, Plan, Rule, RulesDone, Pick, Reindex,
       Save, Forget, PurgeDone, Flag, Note, Dropped, Strike, shared, history
  <2>2. \E step, x : Goto(w, step, x) /\ step # "delete"
    BY <1>2 DEF List, Compare, Fetch, Install, Plan, Rule, RulesDone, Pick, Reindex,
       Save, Forget, PurgeDone, Flag, Note, Dropped, Strike, End
  <2>3. \A v \in Worker : pc'[v] = "delete" => pc[v] = "delete" /\ mem'[v].from = mem[v].from
    BY <2>2, NoNewDoom DEF Shape
  <2>. QED  BY SMTT(30), <1>1, <2>1, <2>3
<1>3. ASSUME NEW w \in Worker, MoveDone(w) PROVE Kept'
  <2>1. /\ bucket' = bucket /\ arrived' = arrived /\ destroyed' = destroyed /\ crossed' = crossed
        /\ Goto(w, mem[w].back, mem[w])
    BY <1>3 DEF MoveDone, shared, history
  <2>2. mem[w].back # "delete"
    BY DEF Shape, WorkersOK, MemOK
  <2>. QED  BY <1>1, <2>1, <2>2, NoNewDoom DEF Shape
<1>4. ASSUME NEW w \in Worker,
             \/ Refresh(w) \/ SaveDraft(w) \/ DropDraft(w)
             \/ \E K \in SUBSET InTrash(w) : Purge(w, K)
             \/ \E K \in SUBSET DOMAIN Index(w) : \E f \in Folder \ {Drafts} : Move(w, K, f)
      PROVE  Kept'
  <2>1. PICK x, step : step \in {"list", "put", "drop", "purge", "pick"} /\ Begin(w, step, x)
    BY <1>4 DEF Refresh, SaveDraft, DropDraft, Purge, Move
  <2>2. /\ bucket' = bucket /\ arrived' = arrived /\ destroyed' = destroyed /\ crossed' = crossed
        /\ Goto(w, step, x)
    BY <2>1 DEF Begin, shared
  <2>3. step # "delete"
    BY <2>1
  <2>. QED  BY <1>1, <2>2, <2>3, NoNewDoom DEF Shape
<1>5. ASSUME NEW m \in Machine, Crash(m) PROVE Kept'
  <2>. DEFINE Here == {w \in Worker : host[w] = m}
  <2>1. /\ pc' = [w \in Worker |-> IF w \in Here THEN "idle" ELSE pc[w]]
        /\ mem' = [w \in Worker |-> IF w \in Here THEN Blank ELSE mem[w]]
        /\ bucket' = bucket /\ arrived' = arrived /\ destroyed' = destroyed /\ crossed' = crossed
    BY <1>5 DEF Crash, shared
  <2>. HIDE DEF Here
  <2>2. \A v \in Worker : pc'[v] = "delete" => pc[v] = "delete" /\ mem'[v].from = mem[v].from
    BY <2>1
  <2>. QED  BY <1>1, <2>1, <2>2
<1>6. CASE UNCHANGED vars
  BY <1>1, <1>6 DEF vars, shared, history
<1>. QED  BY <1>2, <1>3, <1>4, <1>5, <1>6, DeliverKeeps, PutKeeps, DeleteKeeps, DestroyKeeps,
     CopyKeeps DEF Next, Step

\* Whatever handlers, watchers and machines do to each other, and whatever S3
\* answers: a message that came, and a draft that was stored, lies in some
\* folder until it is deleted for good - unless a move copied to the very place
\* another was about to delete (mail.go: Move copies before it deletes).
THEOREM NothingIsLost == Spec => []MessageKept
<1>1. Init => Shape /\ Kept
  BY InitShape
<1>2. Shape /\ Kept /\ [Next]_vars => (Shape /\ Kept)'
  BY ShapeNext, KeptNext
<1>3. Kept => MessageKept
  BY Zenon DEF Kept, MessageKept, InBucket
<1>. QED  BY <1>1, <1>2, <1>3, PTL DEF Spec

-----------------------------------------------------------------------------
(* What the index shows.                                                     *)

LEMMA TellsSet ==
  ASSUME NEW i, TellsAll(i)
  PROVE  /\ \A k, e : Tells(k, e) => TellsAll(Set(i, k, e))
         /\ \A S : TellsAll(Without(i, S))
         /\ \A S \in SUBSET DOMAIN i : TellsAll(Restrict(i, S))
         /\ \A f : TellsAll(f) => TellsAll(Over(f, i))
<1>1. \A k, e : Tells(k, e) => TellsAll(Set(i, k, e))
  BY DEF TellsAll, Set
<1>2. \A S \in SUBSET DOMAIN i : TellsAll(Restrict(i, S))
  BY DEF TellsAll, Restrict
<1>3. \A S : TellsAll(Without(i, S))
  BY <1>2 DEF Without
<1>4. \A f : TellsAll(f) => TellsAll(Over(f, i))
  BY DEF TellsAll, Over
<1>. QED  BY <1>1, <1>2, <1>3, <1>4

LEMMA IndexReset ==
  ASSUME Shape, IndexTells, NEW w \in Worker, NEW i, TellsAll(i), SetIndex(w, i),
         disk' = disk \/ WriteCache(w)
  PROVE  IndexTells'
<1>1. host[w] \in Machine /\ DOMAIN index = Machine /\ DOMAIN disk = Machine
  BY DEF Shape, IndexOK
<1>2. index' = [index EXCEPT ![host[w]] = i]
  BY DEF SetIndex
<1>3. \A m \in Machine : TellsAll(index'[m])
  BY <1>1, <1>2 DEF IndexTells
<1>4. \A m \in Machine : TellsAll(disk'[m])
  BY <1>1, <1>3 DEF IndexTells, WriteCache
<1>. QED  BY <1>3, <1>4 DEF IndexTells

LEMMA IndexTellsNext == ASSUME Shape, IndexTells, WorkersTell, Next PROVE IndexTells'
<1>1. \A w \in Worker : TellsAll(Index(w)) /\ Brings(pc[w], mem[w])
  BY DEF Shape, IndexOK, Index, IndexTells, WorkersTell
<1>2. ASSUME NEW w \in Worker, Compare(w) PROVE IndexTells'
  <2>1. SetIndex(w, Present(Index(w), mem[w].listing)) /\ disk' = disk
    BY <1>2 DEF Compare
  <2>2. TellsAll(Present(Index(w), mem[w].listing))
    BY <1>1, TellsSet DEF Present
  <2>. QED  BY <2>1, <2>2, IndexReset
<1>3. ASSUME NEW w \in Worker, Install(w) PROVE IndexTells'
  <2>1. SetIndex(w, Over(mem[w].fresh, Index(w))) /\ WriteCache(w)
    BY <1>3 DEF Install
  <2>2. TellsAll(Over(mem[w].fresh, Index(w)))
    BY <1>1, TellsSet DEF Brings
  <2>. QED  BY <2>1, <2>2, IndexReset
<1>4. ASSUME NEW w \in Worker, Reindex(w) PROVE IndexTells'
  <2>1. /\ SetIndex(w, Set(Without(Index(w), {mem[w].from}), mem[w].to, mem[w].entry))
        /\ disk' = disk /\ pc[w] = "reindex"
    BY <1>4 DEF Reindex
  <2>2. ContentOf(Mid(mem[w].from)) = ContentOf(Mid(mem[w].to))
    BY <2>1 DEF Shape, WorkersOK, At
  <2>3. Tells(mem[w].to, mem[w].entry)
    BY <1>1, <2>1, <2>2 DEF Brings, Tells
  <2>4. TellsAll(Without(Index(w), {mem[w].from}))
    BY <1>1, TellsSet
  <2>. QED  BY <2>1, <2>3, <2>4, TellsSet, IndexReset
<1>5. ASSUME NEW w \in Worker, Note(w) PROVE IndexTells'
  <2>1. SetIndex(w, Set(Index(w), mem[w].to, mem[w].entry)) /\ WriteCache(w) /\ pc[w] = "note"
    BY <1>5 DEF Note
  <2>2. Tells(mem[w].to, mem[w].entry)
    BY <1>1, <2>1 DEF Brings
  <2>. QED  BY <1>1, <2>1, <2>2, TellsSet, IndexReset
<1>6. ASSUME NEW w \in Worker, Forget(w) \/ Dropped(w) PROVE IndexTells'
  <2>1. SetIndex(w, Without(Index(w), {mem[w].from})) /\ (disk' = disk \/ WriteCache(w))
    BY <1>6 DEF Forget, Dropped
  <2>2. TellsAll(Without(Index(w), {mem[w].from}))
    BY <1>1, TellsSet
  <2>. QED  BY <2>1, <2>2, IndexReset
<1>7. ASSUME NEW w \in Worker,
             \/ List(w) \/ Fetch(w) \/ Plan(w) \/ Rule(w) \/ RulesDone(w) \/ Pick(w)
             \/ Copy(w) \/ Delete(w) \/ MoveDone(w) \/ Save(w) \/ PurgeOne(w)
             \/ PurgeDone(w) \/ Put(w) \/ Flag(w) \/ DropObject(w) \/ Strike(w)
      PROVE  IndexTells'
  <2>1. /\ index' = index
        /\ disk' = disk \/ disk' = [disk EXCEPT ![host[w]] = Index(w)]
    BY <1>7 DEF List, Fetch, Plan, Rule, RulesDone, Pick, Copy, Delete, MoveDone, Save,
       PurgeOne, PurgeDone, Put, Flag, DropObject, Strike, local
  <2>2. DOMAIN disk = Machine /\ TellsAll(Index(w))
    BY <1>1 DEF Shape, IndexOK
  <2>. QED  BY SMTT(30), <2>1, <2>2 DEF IndexTells
<1>8. ASSUME NEW w \in Worker,
             \/ Refresh(w) \/ SaveDraft(w) \/ DropDraft(w)
             \/ \E K \in SUBSET InTrash(w) : Purge(w, K)
             \/ \E K \in SUBSET DOMAIN Index(w) : \E f \in Folder \ {Drafts} : Move(w, K, f)
      PROVE  IndexTells'
  <2>1. index' = index /\ disk' = disk
    BY <1>8 DEF Refresh, SaveDraft, DropDraft, Purge, Move, Begin
  <2>. QED  BY <2>1 DEF IndexTells
<1>9. ASSUME NEW m \in Machine, Crash(m) PROVE IndexTells'
  <2>1. index' = [index EXCEPT ![m] = disk[m]] /\ disk' = disk /\ DOMAIN index = Machine
    BY <1>9 DEF Crash, Shape, IndexOK
  <2>. QED  BY <2>1 DEF IndexTells
<1>10. ASSUME NEW c \in Message, Deliver(c) PROVE IndexTells'
  <2>1. index' = index /\ disk' = disk
    BY <1>10 DEF Deliver, local
  <2>. QED  BY <2>1 DEF IndexTells
<1>. QED  BY <1>2, <1>3, <1>4, <1>5, <1>6, <1>7, <1>8, <1>9, <1>10 DEF Next, Step

\* A worker goes on to a step; the others stay.
LEMMA WorkerBrings ==
  ASSUME Shape, WorkersTell, NEW w \in Worker, NEW step, NEW x, Goto(w, step, x), Brings(step, x)
  PROVE  WorkersTell'
<1>1. pc' = [pc EXCEPT ![w] = step] /\ mem' = [mem EXCEPT ![w] = x]
  BY DEF Goto
<1>2. DOMAIN pc = Worker /\ DOMAIN mem = Worker
  BY DEF Shape, WorkersOK
<1>3. \A v \in Worker : Brings(pc'[v], mem'[v])
  BY <1>1, <1>2 DEF WorkersTell
<1>. QED  BY <1>3 DEF WorkersTell


\* The steps at which a worker has no entry at hand.
Handless == PcType \ {"copy", "delete", "reindex", "flag", "note"}

LEMMA PlainBrings ==
  ASSUME Shape, WorkersTell, NEW w \in Worker, NEW step \in Handless, NEW y, Goto(w, step, y),
         \/ y.fresh = mem[w].fresh /\ y.listing = mem[w].listing
         \/ y.fresh = <<>> /\ y.listing = <<>>
  PROVE  WorkersTell'
<1>1. Brings(pc[w], mem[w]) /\ DOMAIN <<>> = {}
  BY DEF WorkersTell
<1>2. TellsAll(y.fresh) /\ \A k \in DOMAIN y.listing : y.listing[k] = ContentOf(Mid(k))
  BY <1>1 DEF Brings, TellsAll
<1>3. Brings(step, y)
  BY <1>2 DEF Brings, Handless
<1>. QED  BY <1>3, WorkerBrings

\* Nothing else than the next step and what is not for the index changes.
LEMMA PlainSets ==
  /\ Blank.fresh = <<>> /\ Blank.listing = <<>>
  /\ \A x : DOMAIN x = DOMAIN Blank =>
       /\ \A S : LET y == [x EXCEPT !.todo = S] IN y.fresh = x.fresh /\ y.listing = x.listing
       /\ \A S, h : LET y == [x EXCEPT !.todo = S, !.auto = h] IN
                      y.fresh = x.fresh /\ y.listing = x.listing
       /\ \A S : LET y == [x EXCEPT !.keys = S] IN y.fresh = x.fresh /\ y.listing = x.listing
       /\ \A S, f : LET y == [x EXCEPT !.keys = S, !.target = f] IN
                      y.fresh = x.fresh /\ y.listing = x.listing
       /\ \A S, k : LET y == [x EXCEPT !.keys = S, !.from = k] IN
                      y.fresh = x.fresh /\ y.listing = x.listing
       /\ \A k : LET y == [x EXCEPT !.from = k] IN y.fresh = x.fresh /\ y.listing = x.listing
       /\ \A n : LET y == [x EXCEPT !.inARow = n] IN y.fresh = x.fresh /\ y.listing = x.listing
       /\ \A T, S, f, b, n :
            LET y == [x EXCEPT !.todo = T, !.keys = S, !.target = f, !.back = b, !.inARow = n] IN
            y.fresh = x.fresh /\ y.listing = x.listing
       /\ \A S, k, e, t : LET y == [x EXCEPT !.keys = S, !.from = k, !.entry = e, !.to = t] IN
                            y.fresh = x.fresh /\ y.listing = x.listing
       /\ \A t, e : LET y == [x EXCEPT !.to = t, !.entry = e] IN
                      y.fresh = x.fresh /\ y.listing = x.listing
BY BlankMem DEF Blank

LEMMA WorkersTellNext == ASSUME Shape, IndexTells, WorkersTell, Next PROVE WorkersTell'
<1>1. /\ \A w \in Worker : DOMAIN mem[w] = DOMAIN Blank /\ Brings(pc[w], mem[w]) /\ TellsAll(Index(w))
      /\ \A w \in Worker : mem[w].back \in {"save", "rule"}
      /\ \A k \in DOMAIN bucket : bucket[k] = ContentOf(Mid(k))
  BY DEF Shape, WorkersOK, MemOK, WorkersTell, IndexTells, IndexOK, Index, BucketOK
<1>2. {"idle", "list", "compare", "plan", "rule", "pick", "purge", "save", "flush", "put",
       "fetch", "forget", "drop", "dropped", "strike"} \subseteq Handless
  BY FreeSteps DEF Handless, NeedsNothing
<1>3. ASSUME NEW w \in Worker,
             \/ List(w) \/ Compare(w) \/ Install(w)
             \/ Plan(w) \/ RulesDone(w) \/ MoveDone(w) \/ Save(w) \/ PurgeDone(w)
             \/ DropObject(w) \/ Dropped(w) \/ Strike(w)
      PROVE  WorkersTell'
  <2>1. CASE List(w)
    <3>1. Goto(w, "compare", [Blank EXCEPT !.listing = bucket]) \/ Goto(w, "idle", Blank)
      BY <2>1 DEF List, End
    <3>. DEFINE x == [Blank EXCEPT !.listing = bucket]
    <3>2. x.listing = bucket /\ x.fresh = <<>> /\ DOMAIN <<>> = {}
      BY BlankMem DEF Blank
    <3>. HIDE DEF x
    <3>3. Brings("compare", x)
      BY <1>1, <3>2 DEF Brings, TellsAll
    <3>. QED  BY <1>2, <3>1, <3>3, WorkerBrings, PlainBrings, PlainSets DEF x
  <2>2. CASE Compare(w)
    <3>1. Goto(w, "fetch", [mem[w] EXCEPT !.todo = ToFetch(Index(w), mem[w].listing)])
      BY <2>2 DEF Compare
    <3>. QED  BY ZenonT(30), <1>1, <1>2, <3>1, PlainBrings, PlainSets
  <2>3. CASE Install(w)
    <3>1. Goto(w, "plan", Blank) \/ Goto(w, "idle", Blank)
      BY <2>3 DEF Install, End
    <3>. QED  BY <1>2, <3>1, PlainBrings, PlainSets
  <2>4. CASE Plan(w)
    <3>1. Goto(w, "idle", Blank) \/ \E S, h : Goto(w, "rule", [Blank EXCEPT !.todo = S, !.auto = h])
      BY <2>4 DEF Plan, End
    <3>2. ASSUME NEW S, NEW h, Goto(w, "rule", [Blank EXCEPT !.todo = S, !.auto = h])
          PROVE  WorkersTell'
      <4>. DEFINE y == [Blank EXCEPT !.todo = S, !.auto = h]
      <4>1. y.fresh = <<>> /\ y.listing = <<>> /\ Goto(w, "rule", y)
        BY <3>2, PlainSets
      <4>. HIDE DEF y
      <4>. QED  BY <1>2, <4>1, PlainBrings
    <3>. QED  BY <1>2, <3>1, <3>2, PlainBrings, PlainSets
  <2>5. CASE RulesDone(w) \/ Save(w) \/ PurgeDone(w) \/ Strike(w)
    <3>1. \E step \in {"flush", "idle", "save"} : Goto(w, step, Blank)
      BY <2>5 DEF RulesDone, Save, PurgeDone, Strike, End
    <3>. QED  BY <1>2, <3>1, PlainBrings, PlainSets
  <2>6. CASE MoveDone(w) \/ DropObject(w) \/ Dropped(w)
    <3>1. \/ \E step \in {"save", "rule", "dropped", "strike"} : Goto(w, step, mem[w])
          \/ Goto(w, "idle", Blank)
      BY <1>1, <2>6 DEF MoveDone, DropObject, Dropped, End
    <3>. QED  BY <1>2, <3>1, PlainBrings, PlainSets
  <2>. QED  BY <1>3, <2>1, <2>2, <2>3, <2>4, <2>5, <2>6
<1>4. ASSUME NEW w \in Worker, Fetch(w) PROVE WorkersTell'
  <2>. DEFINE k == CHOOSE k \in mem[w].todo : TRUE
              x(what) == [mem[w] EXCEPT
                !.todo = @ \ {k},
                !.fresh = Set(@, k, [etag |-> mem[w].listing[k], shows |-> what])]
  <2>1. /\ pc[w] = "fetch" /\ mem[w].todo # {}
        /\ \/ Goto(w, "fetch", x(IF k \in DOMAIN bucket THEN bucket[k] ELSE Unreadable))
           \/ Goto(w, "fetch", x(Unreadable))
    BY <1>4 DEF Fetch
  <2>2. k \in DOMAIN mem[w].listing
    BY <2>1 DEF Shape, WorkersOK, At
  <2>3. ASSUME NEW what \in {ContentOf(Mid(k)), Unreadable} PROVE Brings("fetch", x(what))
    <3>1. Tells(k, [etag |-> mem[w].listing[k], shows |-> what])
      BY <1>1, <2>2 DEF Brings, Tells
    <3>2. TellsAll(Set(mem[w].fresh, k, [etag |-> mem[w].listing[k], shows |-> what]))
      BY <1>1, <3>1, TellsSet DEF Brings
    <3>3. /\ x(what).fresh = Set(mem[w].fresh, k, [etag |-> mem[w].listing[k], shows |-> what])
          /\ x(what).listing = mem[w].listing
      BY <1>1, BlankMem
    <3>. QED  BY <1>1, <3>2, <3>3 DEF Brings
  <2>4. (IF k \in DOMAIN bucket THEN bucket[k] ELSE Unreadable) \in {ContentOf(Mid(k)), Unreadable}
    BY <1>1
  <2>. HIDE DEF k, x
  <2>. QED  BY <2>1, <2>3, <2>4, WorkerBrings
<1>5. ASSUME NEW w \in Worker, Rule(w) PROVE WorkersTell'
  <2>1. \/ \E T, S, n : Goto(w, "pick", [mem[w] EXCEPT !.todo = T, !.keys = S,
                                          !.target = RuleTarget, !.back = "rule", !.inARow = n])
        \/ \E T : Goto(w, "rule", [mem[w] EXCEPT !.todo = T])
    <3>. DEFINE k == CHOOSE k \in mem[w].todo : TRUE
                T == mem[w].todo \ {k}
    <3>1. \/ Goto(w, "pick", [[mem[w] EXCEPT !.todo = T] EXCEPT !.keys = {k},
                                !.target = RuleTarget, !.back = "rule", !.inARow = 0])
          \/ Goto(w, "rule", [mem[w] EXCEPT !.todo = T])
      BY <1>5 DEF Rule
    <3>2. [[mem[w] EXCEPT !.todo = T] EXCEPT !.keys = {k}, !.target = RuleTarget,
                                               !.back = "rule", !.inARow = 0]
            = [mem[w] EXCEPT !.todo = T, !.keys = {k}, !.target = RuleTarget,
                              !.back = "rule", !.inARow = 0]
      OBVIOUS
    <3>. HIDE DEF k, T
    <3>. QED  BY <3>1, <3>2
  <2>2. ASSUME NEW T, NEW S, NEW n,
               Goto(w, "pick", [mem[w] EXCEPT !.todo = T, !.keys = S, !.target = RuleTarget,
                                              !.back = "rule", !.inARow = n])
        PROVE  WorkersTell'
    <3>. DEFINE y == [mem[w] EXCEPT !.todo = T, !.keys = S, !.target = RuleTarget,
                                    !.back = "rule", !.inARow = n]
    <3>1. y.fresh = mem[w].fresh /\ y.listing = mem[w].listing /\ Goto(w, "pick", y)
      BY <1>1, <2>2, PlainSets
    <3>. HIDE DEF y
    <3>. QED  BY <1>2, <3>1, PlainBrings
  <2>. QED  BY ZenonT(30), <1>1, <1>2, <2>1, <2>2, PlainBrings, PlainSets
<1>6. ASSUME NEW w \in Worker, NotMoved(w) PROVE WorkersTell'
  <2>1. Goto(w, "save", Blank) \/ \E n : Goto(w, "pick", [mem[w] EXCEPT !.inARow = n])
    BY <1>6 DEF NotMoved
  <2>. QED  BY ZenonT(30), <1>1, <1>2, <2>1, PlainBrings, PlainSets
<1>7. ASSUME NEW w \in Worker, Copy(w) \/ Delete(w) PROVE WorkersTell'
  <2>1. \/ NotMoved(w)
        \/ pc[w] = "copy" /\ Goto(w, "delete", mem[w])
        \/ pc[w] = "delete" /\ Goto(w, "reindex", mem[w])
    BY <1>7 DEF Copy, Delete
  <2>2. pc[w] \in {"copy", "delete"} => Brings("delete", mem[w]) /\ Brings("reindex", mem[w])
    BY <1>1 DEF Brings
  <2>. QED  BY <1>6, <2>1, <2>2, WorkerBrings
<1>8. ASSUME NEW w \in Worker, Pick(w) PROVE WorkersTell'
  <2>. DEFINE i == Index(w)
              k == CHOOSE k \in mem[w].keys : TRUE
              S == mem[w].keys \ {k}
              t == FreeKey(i, Mid(k), mem[w].target)
              x == [mem[w] EXCEPT !.keys = S, !.from = k, !.entry = i[k], !.to = t]
  <2>1. \/ Goto(w, "pick", [mem[w] EXCEPT !.keys = S])
        \/ /\ k \in DOMAIN i
           /\ Goto(w, "copy", [[mem[w] EXCEPT !.keys = S] EXCEPT !.from = k, !.entry = i[k], !.to = t])
    BY <1>8 DEF Pick
  <2>2. [[mem[w] EXCEPT !.keys = S] EXCEPT !.from = k, !.entry = i[k], !.to = t] = x
    OBVIOUS
  <2>3. ASSUME k \in DOMAIN i PROVE Brings("copy", x)
    <3>1. /\ x.from = k /\ x.entry = i[k] /\ x.fresh = mem[w].fresh /\ x.listing = mem[w].listing
      BY <1>1, BlankMem
    <3>2. Tells(k, i[k])
      BY <1>1, <2>3 DEF TellsAll
    <3>. HIDE DEF x
    <3>. QED  BY <1>1, <3>1, <3>2 DEF Brings
  <2>. HIDE DEF i, k, S, t, x
  <2>4. ASSUME Goto(w, "pick", [mem[w] EXCEPT !.keys = S]) PROVE WorkersTell'
    BY ZenonT(30), <1>1, <1>2, <2>4, PlainBrings, PlainSets
  <2>5. ASSUME k \in DOMAIN i, Goto(w, "copy", x) PROVE WorkersTell'
    BY <2>3, <2>5, WorkerBrings
  <2>. QED  BY <2>1, <2>2, <2>4, <2>5
<1>9. ASSUME NEW w \in Worker, Reindex(w) \/ PurgeOne(w) \/ Forget(w) PROVE WorkersTell'
  <2>1. \/ Goto(w, "pick", [mem[w] EXCEPT !.inARow = 0])
        \/ Goto(w, "save", Blank)
        \/ \E S, k : Goto(w, "forget", [mem[w] EXCEPT !.keys = S, !.from = k])
        \/ Goto(w, "purge", [mem[w] EXCEPT !.from = <<>>])
    BY <1>9 DEF Reindex, PurgeOne, Forget
  <2>2. ASSUME NEW S, NEW k, Goto(w, "forget", [mem[w] EXCEPT !.keys = S, !.from = k])
        PROVE  WorkersTell'
    <3>. DEFINE y == [mem[w] EXCEPT !.keys = S, !.from = k]
    <3>1. y.fresh = mem[w].fresh /\ y.listing = mem[w].listing /\ Goto(w, "forget", y)
      BY <1>1, <2>2, PlainSets
    <3>. HIDE DEF y
    <3>. QED  BY <1>2, <3>1, PlainBrings
  <2>3. ASSUME Goto(w, "pick", [mem[w] EXCEPT !.inARow = 0]) PROVE WorkersTell'
    BY ZenonT(30), <1>1, <1>2, <2>3, PlainBrings, PlainSets
  <2>4. ASSUME Goto(w, "purge", [mem[w] EXCEPT !.from = <<>>]) PROVE WorkersTell'
    BY ZenonT(30), <1>1, <1>2, <2>4, PlainBrings, PlainSets
  <2>5. ASSUME Goto(w, "save", Blank) PROVE WorkersTell'
    BY <1>2, <2>5, PlainBrings, PlainSets
  <2>. QED  BY <2>1, <2>2, <2>3, <2>4, <2>5
<1>10. ASSUME NEW w \in Worker, Put(w) PROVE WorkersTell'
  <2>. DEFINE e == [etag |-> NoETag, shows |-> Draft(saves')]
              x == [mem[w] EXCEPT !.to = DraftKey(saves'), !.entry = e]
  <2>1. Goto(w, "flag", x) \/ Goto(w, "idle", Blank)
    BY <1>10 DEF Put, End
  <2>2. saves' \in 1 .. MaxSaves
    <3>1. saves' = saves + 1 /\ saves < MaxSaves /\ saves \in Nat
      BY <1>10 DEF Put, Shape, TallyOK
    <3>. QED  BY <3>1, MailboxAssumption
  <2>3. Tells(DraftKey(saves'), e)
    BY <2>2, FirstKeys DEF Tells
  <2>4. /\ x.to = DraftKey(saves') /\ x.entry = e
        /\ x.fresh = mem[w].fresh /\ x.listing = mem[w].listing
    BY <1>1, BlankMem
  <2>. HIDE DEF x, e
  <2>5. Brings("flag", x)
    BY <1>1, <2>3, <2>4 DEF Brings
  <2>. QED  BY <1>2, <2>1, <2>5, PlainBrings, PlainSets, WorkerBrings
<1>11. ASSUME NEW w \in Worker, Flag(w) PROVE WorkersTell'
  <2>1. pc[w] = "flag" /\ Goto(w, "note", mem[w])
    BY <1>11 DEF Flag
  <2>2. Brings("note", mem[w])
    BY <1>1, <2>1 DEF Brings
  <2>. QED  BY <2>1, <2>2, WorkerBrings
<1>12. ASSUME NEW w \in Worker,
              \/ Note(w) \/ Refresh(w) \/ SaveDraft(w) \/ DropDraft(w)
              \/ \E K \in SUBSET InTrash(w) : Purge(w, K)
              \/ \E K \in SUBSET DOMAIN Index(w) : \E f \in Folder \ {Drafts} : Move(w, K, f)
       PROVE  WorkersTell'
  <2>1. \/ \E step \in {"idle", "list"} : Goto(w, step, Blank)
        \/ \E k : \E step \in {"drop", "put"} : Goto(w, step, [Blank EXCEPT !.from = k])
        \/ \E S : Goto(w, "purge", [Blank EXCEPT !.keys = S])
        \/ \E S, f : Goto(w, "pick", [Blank EXCEPT !.keys = S, !.target = f])
    BY <1>12 DEF Note, Refresh, SaveDraft, DropDraft, Purge, Move, Begin, End
  <2>2. ASSUME NEW S, NEW f, Goto(w, "pick", [Blank EXCEPT !.keys = S, !.target = f])
        PROVE  WorkersTell'
    <3>. DEFINE y == [Blank EXCEPT !.keys = S, !.target = f]
    <3>1. y.fresh = <<>> /\ y.listing = <<>> /\ Goto(w, "pick", y)
      BY <2>2, PlainSets
    <3>. HIDE DEF y
    <3>. QED  BY <1>2, <3>1, PlainBrings
  <2>3. ASSUME NEW k, NEW step \in {"drop", "put"}, Goto(w, step, [Blank EXCEPT !.from = k])
        PROVE  WorkersTell'
    <3>. DEFINE y == [Blank EXCEPT !.from = k]
    <3>1. y.fresh = <<>> /\ y.listing = <<>> /\ Goto(w, step, y)
      BY <2>3, PlainSets
    <3>. HIDE DEF y
    <3>. QED  BY <1>2, <3>1, PlainBrings
  <2>4. ASSUME NEW S, Goto(w, "purge", [Blank EXCEPT !.keys = S]) PROVE WorkersTell'
    <3>. DEFINE y == [Blank EXCEPT !.keys = S]
    <3>1. y.fresh = <<>> /\ y.listing = <<>> /\ Goto(w, "purge", y)
      BY <2>4, PlainSets
    <3>. HIDE DEF y
    <3>. QED  BY <1>2, <3>1, PlainBrings
  <2>5. ASSUME NEW step \in {"idle", "list"}, Goto(w, step, Blank) PROVE WorkersTell'
    BY <1>2, <2>5, PlainBrings, PlainSets
  <2>. QED  BY ZenonT(30), <2>1, <2>2, <2>3, <2>4, <2>5
<1>13. ASSUME NEW c \in Message, Deliver(c) PROVE WorkersTell'
  BY <1>13 DEF Deliver, WorkersTell
<1>14. ASSUME NEW m \in Machine, Crash(m) PROVE WorkersTell'
  <2>. DEFINE Here == {w \in Worker : host[w] = m}
  <2>1. /\ pc' = [w \in Worker |-> IF w \in Here THEN "idle" ELSE pc[w]]
        /\ mem' = [w \in Worker |-> IF w \in Here THEN Blank ELSE mem[w]]
    BY <1>14 DEF Crash
  <2>2. Brings("idle", Blank)
    <3>1. Blank.fresh = <<>> /\ Blank.listing = <<>> /\ DOMAIN <<>> = {}
      BY DEF Blank
    <3>. QED  BY <3>1 DEF Brings, TellsAll
  <2>. HIDE DEF Here
  <2>. QED  BY <1>1, <2>1, <2>2 DEF WorkersTell
<1>. QED  BY <1>3, <1>4, <1>5, <1>7, <1>8, <1>9, <1>10, <1>11, <1>12, <1>13, <1>14 DEF Next, Step

\* A step that disturbs no Refresh leaves it where it is.
LEMMA CalmStays ==
  ASSUME Shape, CalmOK, NEW w \in Worker, NEW step, NEW x, Goto(w, step, x),
         bucket' = bucket, index' = index, host' = host, calm' \subseteq calm \cup {w},
         w \in calm' => OnTheWay(step, x, Index(w))
  PROVE  CalmOK'
<1>1. pc' = [pc EXCEPT ![w] = step] /\ mem' = [mem EXCEPT ![w] = x]
  BY DEF Goto
<1>2. DOMAIN pc = Worker /\ DOMAIN mem = Worker /\ calm \subseteq Worker
  BY DEF Shape, WorkersOK, TallyOK
<1>3. \A v : Index(v)' = Index(v)
  BY DEF Index
<1>4. ASSUME NEW s, NEW y, NEW i, OnTheWay(s, y, i) PROVE OnTheWay(s, y, i)'
  BY <1>4 DEF OnTheWay, Known
<1>5. ASSUME NEW v \in calm' PROVE OnTheWay(pc'[v], mem'[v], Index(v))
  <2>1. CASE v = w
    BY <1>1, <1>2, <1>5, <2>1
  <2>2. CASE v # w
    BY <1>1, <1>2, <1>5, <2>2 DEF CalmOK
  <2>. QED  BY <2>1, <2>2
<1>. QED  BY <1>3, <1>4, <1>5 DEF CalmOK

LEMMA CalmNext == ASSUME Shape, CalmOK, Next PROVE CalmOK'
<1>1. /\ \A w \in Worker : DOMAIN mem[w] = DOMAIN Blank
      /\ \A w \in Worker : mem[w].back \in {"save", "rule"}
  BY DEF Shape, WorkersOK, MemOK
<1>2. \A step \in (PcType \ {"compare", "fetch"}) : \A x, i : OnTheWay(step, x, i)
  BY DEF OnTheWay
<1>3. {"idle", "list", "plan", "rule", "pick", "copy", "purge", "save", "flush", "put",
       "note", "drop", "strike"} \subseteq PcType \ {"compare", "fetch"}
  BY FreeSteps DEF NeedsNothing
<1>4. ASSUME NEW w \in Worker, List(w) PROVE CalmOK'
  <2>. DEFINE x == [Blank EXCEPT !.listing = bucket]
  <2>1. /\ Goto(w, "compare", x) \/ Goto(w, "idle", Blank)
        /\ bucket' = bucket /\ index' = index /\ host' = host /\ calm' = calm
    BY <1>4 DEF List, End, shared, local, DisturbsNobody
  <2>2. x.listing = bucket /\ x.fresh = <<>>
    BY BlankMem DEF Blank
  <2>. HIDE DEF x
  <2>3. OnTheWay("compare", x, Index(w))
    BY <2>2 DEF OnTheWay
  <2>. QED  BY <1>2, <1>3, <2>1, <2>3, CalmStays
<1>5. ASSUME NEW w \in Worker, Compare(w) PROVE CalmOK'
  <2>. DEFINE i == Index(w)
              S == ToFetch(i, mem[w].listing)
              x == [mem[w] EXCEPT !.todo = S]
              j == Present(i, mem[w].listing)
  <2>1. /\ Goto(w, "fetch", x) /\ SetIndex(w, j) /\ pc[w] = "compare"
        /\ bucket' = bucket /\ host' = host /\ calm' = calm \cap {w}
    BY <1>5 DEF Compare, shared, Disturbs
  <2>2. pc'[w] = "fetch" /\ mem'[w] = x
    BY <2>1 DEF Goto, Shape, WorkersOK
  <2>3. Index(w)' = j
    BY <2>1 DEF SetIndex, Index, Shape, IndexOK
  <2>4. x.todo = S /\ x.listing = mem[w].listing /\ x.fresh = mem[w].fresh
    BY <1>1, BlankMem
  <2>5. /\ DOMAIN j = DOMAIN i \cap DOMAIN mem[w].listing
        /\ \A k \in DOMAIN j : j[k] = i[k]
    BY DEF Present, Restrict
  <2>. HIDE DEF j
  <2>6. PICK X, J : X = x /\ J = j
    OBVIOUS
  <2>7. ASSUME w \in calm PROVE OnTheWay("fetch", X, J)'
    <3>1. mem[w].listing = bucket /\ mem[w].fresh = <<>> /\ DOMAIN <<>> = {}
      BY <2>1, <2>7 DEF CalmOK, OnTheWay
    <3>2. \A k \in DOMAIN bucket : k \in S \/ Known(j, k)
      BY <2>5, <3>1 DEF ToFetch, Known
    <3>. HIDE DEF x, S
    <3>3. OnTheWay("fetch", X, J)
      BY <2>4, <2>5, <2>6, <3>1, <3>2 DEF OnTheWay
    <3>. QED  BY <2>1, <3>3 DEF OnTheWay, Known
  <2>. HIDE DEF x
  <2>. QED  BY <2>1, <2>2, <2>3, <2>6, <2>7 DEF CalmOK
<1>6. ASSUME NEW w \in Worker, Fetch(w) PROVE CalmOK'
  <2>. DEFINE k == CHOOSE k \in mem[w].todo : TRUE
              e(what) == [etag |-> mem[w].listing[k], shows |-> what]
              x(what) == [mem[w] EXCEPT !.todo = @ \ {k}, !.fresh = Set(@, k, e(what))]
  <2>1. /\ pc[w] = "fetch" /\ mem[w].todo # {} /\ \E what : Goto(w, "fetch", x(what))
        /\ bucket' = bucket /\ index' = index /\ host' = host /\ calm' = calm
    BY <1>6 DEF Fetch, shared, local, DisturbsNobody
  <2>2. k \in mem[w].todo /\ k \in DOMAIN mem[w].listing
    BY <2>1 DEF Shape, WorkersOK, At
  <2>3. ASSUME NEW what, w \in calm PROVE OnTheWay("fetch", x(what), Index(w))
    <3>1. OnTheWay("fetch", mem[w], Index(w))
      BY <2>1, <2>3 DEF CalmOK
    <3>2. /\ x(what).todo = mem[w].todo \ {k} /\ x(what).listing = mem[w].listing
          /\ x(what).fresh = Set(mem[w].fresh, k, e(what)) /\ e(what).etag = mem[w].listing[k]
      BY <1>1, BlankMem
    <3>3. /\ DOMAIN Set(mem[w].fresh, k, e(what)) = DOMAIN mem[w].fresh \cup {k}
          /\ \A j \in DOMAIN mem[w].fresh \cup {k} :
               Set(mem[w].fresh, k, e(what))[j] = IF j = k THEN e(what) ELSE mem[w].fresh[j]
      BY DEF Set
    <3>. HIDE DEF k, e, x
    <3>. QED  BY <2>2, <3>1, <3>2, <3>3 DEF OnTheWay
  <2>. HIDE DEF k, e, x
  <2>. QED  BY SMTT(30), <2>1, <2>3, CalmStays
<1>7. ASSUME NEW w \in Worker, Install(w) PROVE CalmOK'
  <2>1. calm' = calm \cap {w} /\ \E step \in {"plan", "idle"} : Goto(w, step, Blank)
    BY <1>7 DEF Install, End, Disturbs
  <2>2. pc'[w] \in {"plan", "idle"}
    BY <2>1 DEF Goto, Shape, WorkersOK
  <2>. QED  BY <2>1, <2>2 DEF CalmOK, OnTheWay
<1>8. ASSUME NEW w \in Worker,
             \/ Plan(w) \/ Rule(w) \/ RulesDone(w) \/ Pick(w) \/ MoveDone(w) \/ Save(w)
             \/ PurgeDone(w) \/ Flag(w) \/ Strike(w)
      PROVE  CalmOK'
  <2>1. bucket' = bucket /\ index' = index /\ host' = host /\ calm' = calm
    BY <1>8 DEF Plan, Rule, RulesDone, Pick, MoveDone, Save, PurgeDone, Flag, Strike,
       shared, local, DisturbsNobody
  <2>2. \E step \in {"idle", "rule", "pick", "copy", "flush", "save", "note"} :
          \E x : Goto(w, step, x)
    BY <1>1, <1>8 DEF Plan, Rule, RulesDone, Pick, MoveDone, Save, PurgeDone, Flag, Strike, End
  <2>. QED  BY <1>2, <1>3, <2>1, <2>2, CalmStays
<1>9. ASSUME NEW w \in Worker,
             \/ Refresh(w) \/ SaveDraft(w) \/ DropDraft(w)
             \/ \E K \in SUBSET InTrash(w) : Purge(w, K)
             \/ \E K \in SUBSET DOMAIN Index(w) : \E f \in Folder \ {Drafts} : Move(w, K, f)
      PROVE  CalmOK'
  <2>1. /\ bucket' = bucket /\ index' = index /\ host' = host /\ calm' \subseteq calm \cup {w}
        /\ \E step \in {"list", "put", "drop", "purge", "pick"} : \E x : Goto(w, step, x)
    BY <1>9 DEF Refresh, SaveDraft, DropDraft, Purge, Move, Begin, shared, DisturbsNobody
  <2>. QED  BY <1>2, <1>3, <2>1, CalmStays
<1>10. ASSUME NEW w \in Worker,
              \/ Copy(w) \/ Delete(w) \/ Reindex(w) \/ PurgeOne(w) \/ Forget(w) \/ Put(w)
              \/ Note(w) \/ DropObject(w) \/ Dropped(w)
       PROVE  calm' = {}
  BY <1>10 DEF Copy, Delete, Reindex, PurgeOne, Forget, Put, Note, DropObject, Dropped,
     DisturbsAll
<1>11. ASSUME NEW m \in Machine, Crash(m) PROVE calm' = {}
  BY <1>11 DEF Crash, DisturbsAll
<1>12. ASSUME NEW c \in Message, Deliver(c) PROVE calm' = {}
  BY <1>12 DEF Deliver, DisturbsAll
<1>13. calm' = {} => CalmOK'
  BY DEF CalmOK
<1>. QED  BY <1>4, <1>5, <1>6, <1>7, <1>8, <1>9, <1>10, <1>11, <1>12, <1>13 DEF Next, Step

LEMMA TellingNext == ASSUME Shape, Telling, [Next]_vars PROVE Telling'
<1>1. CASE Next
  BY <1>1, IndexTellsNext, WorkersTellNext, CalmNext DEF Telling
<1>2. CASE UNCHANGED vars
  <2>1. /\ bucket' = bucket /\ host' = host /\ index' = index /\ disk' = disk
        /\ pc' = pc /\ mem' = mem /\ calm' = calm
    BY <1>2 DEF vars, shared, local
  <2>2. IndexTells' /\ WorkersTell'
    BY <2>1 DEF Telling, IndexTells, WorkersTell
  <2>3. CalmOK'
    BY <2>1 DEF Telling, CalmOK, OnTheWay, Known, Index
  <2>. QED  BY <2>2, <2>3 DEF Telling
<1>. QED  BY <1>1, <1>2

LEMMA InitTelling == ASSUME Init PROVE Telling
<1>. DEFINE i == [k \in {Home(Old)} |-> [etag |-> Old, shows |-> Old]]
<1>1. Old \in Message
  BY MailboxAssumption
<1>2. TellsAll(i)
  <2>1. ContentOf(Mid(Home(Old))) = Old
    BY <1>1, FirstKeys
  <2>. QED  BY <2>1 DEF TellsAll, Tells
<1>3. index = [m \in Machine |-> i] /\ disk = index
  BY DEF Init
<1>. HIDE DEF i
<1>4. IndexTells
  BY <1>2, <1>3 DEF IndexTells
<1>5. Brings("idle", Blank)
  <2>1. Blank.fresh = <<>> /\ Blank.listing = <<>> /\ DOMAIN <<>> = {}
    BY DEF Blank
  <2>. QED  BY <2>1 DEF Brings, TellsAll
<1>6. WorkersTell
  BY <1>5 DEF WorkersTell, Init
<1>7. CalmOK
  BY DEF CalmOK, Init
<1>. QED  BY <1>4, <1>6, <1>7 DEF Telling

\* Where a Refresh puts its entries and nothing was disturbed since it began,
\* the index is the bucket.
LEMMA InstalledIsTrue ==
  ASSUME Shape, Telling, NEW w \in calm, Install(w)
  PROVE  LET i == index'[host[w]] IN
         /\ DOMAIN i = DOMAIN bucket
         /\ \A k \in DOMAIN i : /\ i[k].etag = bucket[k]
                                /\ i[k].shows \in {bucket[k], Unreadable}
<1>. DEFINE i == Index(w)
            f == mem[w].fresh
            j == Over(f, i)
<1>1. w \in Worker /\ host[w] \in Machine /\ DOMAIN index = Machine
  BY DEF Shape, TallyOK, IndexOK
<1>2. index'[host[w]] = j /\ pc[w] = "fetch" /\ mem[w].todo = {}
  BY <1>1 DEF Install, SetIndex
<1>3. OnTheWay("fetch", mem[w], i)
  BY <1>2 DEF Telling, CalmOK
<1>4. TellsAll(f) /\ TellsAll(i)
  BY <1>1 DEF Telling, IndexTells, WorkersTell, Brings, Index
<1>5. \A k \in DOMAIN bucket : bucket[k] = ContentOf(Mid(k))
  BY DEF Shape, BucketOK
<1>6. /\ DOMAIN j = DOMAIN f \cup DOMAIN i
      /\ \A k \in DOMAIN j : j[k] = IF k \in DOMAIN f THEN f[k] ELSE i[k]
  BY DEF Over
<1>. HIDE DEF i, f, j
<1>7. DOMAIN j = DOMAIN bucket
  BY <1>2, <1>3, <1>6 DEF OnTheWay, Known, f
<1>8. ASSUME NEW k \in DOMAIN j
      PROVE  j[k].etag = bucket[k] /\ j[k].shows \in {bucket[k], Unreadable}
  <2>1. CASE k \in DOMAIN f
    BY <1>3, <1>4, <1>5, <1>6, <1>7, <2>1 DEF OnTheWay, TellsAll, Tells, f
  <2>2. CASE k \notin DOMAIN f
    BY <1>2, <1>3, <1>4, <1>5, <1>6, <1>7, <2>2 DEF OnTheWay, Known, TellsAll, Tells, f
  <2>. QED  BY <2>1, <2>2
<1>. QED  BY <1>2, <1>7, <1>8

\* Whatever earlier refreshes, moves, drafts and crashes left in an index and in
\* its cache file: a Refresh that nothing disturbs makes it the bucket again
\* (mail.go: Refresh drops what is not listed and reads what has another ETag).
THEOREM IndexIsTrue == Spec => IndexTrue
<1>1. Init => Shape /\ Telling
  BY InitShape, InitTelling
<1>2. Shape /\ Telling /\ [Next]_vars => (Shape /\ Telling)'
  BY ShapeNext, TellingNext
<1>3. Shape /\ Telling /\ [Next]_vars =>
        [\A w \in calm :
           Install(w) =>
             LET i == index'[host[w]] IN
             /\ DOMAIN i = DOMAIN bucket
             /\ \A k \in DOMAIN i : /\ i[k].etag = bucket[k]
                                    /\ i[k].shows \in {bucket[k], Unreadable}]_vars
  BY InstalledIsTrue
<1>. QED  BY <1>1, <1>2, <1>3, PTL DEF Spec, IndexTrue

-----------------------------------------------------------------------------
(* Folds, op by op.                                                          *)

LEMMA GreatestOfFirst == ASSUME NEW k \in Nat, k > 0 PROVE Max(1 .. k) = k
<1>1. k \in 1 .. k /\ \A y \in 1 .. k : k >= y
  OBVIOUS
<1>2. \A x \in 1 .. k : (\A y \in 1 .. k : x >= y) => x = k
  BY <1>1
<1>. QED  BY <1>1, <1>2 DEF Max

\* A fold is what the last op makes of what those before it left.
LEMMA FoldSteps ==
  ASSUME NEW base, NEW S, NEW list \in Seq(S)
  PROVE  \E g : /\ g[0] = base
                /\ \A k \in 1 .. Len(list) : g[k] = Apply(g[k - 1], list[k])
                /\ FoldLeft(Apply, base, list) = g[Len(list)]
<1>. DEFINE n == Len(list)
            F == FoldOver(base, list)
            g == [k \in 0 .. n |-> F[1 .. k]]
<1>1. DOMAIN list = 1 .. n /\ n \in Nat
  OBVIOUS
<1>2. \A s \in SUBSET DOMAIN list : F[s] = Below(base, list, F, s)
  <2>1. F = [s \in SUBSET DOMAIN list |-> Below(base, list, F, s)]
    BY FoldExists
  <2>. HIDE DEF F
  <2>. QED  BY <2>1
<1>3. FoldLeft(Apply, base, list) = F[1 .. n]
  BY <1>1, FoldIsOver
<1>. HIDE DEF F
<1>4. g[0] = base
  <2>1. 1 .. 0 = {} /\ {} \in SUBSET DOMAIN list /\ 0 \in 0 .. n
    BY <1>1
  <2>2. F[{}] = base
    BY <1>2, <2>1 DEF Below
  <2>. QED  BY <2>1, <2>2
<1>5. ASSUME NEW k \in 1 .. n PROVE g[k] = Apply(g[k - 1], list[k])
  <2>1. k \in Nat /\ k > 0 /\ k - 1 \in 0 .. n /\ k \in 0 .. n /\ 1 .. k \in SUBSET DOMAIN list
    BY <1>1
  <2>2. Max(1 .. k) = k
    BY <2>1, GreatestOfFirst
  <2>3. (1 .. k) \ {k} = 1 .. (k - 1) /\ 1 .. k # {}
    BY SMTT(30), <2>1
  <2>4. F[1 .. k] = Apply(F[1 .. (k - 1)], list[k])
    BY <1>2, <2>1, <2>2, <2>3 DEF Below
  <2>. QED  BY <2>1, <2>4
<1>6. FoldLeft(Apply, base, list) = g[n]
  BY <1>1, <1>3
<1>. HIDE DEF g, n
<1>. QED  BY <1>4, <1>5, <1>6 DEF n

LEMMA FoldNone == ASSUME NEW base PROVE FoldLeft(Apply, base, <<>>) = base
<1>1. <<>> \in Seq(Nat) /\ Len(<<>>) = 0
  OBVIOUS
<1>. QED  BY ZenonT(30), <1>1, FoldSteps

LEMMA FoldAppend ==
  ASSUME NEW base, NEW S, NEW list \in Seq(S), NEW op \in S
  PROVE  FoldLeft(Apply, base, Append(list, op)) = Apply(FoldLeft(Apply, base, list), op)
<1>. DEFINE n == Len(list)
            more == Append(list, op)
<1>1. /\ n \in Nat /\ more \in Seq(S) /\ Len(more) = n + 1 /\ more[n + 1] = op
      /\ \A k \in 1 .. n : more[k] = list[k]
  OBVIOUS
<1>2. PICK g : /\ g[0] = base
               /\ \A k \in 1 .. n : g[k] = Apply(g[k - 1], list[k])
               /\ FoldLeft(Apply, base, list) = g[n]
  BY ZenonT(30), FoldSteps
<1>. HIDE DEF more
<1>3. more \in Seq(S)
  BY <1>1
<1>4. PICK h : /\ h[0] = base
               /\ \A k \in 1 .. Len(more) : h[k] = Apply(h[k - 1], more[k])
               /\ FoldLeft(Apply, base, more) = h[Len(more)]
  BY ZenonT(30), <1>3, FoldSteps
<1>. DEFINE Bad == {k \in 0 .. n : g[k] # h[k]}
<1>5. Bad = {}
  <2>. SUFFICES ASSUME Bad # {} PROVE FALSE
    OBVIOUS
  <2>1. Bad \in SUBSET Nat
    OBVIOUS
  <2>2. PICK k \in Bad : \A j \in Bad : k =< j
    BY <2>1, LeastNumber
  <2>3. k \in 1 .. n /\ k - 1 \in 0 .. n /\ k - 1 \notin Bad
    <3>1. k \in 0 .. n /\ k # 0
      BY <1>2, <1>4
    <3>2. k \in 1 .. n /\ k - 1 \in 0 .. n /\ ~ (k =< k - 1)
      BY <1>1, <3>1
    <3>. HIDE DEF Bad
    <3>. QED  BY <2>2, <3>2
  <2>4. g[k] = Apply(g[k - 1], list[k]) /\ h[k] = Apply(h[k - 1], list[k])
    BY <1>1, <1>2, <1>4, <2>3
  <2>. QED  BY <2>3, <2>4
<1>6. g[n] = h[n] /\ n + 1 \in 1 .. Len(more) /\ n + 1 - 1 = n
  BY <1>1, <1>5
<1>. QED  BY <1>1, <1>2, <1>4, <1>6 DEF more

-----------------------------------------------------------------------------
(* Batches: what waits to be written, and what drafts there are to drop.     *)

LEMMA BatchFlushed ==
  ASSUME Shape, BatchOpen, NEW w \in Worker, NEW list, Flush(w, list), host' = host,
         NEW step, NEW x, Goto(w, step, x)
  PROVE  BatchOpen'
<1>1. pc' = [pc EXCEPT ![w] = step] /\ DOMAIN pc = Worker
  BY DEF Goto, Shape, WorkersOK
<1>2. host[w] \in Machine /\ DOMAIN pend = Machine
  BY DEF Shape, IndexOK, StateOK
<1>3. \/ Batched(w) /\ pend' = [pend EXCEPT ![host[w]] = list]
      \/ pend' = [pend EXCEPT ![host[w]] = <<>>]
  BY DEF Flush
<1>4. ASSUME NEW m \in Machine, m # host[w], pend'[m] # <<>>
      PROVE  \E v \in Worker : host[v] = m /\ pc'[v] \in BatchStep
  <2>1. pend[m] # <<>>
    BY <1>2, <1>3, <1>4
  <2>2. PICK v \in Worker : host[v] = m /\ pc[v] \in BatchStep
    BY <2>1 DEF BatchOpen
  <2>. QED  BY <1>1, <1>4, <2>2
<1>5. ASSUME pend'[host[w]] # <<>>
      PROVE  \E v \in Worker : host[v] = host[w] /\ pc'[v] \in BatchStep
  BY <1>2, <1>3, <1>5 DEF Batched
<1>. QED  BY <1>4, <1>5 DEF BatchOpen

LEMMA BatchKept ==
  ASSUME Shape, BatchOpen, NEW w \in Worker, pend' = pend, host' = host,
         NEW step, NEW x, Goto(w, step, x), pc[w] \in BatchStep => step \in BatchStep
  PROVE  BatchOpen'
<1>1. pc' = [pc EXCEPT ![w] = step] /\ DOMAIN pc = Worker
  BY DEF Goto, Shape, WorkersOK
<1>2. \A v \in Worker : pc[v] \in BatchStep => pc'[v] \in BatchStep
  BY <1>1
<1>. QED  BY <1>2 DEF BatchOpen

\* Where every worker goes, and what becomes of what waits.
LEMMA BatchNext == ASSUME Shape, BatchOpen, Next PROVE BatchOpen'
<1>1. ASSUME NEW w \in Worker,
             Rule(w) \/ Reindex(w) \/ Save(w) \/ Forget(w) \/ Flag(w) \/ Strike(w)
      PROVE  BatchOpen'
  <2>1. host' = host /\ \E step, x : Goto(w, step, x)
    BY <1>1 DEF Rule, Reindex, Save, Forget, Flag, Strike, End
  <2>2. \/ \E list : Flush(w, list)
        \/ pend' = pend /\ Goto(w, "pick", [mem[w] EXCEPT !.inARow = 0])
    BY <1>1 DEF Rule, Reindex, Save, Forget, Flag, Strike, Mutate
  <2>. QED  BY <2>1, <2>2, BatchFlushed, BatchKept DEF BatchStep
<1>2. ASSUME NEW w \in Worker,
             \/ List(w) \/ Compare(w) \/ Fetch(w) \/ Install(w) \/ Plan(w) \/ RulesDone(w)
             \/ Pick(w) \/ Copy(w) \/ Delete(w) \/ MoveDone(w) \/ PurgeOne(w)
             \/ PurgeDone(w) \/ Put(w) \/ Note(w) \/ DropObject(w) \/ Dropped(w)
      PROVE  BatchOpen'
  <2>1. pend' = pend /\ host' = host
    BY <1>2 DEF List, Compare, Fetch, Install, Plan, RulesDone, Pick, Copy, Delete,
       MoveDone, PurgeOne, PurgeDone, Put, Note, DropObject, Dropped, local
  <2>2. mem[w].back \in {"save", "rule"}
    BY DEF Shape, WorkersOK, MemOK
  <2>3. ASSUME NotMoved(w) PROVE \E step \in {"save", "pick"} : \E x : Goto(w, step, x)
    BY <2>3 DEF NotMoved
  <2>4. \E step, x : Goto(w, step, x) /\ (pc[w] \in BatchStep => step \in BatchStep)
    <3>1. CASE RulesDone(w) \/ Pick(w) \/ MoveDone(w) \/ PurgeOne(w) \/ PurgeDone(w)
      <4>1. \E step \in BatchStep : \E x : Goto(w, step, x)
        BY <2>2, <3>1 DEF RulesDone, Pick, MoveDone, PurgeOne, PurgeDone, BatchStep
      <4>. QED  BY <4>1
    <3>2. CASE Copy(w) \/ Delete(w)
      <4>1. \E step \in {"save", "pick", "delete", "reindex"} : \E x : Goto(w, step, x)
        BY <2>3, <3>2 DEF Copy, Delete
      <4>. QED  BY <4>1 DEF BatchStep
    <3>3. CASE \/ List(w) \/ Compare(w) \/ Fetch(w) \/ Install(w) \/ Plan(w)
               \/ Put(w) \/ Note(w) \/ DropObject(w) \/ Dropped(w)
      <4>1. pc[w] \in RefreshStep \cup DraftStep /\ \E step, x : Goto(w, step, x)
        BY <3>3 DEF List, Compare, Fetch, Install, Plan, Put, Note, DropObject, Dropped, End,
           RefreshStep, DraftStep
      <4>. QED  BY <4>1 DEF RefreshStep, DraftStep, BatchStep
    <3>. QED  BY <1>2, <3>1, <3>2, <3>3
  <2>. QED  BY SMTT(30), <2>1, <2>4, BatchKept
<1>3. ASSUME NEW w \in Worker,
             \/ Refresh(w) \/ SaveDraft(w) \/ DropDraft(w)
             \/ \E K \in SUBSET InTrash(w) : Purge(w, K)
             \/ \E K \in SUBSET DOMAIN Index(w) : \E f \in Folder \ {Drafts} : Move(w, K, f)
      PROVE  BatchOpen'
  <2>1. /\ pend' = pend /\ host' = host /\ pc[w] = "idle" /\ \E step, x : Goto(w, step, x)
    BY <1>3 DEF Refresh, SaveDraft, DropDraft, Purge, Move, Begin, Idle
  <2>. QED  BY <2>1, BatchKept DEF BatchStep
<1>4. ASSUME NEW m \in Machine, Crash(m) PROVE BatchOpen'
  <2>. DEFINE Here == {w \in Worker : host[w] = m}
  <2>1. /\ pc' = [w \in Worker |-> IF w \in Here THEN "idle" ELSE pc[w]]
        /\ pend' = [pend EXCEPT ![m] = <<>>] /\ host' = host /\ DOMAIN pend = Machine
    BY <1>4 DEF Crash, Shape, StateOK
  <2>2. \A v \in Worker : host[v] # m => pc'[v] = pc[v]
    BY <2>1
  <2>. QED  BY <2>1, <2>2 DEF BatchOpen
<1>5. ASSUME NEW c \in Message, Deliver(c) PROVE BatchOpen'
  BY <1>5 DEF Deliver, local, BatchOpen
<1>. QED  BY <1>1, <1>2, <1>3, <1>4, <1>5 DEF Next, Step

LEMMA WorkerDrafts ==
  ASSUME Shape, DraftsOnly, NEW w \in Worker, NEW step, NEW x, Goto(w, step, x),
         DraftWork(step, x)
  PROVE  DraftsOnly'
<1>1. pc' = [pc EXCEPT ![w] = step] /\ mem' = [mem EXCEPT ![w] = x]
  BY DEF Goto
<1>2. DOMAIN pc = Worker /\ DOMAIN mem = Worker
  BY DEF Shape, WorkersOK
<1>3. \A v \in Worker : DraftWork(pc'[v], mem'[v])
  BY <1>1, <1>2 DEF DraftsOnly
<1>. QED  BY <1>3 DEF DraftsOnly

LEMMA DraftsNext == ASSUME Shape, DraftsOnly, Next PROVE DraftsOnly'
<1>1. /\ \A n \in 1 .. MaxSaves : IsDraft(Mid(DraftKey(n)))
      /\ saves \in 0 .. MaxSaves /\ 1 .. saves \subseteq 1 .. MaxSaves
  <2>1. \A n \in 1 .. MaxSaves : Draft(n) \notin Message
    BY MailboxAssumption DEF Draft
  <2>2. \A n \in 1 .. MaxSaves : Mid(DraftKey(n)) = Draft(n)
    BY <2>1 DEF Mid, DraftKey, KeyFor, BaseName
  <2>3. saves \in 0 .. MaxSaves /\ MaxSaves \in Nat
    BY MailboxAssumption DEF Shape, TallyOK
  <2>. QED  BY <2>2, <2>3 DEF IsDraft
<1>2. \A step : step \notin DraftStep => \A x : DraftWork(step, x)
  BY DEF DraftWork, DraftStep
<1>3. \A w \in Worker : DOMAIN mem[w] = DOMAIN Blank /\ DraftWork(pc[w], mem[w])
  BY DEF Shape, WorkersOK, MemOK, DraftsOnly
<1>4. ASSUME NEW w \in Worker,
             \/ List(w) \/ Compare(w) \/ Fetch(w) \/ Install(w) \/ Plan(w) \/ Rule(w)
             \/ RulesDone(w) \/ Pick(w) \/ Copy(w) \/ Delete(w) \/ Reindex(w)
             \/ MoveDone(w) \/ Save(w) \/ PurgeOne(w) \/ Forget(w) \/ PurgeDone(w)
             \/ Strike(w) \/ Refresh(w)
             \/ \E K \in SUBSET InTrash(w) : Purge(w, K)
             \/ \E K \in SUBSET DOMAIN Index(w) : \E f \in Folder \ {Drafts} : Move(w, K, f)
      PROVE  DraftsOnly'
  <2>1. mem[w].back \in {"save", "rule"}
    BY DEF Shape, WorkersOK, MemOK
  <2>2. ASSUME NotMoved(w) PROVE \E step \in {"save", "pick"} : \E x : Goto(w, step, x)
    BY <2>2 DEF NotMoved
  <2>3. \E step \in {"idle"} \cup RefreshStep \cup BatchStep : \E x : Goto(w, step, x)
    BY <1>4, <2>1, <2>2 DEF List, Compare, Fetch, Install, Plan, Rule, RulesDone, Pick, Copy,
       Delete, Reindex, MoveDone, Save, PurgeOne, Forget, PurgeDone, Strike, Refresh, Purge,
       Move, Begin, End, RefreshStep, BatchStep
  <2>4. \A step \in {"idle"} \cup RefreshStep \cup BatchStep : step \notin DraftStep
    BY DEF RefreshStep, BatchStep, DraftStep
  <2>. QED  BY SMTT(30), <1>2, <2>3, <2>4, WorkerDrafts
<1>5. ASSUME NEW w \in Worker, Put(w) PROVE DraftsOnly'
  <2>. DEFINE e == [etag |-> NoETag, shows |-> Draft(saves')]
              x == [mem[w] EXCEPT !.to = DraftKey(saves'), !.entry = e]
  <2>1. pc[w] = "put" /\ (Goto(w, "flag", x) \/ Goto(w, "idle", Blank))
    BY <1>5 DEF Put, End
  <2>2. x.to = DraftKey(saves') /\ x.from = mem[w].from
    BY <1>3, BlankMem
  <2>. HIDE DEF x, e
  <2>3. saves' \in 1 .. MaxSaves
    BY <1>1, <1>5, MailboxAssumption DEF Put
  <2>4. DraftWork("flag", x)
    BY <1>1, <1>3, <2>1, <2>2, <2>3 DEF DraftWork
  <2>5. DraftWork("idle", Blank)
    BY <1>2 DEF DraftStep
  <2>. QED  BY <2>1, <2>4, <2>5, WorkerDrafts
<1>6. ASSUME NEW w \in Worker, Flag(w) \/ DropObject(w) \/ Dropped(w) PROVE DraftsOnly'
  <2>1. \/ pc[w] = "flag" /\ Goto(w, "note", mem[w])
        \/ pc[w] = "drop" /\ Goto(w, "dropped", mem[w])
        \/ pc[w] = "dropped" /\ Goto(w, "strike", mem[w])
        \/ Goto(w, "idle", Blank)
    BY <1>6 DEF Flag, DropObject, Dropped, End
  <2>2. /\ pc[w] = "flag" => DraftWork("note", mem[w])
        /\ pc[w] = "drop" => DraftWork("dropped", mem[w])
        /\ pc[w] = "dropped" => DraftWork("strike", mem[w])
        /\ DraftWork("idle", Blank)
    BY <1>3 DEF DraftWork
  <2>. QED  BY <2>1, <2>2, WorkerDrafts
<1>7. ASSUME NEW w \in Worker, Note(w) PROVE DraftsOnly'
  <2>. DEFINE x == [Blank EXCEPT !.from = mem[w].from]
  <2>1. /\ pc[w] = "note"
        /\ Goto(w, "idle", Blank) \/ (mem[w].from # <<>> /\ Goto(w, "drop", x))
    BY <1>7 DEF Note, End
  <2>2. x.from = mem[w].from
    BY BlankMem
  <2>. HIDE DEF x
  <2>3. mem[w].from # <<>> => DraftWork("drop", x)
    BY <1>3, <2>1, <2>2 DEF DraftWork
  <2>4. DraftWork("idle", Blank)
    BY <1>2 DEF DraftStep
  <2>. QED  BY <2>1, <2>3, <2>4, WorkerDrafts
<1>8. ASSUME NEW w \in Worker, SaveDraft(w) \/ DropDraft(w) PROVE DraftsOnly'
  <2>1. PICK old \in {<<>>} \cup OldDrafts(w) :
           \/ Goto(w, "put", [Blank EXCEPT !.from = old])
           \/ old # <<>> /\ Goto(w, "drop", [Blank EXCEPT !.from = old])
    <3>1. \A k \in OldDrafts(w) : k # <<>>
      BY DEF OldDrafts, DraftKey, KeyFor
    <3>. QED  BY <1>8, <3>1 DEF SaveDraft, DropDraft, Begin
  <2>. DEFINE x == [Blank EXCEPT !.from = old]
  <2>2. x.from = old
    BY BlankMem
  <2>3. old = <<>> \/ IsDraft(Mid(old))
    BY <1>1 DEF OldDrafts
  <2>. HIDE DEF x
  <2>4. DraftWork("put", x) /\ (old # <<>> => DraftWork("drop", x))
    BY <2>2, <2>3 DEF DraftWork
  <2>. QED  BY <2>1, <2>4, WorkerDrafts DEF x
<1>9. ASSUME NEW m \in Machine, Crash(m) PROVE DraftsOnly'
  <2>. DEFINE Here == {w \in Worker : host[w] = m}
  <2>1. /\ pc' = [w \in Worker |-> IF w \in Here THEN "idle" ELSE pc[w]]
        /\ mem' = [w \in Worker |-> IF w \in Here THEN Blank ELSE mem[w]]
    BY <1>9 DEF Crash
  <2>. HIDE DEF Here
  <2>2. DraftWork("idle", Blank)
    BY <1>2 DEF DraftStep
  <2>. QED  BY <1>3, <2>1, <2>2 DEF DraftsOnly
<1>10. ASSUME NEW c \in Message, Deliver(c) PROVE DraftsOnly'
  BY <1>10 DEF Deliver, DraftsOnly
<1>. QED  BY <1>4, <1>5, <1>6, <1>7, <1>8, <1>9, <1>10 DEF Next, Step

-----------------------------------------------------------------------------
(* Filing: the state as it will be written.                                  *)

LEMMA CurrentSame ==
  ASSUME doc' = doc, pend' = pend, host' = host
  PROVE  \A w : Current(w)' = Current(w)
BY DEF Current

LEMMA CurrentFlushed ==
  ASSUME Shape, NEW w \in Worker, NEW list, Flush(w, list), host' = host
  PROVE  Current(w)' = FoldLeft(Apply, doc, list)
<1>1. host[w] \in Machine /\ DOMAIN pend = Machine
  BY DEF Shape, IndexOK, StateOK
<1>2. CASE Batched(w)
  <2>1. doc' = doc /\ pend'[host[w]] = list
    BY <1>1, <1>2 DEF Flush
  <2>. QED  BY <2>1 DEF Current
<1>3. CASE ~ Batched(w)
  <2>1. doc' = FoldLeft(Apply, doc, list) /\ pend'[host[w]] = <<>>
    BY <1>1, <1>3 DEF Flush
  <2>2. Current(w)' = FoldLeft(Apply, doc', <<>>)
    BY <2>1 DEF Current
  <2>. QED  BY <2>1, <2>2, FoldNone
<1>. QED  BY <1>2, <1>3

LEMMA CurrentMutated ==
  ASSUME Shape, NEW w \in Worker, NEW op \in Ops, Mutate(w, op), host' = host
  PROVE  Current(w)' = Apply(Current(w), op)
<1>1. pend[host[w]] \in Seq(Ops)
  BY DEF Shape, StateOK, IndexOK
<1>2. Current(w)' = FoldLeft(Apply, doc, Append(pend[host[w]], op))
  BY CurrentFlushed DEF Mutate
<1>3. FoldLeft(Apply, doc, Append(pend[host[w]], op)) = Apply(FoldLeft(Apply, doc, pend[host[w]]), op)
  BY ZenonT(30), <1>1, FoldAppend
<1>4. Current(w) = FoldLeft(Apply, doc, pend[host[w]])
  BY DEF Current
<1>. QED  BY <1>2, <1>3, <1>4

\* What an op leaves of the marks that the rules set.
LEMMA OpsAndRuled ==
  ASSUME NEW d, NEW mid
  PROVE  /\ \A a : IsDoc(d) /\ RuledAt(d, mid) => RuledAt(Apply(d, Op("ruled", a)), mid)
         /\ IsDoc(d) => RuledAt(Apply(d, Op("ruled", mid)), mid)
         /\ \A a : IsDoc(d) /\ RuledAt(d, mid) => RuledAt(Apply(d, Op("flags", a)), mid)
         /\ \A a : a # mid /\ RuledAt(d, mid) => RuledAt(Apply(d, Op("drop", a)), mid)
         /\ \A a, b : b # mid /\ RuledAt(d, mid) =>
                        RuledAt(Apply(d, [t |-> "rekey", mid |-> a, new |-> b]), mid)
         /\ \A a : RuledAt(d, a) => RuledAt(Apply(d, [t |-> "rekey", mid |-> a, new |-> mid]), mid)
<1>1. \A a, v, y : StateOf(Set(d, a, v), y) = IF y = a THEN v ELSE StateOf(d, y)
  BY DEF Set, StateOf
<1>2. \A a, v : StateOf(Set(d, a, v), a) = v
  BY <1>1
<1>3. IsDoc(d) => \A a : StateOf(d, a) \in StateType
  BY DEF StateOf, NoState, IsDoc, StateType
<1>4. RuledAt(d, mid) => mid \in DOMAIN d
  BY DEF RuledAt, StateOf, NoState
<1>5. ASSUME IsDoc(d), NEW a
      PROVE  /\ RuledAt(d, mid) \/ mid = a => RuledAt(Apply(d, Op("ruled", a)), mid)
             /\ RuledAt(d, mid) => RuledAt(Apply(d, Op("flags", a)), mid)
  <2>. DEFINE r == [StateOf(d, a) EXCEPT !.ruled = TRUE]
              m == [StateOf(d, a) EXCEPT !.marks = TRUE]
  <2>1. Apply(d, Op("ruled", a)) = Set(d, a, r) /\ Apply(d, Op("flags", a)) = Set(d, a, m)
    BY DEF Apply, Op
  <2>2. r.ruled /\ m.ruled = StateOf(d, a).ruled
    BY <1>3, <1>5 DEF StateType
  <2>. HIDE DEF r, m
  <2>3. RuledAt(d, mid) \/ mid = a => StateOf(Set(d, a, r), mid).ruled
    BY <1>1, <2>2 DEF RuledAt
  <2>4. RuledAt(d, mid) => StateOf(Set(d, a, m), mid).ruled
    BY <1>1, <2>2 DEF RuledAt
  <2>. QED  BY <2>1, <2>3, <2>4 DEF RuledAt
<1>6. ASSUME NEW a, a # mid, RuledAt(d, mid) PROVE RuledAt(Apply(d, Op("drop", a)), mid)
  <2>1. Apply(d, Op("drop", a)) = Without(d, {a})
    BY DEF Apply, Op
  <2>. QED  BY <1>4, <1>6, <2>1 DEF RuledAt, StateOf, Without, Restrict
<1>7. ASSUME NEW a, NEW b, b # mid, RuledAt(d, mid)
       PROVE  RuledAt(Apply(d, [t |-> "rekey", mid |-> a, new |-> b]), mid)
  <2>1. Apply(d, [t |-> "rekey", mid |-> a, new |-> b]) = Rekey(d, a, b)
    BY DEF Apply
  <2>. QED  BY <1>1, <1>7, <2>1 DEF RuledAt, Rekey
<1>8. ASSUME NEW a, RuledAt(d, a)
       PROVE  RuledAt(Apply(d, [t |-> "rekey", mid |-> a, new |-> mid]), mid)
  <2>1. Apply(d, [t |-> "rekey", mid |-> a, new |-> mid]) = Rekey(d, a, mid)
    BY DEF Apply
  <2>2. a \in DOMAIN d
    BY <1>8 DEF RuledAt, StateOf, NoState
  <2>3. StateOf(d, a) = d[a]
    BY <2>2 DEF StateOf
  <2>. QED  BY <1>1, <1>8, <2>1, <2>2, <2>3 DEF RuledAt, Rekey
<1>. QED  BY <1>5, <1>6, <1>7, <1>8

-----------------------------------------------------------------------------
(* Filing: one worker at a time.                                             *)

\* What is known to be bare stays known.
LEMMA BareGrows == ASSUME Next PROVE bare \subseteq bare'
<1>1. ASSUME NEW w \in Worker, Step(w) PROVE bare \subseteq bare'
  <2>1. CASE Copy(w) \/ Delete(w) \/ Reindex(w) \/ Forget(w)
    BY <2>1 DEF Copy, Delete, Reindex, Forget
  <2>2. CASE ~ (Copy(w) \/ Delete(w) \/ Reindex(w) \/ Forget(w))
    BY <1>1, <2>2 DEF Step, List, Compare, Fetch, Install, Plan, Rule, RulesDone, Pick,
       MoveDone, Save, PurgeOne, PurgeDone, Put, Flag, Note,
       DropObject, Dropped, Strike, history
  <2>. QED  BY <2>1, <2>2
<1>2. ASSUME NEW w \in Worker,
             \/ Refresh(w) \/ SaveDraft(w) \/ DropDraft(w)
             \/ \E K \in SUBSET InTrash(w) : Purge(w, K)
             \/ \E K \in SUBSET DOMAIN Index(w) : \E f \in Folder \ {Drafts} : Move(w, K, f)
      PROVE  bare \subseteq bare'
  BY <1>2 DEF Refresh, SaveDraft, DropDraft, Purge, Move, Begin
<1>3. ASSUME NEW c \in Message, Deliver(c) PROVE bare \subseteq bare'
  BY <1>3 DEF Deliver
<1>4. ASSUME NEW m \in Machine, Crash(m) PROVE bare \subseteq bare'
  BY <1>4 DEF Crash
<1>. QED  BY <1>1, <1>2, <1>3, <1>4 DEF Next

\* What made things disorderly does so for good.
LEMMA OrderlyBefore == ASSUME Shape, Next, Orderly' PROVE Orderly
<1>1. failed \subseteq failed'
  <2>1. ASSUME NEW kind, Fault(kind) PROVE failed \subseteq failed'
    BY <2>1 DEF Fault
  <2>2. ASSUME Fine PROVE failed \subseteq failed'
    BY SMTT(30), <2>2 DEF Fine
  <2>3. ASSUME NEW w \in Worker, Step(w) PROVE failed \subseteq failed'
    BY <2>1, <2>2, <2>3 DEF Step, List, Compare, Fetch, Install, Plan, Rule, RulesDone, Pick,
       Copy, Delete, Reindex, MoveDone, Save, PurgeOne, Forget, PurgeDone, Put, Flag, Note,
       DropObject, Dropped, Strike, tally
  <2>4. ASSUME NEW w \in Worker,
               \/ Refresh(w) \/ SaveDraft(w) \/ DropDraft(w)
               \/ \E K \in SUBSET InTrash(w) : Purge(w, K)
               \/ \E K \in SUBSET DOMAIN Index(w) : \E f \in Folder \ {Drafts} : Move(w, K, f)
        PROVE  failed \subseteq failed'
    BY <2>4 DEF Refresh, SaveDraft, DropDraft, Purge, Move, Begin
  <2>5. ASSUME NEW c \in Message, Deliver(c) PROVE failed \subseteq failed'
    BY <2>5 DEF Deliver
  <2>6. ASSUME NEW m \in Machine, Crash(m) PROVE failed \subseteq failed'
    BY <2>1, <2>6 DEF Crash
  <2>. QED  BY <2>3, <2>4, <2>5, <2>6 DEF Next
<1>2. bare \subseteq bare'
  BY BareGrows
<1>3. overlap => overlap'
  <2>1. ASSUME NEW w \in Worker, Step(w) PROVE overlap' = overlap
    BY <2>1 DEF Step, List, Compare, Fetch, Install, Plan, Rule, RulesDone, Pick,
       Copy, Delete, Reindex, MoveDone, Save, PurgeOne, Forget, PurgeDone, Put, Flag, Note,
       DropObject, Dropped, Strike, history
  <2>2. ASSUME NEW w \in Worker,
               \/ Refresh(w) \/ SaveDraft(w) \/ DropDraft(w)
               \/ \E K \in SUBSET InTrash(w) : Purge(w, K)
               \/ \E K \in SUBSET DOMAIN Index(w) : \E f \in Folder \ {Drafts} : Move(w, K, f)
        PROVE  overlap' = (overlap \/ \E v \in Worker \ {w} : ~Idle(v))
    BY <2>2 DEF Refresh, SaveDraft, DropDraft, Purge, Move, Begin
  <2>3. ASSUME NEW c \in Message, Deliver(c) PROVE overlap' = overlap
    BY <2>3 DEF Deliver
  <2>4. ASSUME NEW m \in Machine, Crash(m) PROVE overlap' = overlap
    BY <2>4 DEF Crash
  <2>. QED  BY <2>1, <2>2, <2>3, <2>4, ZenonT(30) DEF Next
<1>4. ~ overlap
  BY <1>3, Zenon DEF Orderly
<1>. QED  BY <1>1, <1>2, <1>4 DEF Orderly

\* A worker that does something while all is orderly is the only one.
LEMMA StepsAlone ==
  ASSUME Shape, InTurn, Orderly, NEW w \in Worker, pc[w] # "idle"
  PROVE  Alone(w) /\ Filing(w) /\ FiledWell
<1>1. Alone(w)
  BY DEF InTurn, Alone
<1>. QED  BY <1>1 DEF InTurn

LEMMA BeginsAlone ==
  ASSUME Shape, InTurn, Orderly, Orderly', NEW w \in Worker, NEW step, NEW x, Begin(w, step, x)
  PROVE  Alone(w) /\ Filing(w) /\ FiledWell
<1>1. ~ \E v \in Worker \ {w} : ~Idle(v)
  <2>1. overlap' = (overlap \/ \E v \in Worker \ {w} : ~Idle(v))
    BY DEF Begin
  <2>2. ~ overlap'
    BY DEF Orderly
  <2>. QED  BY <2>1, <2>2, Zenon
<1>2. Alone(w)
  BY <1>1 DEF Alone, Idle
<1>. QED  BY <1>2 DEF InTurn

\* Only a machine whose worker is busy has something to write.
LEMMA NothingElseWaits ==
  ASSUME Shape, BatchOpen, NEW w \in Worker, Alone(w)
  PROVE  /\ \A m \in Machine : m # host[w] => pend[m] = <<>>
         /\ pc[w] \notin BatchStep => /\ pend[host[w]] = <<>>
                                      /\ \A v \in Worker : Current(v) = doc
<1>1. "idle" \notin BatchStep
  BY DEF BatchStep
<1>2. \A m \in Machine : pend[m] # <<>> => host[w] = m /\ pc[w] \in BatchStep
  BY <1>1 DEF BatchOpen, Alone
<1>3. \A v \in Worker : host[v] \in Machine
  BY DEF Shape, IndexOK
<1>4. ASSUME pc[w] \notin BatchStep, NEW v \in Worker PROVE Current(v) = doc
  BY <1>2, <1>3, <1>4, FoldNone DEF Current
<1>. QED  BY <1>2, <1>3, <1>4

\* It suffices to look at the one worker.
LEMMA OneWorker ==
  ASSUME Shape, Shape', BatchOpen', NEW w \in Worker, Alone(w), NEW step, NEW x, Goto(w, step, x),
         Filing(w)', FiledWell'
  PROVE  InTurn'
<1>1. /\ pc' = [pc EXCEPT ![w] = step] /\ DOMAIN pc = Worker
      /\ \A v \in Worker \ {w} : pc'[v] = "idle"
  BY DEF Goto, Shape, WorkersOK, Alone
<1>2. \A u, v \in Worker : pc'[u] # "idle" /\ pc'[v] # "idle" => u = v
  BY <1>1
<1>3. ASSUME NEW u \in Worker, Alone(u)', u # w PROVE Filing(u)'
  <2>1. pc'[u] = "idle" /\ pc'[w] = "idle"
    BY <1>1, <1>3 DEF Alone
  <2>2. Alone(w)' /\ "idle" \notin BatchStep
    BY <1>1 DEF Alone, BatchStep
  <2>3. Current(u)' = Current(w)'
    <3>1. \A m \in Machine : pend'[m] = <<>>
      BY <1>1, <2>1, <2>2 DEF BatchOpen
    <3>2. host'[u] \in Machine /\ host'[w] \in Machine
      BY DEF Shape, IndexOK
    <3>3. pend'[host'[u]] = <<>> /\ pend'[host'[w]] = <<>>
      BY <3>1, <3>2
    <3>. QED  BY <3>3 DEF Current
  <2>4. OneCopy(u)'
    BY <2>1 DEF Filing, OneCopy
  <2>5. FiledIsRuled(u)'
    BY <2>1, <2>3 DEF Filing, FiledIsRuled, RuledFor
  <2>6. UpToDate(u)'
    BY <2>1 DEF UpToDate, RefreshStep
  <2>7. FilesOnce(u)'
    BY <2>1 DEF FilesOnce, ToFile, AtHand
  <2>. QED  BY <2>4, <2>5, <2>6, <2>7 DEF Filing
<1>. QED  BY <1>2, <1>3 DEF InTurn

\* A step that does not move, file or refresh.
LEMMA LeavesRefresh ==
  ASSUME Shape, NEW w \in Worker, NEW step, NEW x, Goto(w, step, x), step \notin RefreshStep
  PROVE  UpToDate(w)'
<1>1. pc'[w] = step
  BY DEF Goto, Shape, WorkersOK
<1>. QED  BY <1>1 DEF UpToDate, RefreshStep

LEMMA LeavesRules ==
  ASSUME Shape, NEW w \in Worker, NEW step, NEW x, Goto(w, step, x),
         step \notin {"rule", "pick", "copy", "delete", "reindex"}
  PROVE  FilesOnce(w)'
<1>1. pc'[w] = step
  BY DEF Goto, Shape, WorkersOK
<1>2. AtHand(w)' = {} /\ ToFile(w)' = {}
  BY <1>1 DEF AtHand, ToFile
<1>. QED  BY <1>1, <1>2 DEF FilesOnce

\* Of the mail nothing comes, moves, or loses its mark.
LEMMA FilingGoes ==
  ASSUME Shape, NEW w \in Worker, Filing(w), NEW step, NEW x, Goto(w, step, x),
         pc[w] \notin {"delete", "reindex"}, step \notin {"delete", "reindex"}, filed' = filed,
         \A k \in DOMAIN bucket' :
           bucket'[k] \in Message =>
             /\ k \in DOMAIN bucket /\ bucket'[k] = bucket[k]
             /\ RuledFor(w, Mid(k)) => RuledFor(w, Mid(k))',
         UpToDate(w)', FilesOnce(w)'
  PROVE  Filing(w)'
<1>1. pc'[w] = step
  BY DEF Goto, Shape, WorkersOK
<1>2. OneCopy(w)'
  BY <1>1 DEF Filing, OneCopy
<1>3. FiledIsRuled(w)'
  BY <1>1 DEF Filing, FiledIsRuled
<1>. QED  BY <1>2, <1>3 DEF Filing

LEMMA PlainFiling ==
  ASSUME Shape, NEW w \in Worker, Filing(w), NEW step, NEW x, Goto(w, step, x),
         pc[w] \notin {"delete", "reindex"},
         step \notin RefreshStep \cup {"rule", "pick", "copy", "delete", "reindex"},
         filed' = filed,
         \A k \in DOMAIN bucket' :
           bucket'[k] \in Message =>
             /\ k \in DOMAIN bucket /\ bucket'[k] = bucket[k]
             /\ RuledFor(w, Mid(k)) => RuledFor(w, Mid(k))'
  PROVE  Filing(w)'
BY FilingGoes, LeavesRefresh, LeavesRules

\* The state stays what it is going to be.
LEMMA RuledSame ==
  ASSUME NEW w, Current(w)' = Current(w)
  PROVE  \A mid : RuledFor(w, mid)' = RuledFor(w, mid)
BY DEF RuledFor, RuledAt

LEMMA FiledSame ==
  ASSUME FiledWell, filed' = filed, arrived \subseteq arrived' PROVE FiledWell'
BY DEF FiledWell

\* Drafts, deleting for good, and the ends of operations.
LEMMA OtherFiling ==
  ASSUME Shape, Next, Orderly', NEW w \in Worker, Filing(w), FiledWell, Alone(w),
         BatchOpen, DraftsOnly,
         \/ RulesDone(w) \/ Save(w) \/ PurgeOne(w) \/ Forget(w) \/ PurgeDone(w) \/ Put(w)
         \/ Flag(w) \/ Note(w) \/ DropObject(w) \/ Dropped(w) \/ Strike(w)
  PROVE  Filing(w)' /\ FiledWell'
<1>1. /\ BucketOK /\ IsDoc(Current(w)) /\ arrived \subseteq arrived'
      /\ pend[host[w]] \in Seq(Ops)
  BY Grows, FoldDoc DEF Shape, StateOK, IndexOK, Current
<1>2. CASE RulesDone(w) \/ PurgeDone(w) \/ Note(w) \/ Dropped(w)
  <2>1. /\ pc[w] \notin {"delete", "reindex"} /\ filed' = filed /\ bucket' = bucket
        /\ doc' = doc /\ pend' = pend /\ host' = host
        /\ \E step \in {"idle", "flush", "save", "drop", "strike"} : \E x : Goto(w, step, x)
    BY <1>2 DEF RulesDone, PurgeDone, Note, Dropped, End, shared, local, history
  <2>2. \A mid : RuledFor(w, mid)' = RuledFor(w, mid)
    BY <2>1, CurrentSame, RuledSame
  <2>. QED  BY <1>1, <2>1, <2>2, PlainFiling, FiledSame DEF RefreshStep
<1>3. CASE Save(w)
  <2>1. /\ pc[w] \notin {"delete", "reindex"} /\ filed' = filed /\ bucket' = bucket
        /\ host' = host /\ Goto(w, "idle", Blank) /\ Flush(w, pend[host[w]])
    BY <1>3 DEF Save, End, history
  <2>2. Current(w)' = FoldLeft(Apply, doc, pend[host[w]])
    BY <2>1, CurrentFlushed
  <2>3. Current(w)' = Current(w)
    BY <2>2 DEF Current
  <2>4. \A mid : RuledFor(w, mid)' = RuledFor(w, mid)
    BY <2>3, RuledSame
  <2>. QED  BY <1>1, <2>1, <2>4, PlainFiling, FiledSame DEF RefreshStep
<1>4. CASE PurgeOne(w) \/ DropObject(w)
  <2>1. /\ pc[w] \notin {"delete", "reindex"} /\ filed' = filed
        /\ bucket' = bucket \/ \E k : bucket' = Without(bucket, {k})
        /\ doc' = doc /\ pend' = pend /\ host' = host
        /\ \E step \in {"forget", "save", "dropped", "idle"} : \E x : Goto(w, step, x)
    BY <1>4 DEF PurgeOne, DropObject, End, local
  <2>2. \A mid : RuledFor(w, mid)' = RuledFor(w, mid)
    BY <2>1, CurrentSame, RuledSame
  <2>3. \A k \in DOMAIN bucket' : k \in DOMAIN bucket /\ bucket'[k] = bucket[k]
    <3>1. \A S : \A k \in DOMAIN Without(bucket, S) :
            k \in DOMAIN bucket /\ Without(bucket, S)[k] = bucket[k]
      BY DEF Without, Restrict
    <3>. QED  BY <2>1, <3>1
  <2>. QED  BY <1>1, <2>1, <2>2, <2>3, PlainFiling, FiledSame DEF RefreshStep
<1>5. CASE Forget(w)
  <2>1. bare' # {}
    BY <1>5 DEF Forget
  <2>. QED  BY <2>1 DEF Orderly
<1>6. CASE Put(w)
  <2>1. /\ pc[w] \notin {"delete", "reindex"} /\ filed' = filed
        /\ bucket' = bucket \/ bucket' = Set(bucket, DraftKey(saves'), Draft(saves'))
        /\ doc' = doc /\ pend' = pend /\ host' = host
        /\ \E step \in {"flag", "idle"} : \E x : Goto(w, step, x)
    BY <1>6 DEF Put, End, local
  <2>2. \A mid : RuledFor(w, mid)' = RuledFor(w, mid)
    BY <2>1, CurrentSame, RuledSame
  <2>3. Draft(saves') \notin Message
    <3>1. saves' \in 1 .. MaxSaves
      BY <1>6, MailboxAssumption DEF Put, Shape, TallyOK
    <3>. QED  BY <3>1, MailboxAssumption DEF Draft
  <2>4. \A k \in DOMAIN bucket' : bucket'[k] \in Message =>
                                    k \in DOMAIN bucket /\ bucket'[k] = bucket[k]
    BY <2>1, <2>3 DEF Set
  <2>. QED  BY <1>1, <2>1, <2>2, <2>4, PlainFiling, FiledSame DEF RefreshStep
<1>7. CASE Flag(w)
  <2>. DEFINE op == Op("flags", Mid(mem[w].to))
  <2>1. /\ pc[w] = "flag" /\ filed' = filed /\ bucket' = bucket /\ host' = host
        /\ Mutate(w, op) /\ Goto(w, "note", mem[w])
    BY <1>7 DEF Flag, history
  <2>2. op \in Ops
    BY <2>1, KeyParts, OpsMade DEF Shape, WorkersOK, At
  <2>3. Current(w)' = Apply(Current(w), op)
    BY <2>1, <2>2, CurrentMutated
  <2>4. \A mid : RuledFor(w, mid) => RuledFor(w, mid)'
    BY <1>1, <2>3, OpsAndRuled DEF RuledFor
  <2>. QED  BY <1>1, <2>1, <2>4, PlainFiling, FiledSame DEF RefreshStep
<1>8. CASE Strike(w)
  <2>. DEFINE a == Mid(mem[w].from)
  <2>1. /\ pc[w] = "strike" /\ filed' = filed /\ bucket' = bucket /\ host' = host
        /\ Mutate(w, Op("drop", a)) /\ Goto(w, "idle", Blank)
    BY <1>8 DEF Strike, End, history
  <2>2. Op("drop", a) \in Ops
    BY <2>1, KeyParts, OpsMade DEF Shape, WorkersOK, At
  <2>3. Current(w)' = Apply(Current(w), Op("drop", a))
    BY <2>1, <2>2, CurrentMutated
  <2>4. IsDraft(a)
    BY <2>1 DEF DraftsOnly, DraftWork
  <2>5. ContentOf(a) \notin Message
    BY <2>4, MailboxAssumption DEF IsDraft, Draft, ContentOf
  <2>6. \A k \in DOMAIN bucket : bucket[k] \in Message => Mid(k) # a
    BY <1>1, <2>5 DEF BucketOK
  <2>. HIDE DEF a
  <2>7. \A mid : mid # a /\ RuledFor(w, mid) => RuledFor(w, mid)'
    BY <2>3, OpsAndRuled DEF RuledFor
  <2>. QED  BY <1>1, <2>1, <2>6, <2>7, PlainFiling, FiledSame DEF RefreshStep
<1>. QED  BY <1>2, <1>3, <1>4, <1>5, <1>6, <1>7, <1>8

\* Where a worker gets to.
LEMMA Goes ==
  ASSUME Shape, NEW w \in Worker, NEW step, NEW x, Goto(w, step, x)
  PROVE  pc'[w] = step /\ mem'[w] = x
BY DEF Goto, Shape, WorkersOK

\* Refresh: what it lists and reads is there, and so is what it installs.
LEMMA RefreshFiling ==
  ASSUME Shape, NEW w \in Worker, Filing(w), FiledWell,
         List(w) \/ Compare(w) \/ Fetch(w) \/ Install(w)
  PROVE  Filing(w)' /\ FiledWell'
<1>1. /\ pc[w] \in {"list", "compare", "fetch"}
      /\ bucket' = bucket /\ filed' = filed /\ arrived' = arrived
      /\ doc' = doc /\ pend' = pend /\ host' = host /\ view' = view
  BY DEF List, Compare, Fetch, Install, shared, local, history
<1>2. \E step \in {"idle"} \cup RefreshStep : \E x : Goto(w, step, x)
  BY DEF List, Compare, Fetch, Install, End, RefreshStep
<1>3. FiledWell'
  BY <1>1, FiledSame
<1>4. Current(w)' = Current(w) /\ \A mid : RuledFor(w, mid)' = RuledFor(w, mid)
  BY <1>1, CurrentSame, RuledSame
<1>5. View(w) = Current(w) /\ View(w)' = View(w)
  BY <1>1 DEF Filing, UpToDate, RefreshStep, View
<1>6. View(w)' = Current(w)'
  BY <1>4, <1>5
<1>7. FilesOnce(w)'
  BY <1>2, LeavesRules DEF RefreshStep
<1>8. SUFFICES UpToDate(w)'
  <2>1. \A step \in {"idle"} \cup RefreshStep : step \notin {"delete", "reindex"}
    BY DEF RefreshStep
  <2>. QED  BY <1>1, <1>2, <1>3, <1>4, <1>7, <1>8, <2>1, FilingGoes
<1>9. MemOK(mem[w]) /\ At(pc[w], mem[w], There) /\ host[w] \in Machine /\ DOMAIN index = Machine
  BY DEF Shape, WorkersOK, IndexOK
<1>10. CASE List(w)
  <2>1. ASSUME Goto(w, "compare", [Blank EXCEPT !.listing = bucket]) PROVE UpToDate(w)'
    <3>1. pc'[w] = "compare" /\ mem'[w] = [Blank EXCEPT !.listing = bucket]
      BY <2>1, Goes
    <3>2. mem'[w].listing = bucket /\ DOMAIN mem'[w].fresh = {}
      BY <3>1, BlankMem DEF Blank
    <3>. QED  BY <1>1, <1>6, <3>1, <3>2 DEF UpToDate
  <2>2. ASSUME Goto(w, "idle", Blank) PROVE UpToDate(w)'
    BY <2>2, LeavesRefresh DEF RefreshStep
  <2>. QED  BY <1>10, <2>1, <2>2 DEF List, End
<1>11. CASE Compare(w)
  <2>. DEFINE l == mem[w].listing
  <2>1. /\ pc'[w] = "fetch" /\ pc[w] = "compare"
        /\ mem'[w] = [mem[w] EXCEPT !.todo = ToFetch(Index(w), l)]
    <3>1. Goto(w, "fetch", [mem[w] EXCEPT !.todo = ToFetch(Index(w), l)])
      BY <1>11 DEF Compare
    <3>. QED  BY <1>11, <3>1, Goes DEF Compare
  <2>2. mem'[w].listing = l /\ mem'[w].fresh = mem[w].fresh
    BY <1>9, <2>1 DEF MemOK, Blank
  <2>3. Index(w)' = Present(Index(w), l)
    BY <1>1, <1>9, <1>11 DEF Compare, SetIndex, Index
  <2>4. DOMAIN Index(w)' \subseteq DOMAIN l
    <3>1. DOMAIN Present(Index(w), l) = DOMAIN Index(w) \cap DOMAIN l
      BY DEF Present, Restrict
    <3>. QED  BY <2>3, <3>1
  <2>5. DOMAIN l \cup DOMAIN mem[w].fresh \subseteq DOMAIN bucket
    BY <2>1 DEF Filing, UpToDate
  <2>. QED  BY <1>1, <1>6, <2>1, <2>2, <2>4, <2>5 DEF UpToDate
<1>12. CASE Fetch(w)
  <2>. DEFINE got(k, e) == [mem[w] EXCEPT !.todo = @ \ {k}, !.fresh = Set(@, k, e)]
  <2>1. PICK k, e : k \in mem[w].todo /\ pc[w] = "fetch" /\ Goto(w, "fetch", got(k, e))
    <3>1. (CHOOSE k \in mem[w].todo : TRUE) \in mem[w].todo
      BY <1>12 DEF Fetch
    <3>. QED  BY <1>12, <3>1 DEF Fetch
  <2>2. pc'[w] = "fetch" /\ mem'[w] = got(k, e)
    BY <2>1, Goes
  <2>3. mem'[w].listing = mem[w].listing /\ mem'[w].fresh = Set(mem[w].fresh, k, e)
    BY <1>9, <2>2 DEF MemOK, Blank
  <2>4. DOMAIN mem'[w].fresh = DOMAIN mem[w].fresh \cup {k}
    BY <2>3 DEF Set
  <2>5. k \in DOMAIN mem[w].listing
    BY <1>9, <2>1 DEF At
  <2>6. /\ DOMAIN mem[w].listing \cup DOMAIN mem[w].fresh \subseteq DOMAIN bucket
        /\ DOMAIN Index(w) \subseteq DOMAIN bucket
    BY <2>1 DEF Filing, UpToDate
  <2>7. Index(w)' = Index(w)
    BY <1>12 DEF Fetch, local, Index
  <2>. QED  BY <1>1, <1>6, <2>2, <2>3, <2>4, <2>5, <2>6, <2>7 DEF UpToDate
<1>13. CASE Install(w)
  <2>1. /\ pc[w] = "fetch" /\ SetIndex(w, Over(mem[w].fresh, Index(w)))
        /\ Goto(w, "plan", Blank) \/ Goto(w, "idle", Blank)
    BY <1>13 DEF Install, End
  <2>2. Index(w)' = Over(mem[w].fresh, Index(w))
    BY <1>1, <1>9, <2>1 DEF SetIndex, Index
  <2>3. DOMAIN Index(w)' = DOMAIN mem[w].fresh \cup DOMAIN Index(w)
    BY <2>2 DEF Over
  <2>4. DOMAIN mem[w].fresh \cup DOMAIN Index(w) \subseteq DOMAIN bucket
    BY <2>1 DEF Filing, UpToDate
  <2>5. ASSUME Goto(w, "plan", Blank) PROVE UpToDate(w)'
    <3>1. pc'[w] = "plan"
      BY <2>5, Goes
    <3>. QED  BY <1>1, <1>6, <2>3, <2>4, <3>1 DEF UpToDate
  <2>6. ASSUME Goto(w, "idle", Blank) PROVE UpToDate(w)'
    BY <2>6, LeavesRefresh DEF RefreshStep
  <2>. QED  BY <2>1, <2>5, <2>6
<1>. QED  BY <1>10, <1>11, <1>12, <1>13

\* What is left to file was to be filed before.
LEMMA FilesFewer ==
  ASSUME NEW w \in Worker, FilesOnce(w), filed' = filed, ToFile(w)' \subseteq ToFile(w),
         \A k \in AtHand(w)' : RuledFor(w, Mid(k))' /\ k \notin mem'[w].todo,
         mem'[w].back = "rule" =>
           /\ pc'[w] \in {"copy", "delete", "reindex"} => mem'[w].keys = {}
           /\ pc'[w] = "pick" => \A j, k \in mem'[w].keys : j = k
  PROVE  FilesOnce(w)'
<1>1. /\ \A k \in ToFile(w)' : ContentOf(Mid(k)) \in Message => filed'[ContentOf(Mid(k))] = 0
      /\ \A j, k \in ToFile(w)' :
           ContentOf(Mid(j)) = ContentOf(Mid(k)) /\ ContentOf(Mid(k)) \in Message => j = k
  BY DEF FilesOnce
<1>. QED  BY <1>1 DEF FilesOnce

\* The rules take up what is there, and was not filed.
LEMMA PlanFiling ==
  ASSUME Shape, NEW w \in Worker, Filing(w), FiledWell, Plan(w)
  PROVE  Filing(w)' /\ FiledWell'
<1>. DEFINE i    == Index(w)
            pool == {k \in DOMAIN i : NotYetRuled(w, Mid(k))}
            hit  == {k \in pool : /\ ~SkipsRules(FolderOf(k))
                                  /\ i[k].shows \in RuleHits
                                  /\ FolderOf(k) # RuleTarget}
            rule == [Blank EXCEPT !.todo = pool, !.auto = hit]
<1>1. /\ pc[w] = "plan" /\ bucket' = bucket /\ filed' = filed /\ arrived' = arrived
      /\ doc' = doc /\ pend' = pend /\ host' = host
      /\ Goto(w, "idle", Blank) \/ Goto(w, "rule", rule)
  BY DEF Plan, shared, local, history, End
<1>2. FiledWell' /\ \A mid : RuledFor(w, mid)' = RuledFor(w, mid)
  BY <1>1, FiledSame, CurrentSame, RuledSame
<1>3. ASSUME Goto(w, "rule", rule) PROVE Filing(w)'
  <2>1. pc'[w] = "rule" /\ mem'[w] = rule
    BY <1>3, Goes
  <2>2. mem'[w].todo = pool /\ mem'[w].auto = hit /\ mem'[w].back = "save"
    BY <2>1, BlankMem DEF Blank
  <2>3. AtHand(w)' = {} /\ ToFile(w)' = hit
    BY <2>1, <2>2 DEF AtHand, ToFile
  <2>4. ASSUME NEW k \in hit
        PROVE  /\ k \in DOMAIN bucket /\ bucket[k] = ContentOf(Mid(k))
               /\ bucket[k] \in Message => filed[bucket[k]] = 0
    <3>1. k \in DOMAIN i /\ ~ RuledAt(View(w), Mid(k))
      BY <2>4 DEF NotYetRuled, RuledAt
    <3>2. DOMAIN i \subseteq DOMAIN bucket /\ View(w) = Current(w)
      BY <1>1 DEF Filing, UpToDate, RefreshStep
    <3>3. k \in DOMAIN bucket /\ ~ RuledFor(w, Mid(k))
      BY <3>1, <3>2 DEF RuledFor
    <3>4. bucket[k] = ContentOf(Mid(k)) /\ filed \in [Message -> Nat]
      BY <3>3 DEF Shape, BucketOK, TallyOK
    <3>5. bucket[k] \in Message => ~ (filed[bucket[k]] > 0)
      BY <1>1, <3>3 DEF Filing, FiledIsRuled
    <3>. QED  BY <3>3, <3>4, <3>5
  <2>. HIDE DEF pool, hit
  <2>5. \A j, k \in hit : ContentOf(Mid(j)) = ContentOf(Mid(k)) /\ ContentOf(Mid(k)) \in Message => j = k
    BY <1>1, <2>4 DEF Filing, OneCopy
  <2>6. FilesOnce(w)'
    BY <1>1, <2>1, <2>2, <2>3, <2>4, <2>5 DEF FilesOnce
  <2>. QED  BY <1>1, <1>2, <1>3, <2>6, FilingGoes, LeavesRefresh DEF RefreshStep
<1>4. ASSUME Goto(w, "idle", Blank) PROVE Filing(w)'
  BY <1>1, <1>2, <1>4, PlainFiling DEF RefreshStep
<1>. QED  BY <1>1, <1>2, <1>3, <1>4

\* The mark comes first.
LEMMA RuleFiling ==
  ASSUME Shape, NEW w \in Worker, Filing(w), FiledWell, Rule(w)
  PROVE  Filing(w)' /\ FiledWell'
<1>1. PICK k : k = CHOOSE j \in mem[w].todo : TRUE
  OBVIOUS
<1>. DEFINE rest == [mem[w] EXCEPT !.todo = @ \ {k}]
            file == [rest EXCEPT !.keys = {k}, !.target = RuleTarget, !.back = "rule",
                                 !.inARow = 0]
            op   == Op("ruled", Mid(k))
<1>2. /\ pc[w] = "rule" /\ k \in mem[w].todo /\ bucket' = bucket /\ filed' = filed
      /\ arrived' = arrived /\ host' = host /\ Mutate(w, op)
      /\ \/ k \in mem[w].auto /\ Goto(w, "pick", file)
         \/ k \notin mem[w].auto /\ Goto(w, "rule", rest)
  BY <1>1 DEF Rule, history
<1>3. MemOK(mem[w]) /\ k \in Key /\ IsDoc(Current(w))
  BY <1>2, FoldDoc DEF Shape, WorkersOK, MemOK, StateOK, IndexOK, Current
<1>4. op \in Ops
  BY <1>3, KeyParts, OpsMade
<1>5. Current(w)' = Apply(Current(w), op)
  BY <1>2, <1>4, CurrentMutated
<1>6. /\ \A mid : RuledFor(w, mid) => RuledFor(w, mid)'
      /\ RuledFor(w, Mid(k))'
  <2>1. /\ \A mid : RuledAt(Current(w), mid) => RuledAt(Apply(Current(w), op), mid)
        /\ RuledAt(Apply(Current(w), op), Mid(k))
    BY <1>3, OpsAndRuled
  <2>. HIDE DEF op
  <2>. QED  BY <1>5, <2>1 DEF RuledFor
<1>7. /\ rest.todo = mem[w].todo \ {k} /\ rest.auto = mem[w].auto /\ rest.back = mem[w].back
      /\ file.todo = mem[w].todo \ {k} /\ file.auto = mem[w].auto /\ file.keys = {k}
      /\ file.back = "rule"
  BY <1>3 DEF MemOK, Blank
<1>. HIDE DEF rest, file, op
<1>8. ToFile(w) = mem[w].todo \cap mem[w].auto
  BY <1>2 DEF ToFile, AtHand
<1>9. CASE k \in mem[w].auto /\ Goto(w, "pick", file)
  <2>1. pc'[w] = "pick" /\ mem'[w] = file
    BY <1>9, Goes
  <2>2. AtHand(w)' = {k} /\ ToFile(w)' = ((mem[w].todo \ {k}) \cap mem[w].auto) \cup {k}
    BY <1>7, <2>1 DEF ToFile, AtHand
  <2>3. ToFile(w)' \subseteq ToFile(w)
    BY <1>2, <1>8, <1>9, <2>2
  <2>4. \A j \in AtHand(w)' : RuledFor(w, Mid(j))' /\ j \notin mem'[w].todo
    BY <1>6, <1>7, <2>1, <2>2
  <2>5. FilesOnce(w)'
    BY <1>2, <1>7, <2>1, <2>3, <2>4, FilesFewer DEF Filing
  <2>. QED  BY <1>2, <1>6, <1>9, <2>5, FilingGoes, LeavesRefresh, FiledSame DEF RefreshStep
<1>10. CASE k \notin mem[w].auto /\ Goto(w, "rule", rest)
  <2>1. pc'[w] = "rule" /\ mem'[w] = rest
    BY <1>10, Goes
  <2>2. AtHand(w)' = {} /\ ToFile(w)' = (mem[w].todo \ {k}) \cap mem[w].auto
    BY <1>7, <2>1 DEF ToFile, AtHand
  <2>3. FilesOnce(w)'
    BY <1>2, <1>7, <1>8, <2>1, <2>2, FilesFewer DEF Filing
  <2>. QED  BY <1>2, <1>6, <1>10, <2>3, FilingGoes, LeavesRefresh, FiledSame DEF RefreshStep
<1>. QED  BY <1>2, <1>9, <1>10

\* A move looks for what it has to move, and ends.
LEMMA PickFiling ==
  ASSUME Shape, NEW w \in Worker, Filing(w), FiledWell, Pick(w) \/ MoveDone(w)
  PROVE  Filing(w)' /\ FiledWell'
<1>1. /\ pc[w] = "pick" /\ bucket' = bucket /\ filed' = filed /\ arrived' = arrived
      /\ doc' = doc /\ pend' = pend /\ host' = host
  BY DEF Pick, MoveDone, shared, local, history
<1>2. FiledWell' /\ \A mid : RuledFor(w, mid)' = RuledFor(w, mid)
  BY <1>1, FiledSame, CurrentSame, RuledSame
<1>3. MemOK(mem[w]) /\ FilesOnce(w)
  BY DEF Shape, WorkersOK, Filing
<1>4. SUFFICES ASSUME NEW step, NEW x, Goto(w, step, x),
                      step \in {"pick", "copy", "save", "rule"}
               PROVE  FilesOnce(w)'
  <2>1. \E step \in {"pick", "copy", "save", "rule"} : \E x : Goto(w, step, x)
    BY <1>3 DEF Pick, MoveDone, MemOK
  <2>. QED  BY <1>1, <1>2, <1>4, <2>1, FilingGoes, LeavesRefresh DEF RefreshStep
<1>5. CASE Pick(w)
  <2>. DEFINE k    == CHOOSE k \in mem[w].keys : TRUE
              rest == [mem[w] EXCEPT !.keys = @ \ {k}]
              i    == Index(w)
              copy == [rest EXCEPT !.from = k, !.entry = i[k],
                                   !.to = FreeKey(i, Mid(k), mem[w].target)]
  <2>1. k \in mem[w].keys /\ (Goto(w, "pick", rest) \/ Goto(w, "copy", copy))
    BY <1>5 DEF Pick
  <2>. HIDE DEF k
  <2>2. /\ rest.todo = mem[w].todo /\ rest.auto = mem[w].auto /\ rest.back = mem[w].back
        /\ rest.keys = mem[w].keys \ {k}
        /\ copy.todo = mem[w].todo /\ copy.auto = mem[w].auto /\ copy.back = mem[w].back
        /\ copy.keys = mem[w].keys \ {k} /\ copy.from = k
    BY <1>3 DEF MemOK, Blank
  <2>. HIDE DEF rest, copy
  <2>3. /\ AtHand(w) = {j \in mem[w].keys : mem[w].back = "rule"}
        /\ ToFile(w) = (mem[w].todo \cap mem[w].auto) \cup AtHand(w)
    BY <1>1 DEF ToFile, AtHand
  <2>4. /\ mem[w].back = "rule" => mem[w].keys \ {k} = {}
        /\ \A j \in AtHand(w) : RuledFor(w, Mid(j)) /\ j \notin mem[w].todo
    BY <1>1, <1>3, <2>1 DEF FilesOnce
  <2>5. CASE Goto(w, "pick", rest)
    <3>1. pc'[w] = "pick" /\ mem'[w] = rest
      BY <2>5, Goes
    <3>2. AtHand(w)' = {j \in mem[w].keys \ {k} : mem[w].back = "rule"}
      BY <2>2, <3>1 DEF AtHand
    <3>3. ToFile(w)' = (mem[w].todo \cap mem[w].auto) \cup AtHand(w)'
      BY <2>2, <3>1 DEF ToFile
    <3>. QED  BY <1>1, <1>2, <1>3, <2>2, <2>3, <2>4, <3>1, <3>2, <3>3, FilesFewer
  <2>6. CASE Goto(w, "copy", copy)
    <3>1. pc'[w] = "copy" /\ mem'[w] = copy
      BY <2>6, Goes
    <3>2. AtHand(w)' = {j \in {k} : mem[w].back = "rule"}
      BY <2>2, <3>1 DEF AtHand
    <3>3. ToFile(w)' = (mem[w].todo \cap mem[w].auto) \cup AtHand(w)'
      BY <2>2, <3>1 DEF ToFile
    <3>. QED  BY <1>1, <1>2, <1>3, <2>1, <2>2, <2>3, <2>4, <3>1, <3>2, <3>3, FilesFewer
  <2>. QED  BY <2>1, <2>5, <2>6
<1>6. CASE MoveDone(w)
  <2>1. mem[w].keys = {} /\ Goto(w, mem[w].back, mem[w]) /\ mem[w].back \in {"save", "rule"}
    BY <1>3, <1>6 DEF MoveDone, MemOK
  <2>2. pc'[w] = mem[w].back /\ mem'[w] = mem[w]
    BY <2>1, Goes
  <2>3. AtHand(w)' = {} /\ ToFile(w)' \subseteq ToFile(w)
    BY <1>1, <2>1, <2>2 DEF ToFile, AtHand
  <2>. QED  BY <1>1, <1>3, <2>1, <2>2, <2>3, FilesFewer
<1>. QED  BY <1>5, <1>6

\* A fault in a move, or a crash, ends what is orderly.
LEMMA FaultDisorders ==
  ASSUME NEW kind \in {"copy", "delete", "crash"}, Fault(kind) PROVE ~ Orderly'
BY DEF Fault, Orderly

\* The copy: a message that is filed was not filed before, and is marked.
LEMMA CopyFiling ==
  ASSUME Shape, Orderly', NEW w \in Worker, Filing(w), FiledWell, Copy(w)
  PROVE  Filing(w)' /\ FiledWell'
<1>1. /\ MemOK(mem[w]) /\ At("copy", mem[w], There) /\ pc[w] = "copy"
      /\ BucketOK /\ filed \in [Message -> Nat]
  BY DEF Shape, WorkersOK, Copy, TallyOK
<1>2. /\ doc' = doc /\ pend' = pend /\ host' = host /\ arrived' = arrived
  BY DEF Copy, local
<1>3. \A mid : RuledFor(w, mid)' = RuledFor(w, mid)
  BY <1>2, CurrentSame, RuledSame
<1>4. PICK from : from = mem[w].from
  OBVIOUS
<1>5. PICK to : to = mem[w].to
  OBVIOUS
<1>6. PICK c : c = ContentOf(Mid(from))
  OBVIOUS
<1>7. from # to /\ c = ContentOf(Mid(to))
  BY <1>1, <1>4, <1>5, <1>6 DEF At
<1>8. ToFile(w) = (mem[w].todo \cap mem[w].auto) \cup AtHand(w)
  BY <1>1 DEF ToFile
<1>9. AtHand(w) = {k \in {from} : mem[w].back = "rule"}
  BY <1>1, <1>4 DEF AtHand
<1>10. CASE from \notin DOMAIN bucket /\ NotMoved(w) /\ bucket' = bucket /\ filed' = filed
  <2>. DEFINE n == mem[w].inARow + 1
              x == [mem[w] EXCEPT !.inARow = n]
  <2>1. Goto(w, "save", Blank) \/ Goto(w, "pick", x)
    BY <1>10 DEF NotMoved
  <2>2. /\ x.todo = mem[w].todo /\ x.auto = mem[w].auto /\ x.back = mem[w].back
        /\ x.keys = mem[w].keys
    BY <1>1 DEF MemOK, Blank
  <2>. HIDE DEF x
  <2>3. CASE Goto(w, "save", Blank)
    BY <1>1, <1>2, <1>3, <1>10, <2>3, PlainFiling, FiledSame DEF RefreshStep
  <2>4. CASE Goto(w, "pick", x)
    <3>1. pc'[w] = "pick" /\ mem'[w] = x
      BY <2>4, Goes
    <3>2. x.back = "rule" => x.keys = {}
      BY <1>1, <2>2 DEF Filing, FilesOnce
    <3>3. AtHand(w)' = {} /\ ToFile(w)' \subseteq ToFile(w)
      BY <1>8, <2>2, <3>1, <3>2 DEF AtHand, ToFile
    <3>4. FilesOnce(w)'
      BY <1>10, <3>1, <3>2, <3>3, FilesFewer DEF Filing
    <3>. QED  BY <1>1, <1>2, <1>3, <1>10, <2>4, <3>4, FilingGoes, LeavesRefresh, FiledSame
              DEF RefreshStep
  <2>. QED  BY <2>1, <2>3, <2>4
<1>11. CASE /\ from \in DOMAIN bucket /\ bucket' = Set(bucket, to, bucket[from])
            /\ Goto(w, "delete", mem[w])
            /\ filed' = IF mem[w].back = "rule" /\ bucket[from] \in Message
                        THEN [filed EXCEPT ![bucket[from]] = @ + 1] ELSE filed
  <2>1. /\ pc'[w] = "delete" /\ mem'[w] = mem[w]
        /\ bucket[from] = c /\ c \in There
    BY <1>1, <1>6, <1>11, Goes DEF BucketOK
  <2>2. /\ DOMAIN bucket' = DOMAIN bucket \cup {to} /\ bucket'[to] = c
        /\ \A k \in DOMAIN bucket \ {to} : bucket'[k] = bucket[k]
    BY <1>11, <2>1 DEF Set
  <2>3. \A k \in DOMAIN bucket : bucket[k] = c /\ c \in Message => k = from
    BY <1>1, <1>11, <2>1 DEF Filing, OneCopy
  <2>4. mem[w].back = "rule" => /\ RuledFor(w, Mid(from)) /\ c \in Message => filed[c] = 0
                                /\ from \notin mem[w].todo
    <3>1. mem[w].back = "rule" => from \in ToFile(w) /\ from \in AtHand(w)
      BY <1>8, <1>9
    <3>. QED  BY <1>6, <3>1 DEF Filing, FilesOnce
  <2>5. mem[w].back = "rule" => RuledFor(w, Mid(from)) /\ from \notin mem[w].todo
    BY <1>9 DEF Filing, FilesOnce
  <2>6. \A d \in Message : /\ d # c => filed'[d] = filed[d]
                           /\ filed'[d] \in Nat
                           /\ mem[w].back # "rule" => filed'[d] = filed[d]
                           /\ mem[w].back = "rule" /\ d = c => filed'[d] = filed[d] + 1
    BY <1>1, <1>11, <2>1
  <2>7. OneCopy(w)'
    <3>1. ASSUME NEW j \in DOMAIN bucket', NEW k \in DOMAIN bucket',
                 bucket'[j] = bucket'[k], bucket'[k] \in Message, j # k
          PROVE  {j, k} = {from, to}
      BY <1>1, <2>2, <2>3, <3>1 DEF Filing, OneCopy
    <3>. QED  BY <1>4, <1>5, <2>1, <2>2, <3>1 DEF OneCopy
  <2>8. FiledIsRuled(w)'
    <3>1. ASSUME c \in Message, filed'[c] > 0 PROVE RuledFor(w, Mid(from))
      <4>1. CASE mem[w].back = "rule"
        BY <2>5, <4>1
      <4>2. CASE mem[w].back # "rule"
        <5>1. filed[c] > 0
          BY <2>6, <3>1, <4>2
        <5>. QED  BY <1>1, <1>11, <2>1, <3>1, <5>1 DEF Filing, FiledIsRuled
      <4>. QED  BY <4>1, <4>2
    <3>2. ASSUME NEW k \in DOMAIN bucket', bucket'[k] \in Message, filed'[bucket'[k]] > 0
          PROVE  RuledFor(w, IF k = to THEN Mid(from) ELSE Mid(k))
      <4>1. CASE k = to
        BY <2>2, <3>1, <3>2, <4>1
      <4>2. CASE k # to /\ bucket'[k] = c
        BY <2>2, <2>3, <3>1, <3>2, <4>2
      <4>3. CASE k # to /\ bucket'[k] # c
        <5>1. k \in DOMAIN bucket /\ bucket[k] = bucket'[k] /\ filed[bucket[k]] > 0
          BY <2>2, <2>6, <3>2, <4>3
        <5>. QED  BY <1>1, <3>2, <4>3, <5>1 DEF Filing, FiledIsRuled
      <4>. QED  BY <4>1, <4>2, <4>3
    <3>3. \A k \in DOMAIN bucket' :
            bucket'[k] \in Message /\ filed'[bucket'[k]] > 0 =>
              RuledFor(w, IF k = to THEN Mid(from) ELSE Mid(k))'
      <4>1. \A k : RuledFor(w, IF k = to THEN Mid(from) ELSE Mid(k))' =
                     RuledFor(w, IF k = to THEN Mid(from) ELSE Mid(k))
        BY <1>3
      <4>. QED  BY <3>2, <4>1
    <3>. QED  BY <1>4, <1>5, <2>1, <3>3 DEF FiledIsRuled
  <2>9. FilesOnce(w)'
    <3>1. AtHand(w)' = {} /\ ToFile(w)' = mem[w].todo \cap mem[w].auto
      BY <2>1 DEF AtHand, ToFile
    <3>2. ASSUME NEW k \in ToFile(w)', ContentOf(Mid(k)) \in Message
          PROVE  filed'[ContentOf(Mid(k))] = 0
      <4>1. k \in ToFile(w) /\ filed[ContentOf(Mid(k))] = 0
        BY <1>8, <3>1, <3>2 DEF Filing, FilesOnce
      <4>2. mem[w].back = "rule" => ContentOf(Mid(k)) # c
        <5>1. ASSUME mem[w].back = "rule", ContentOf(Mid(k)) = c PROVE FALSE
          <6>1. from \in ToFile(w)
            BY <1>8, <1>9, <5>1
          <6>2. k = from
            BY <1>6, <3>2, <4>1, <5>1, <6>1 DEF Filing, FilesOnce
          <6>. QED  BY <2>5, <3>1, <3>2, <5>1, <6>2
        <5>. QED  BY <5>1
      <4>. QED  BY <2>6, <3>2, <4>1, <4>2
    <3>3. \A j, k \in ToFile(w)' :
            ContentOf(Mid(j)) = ContentOf(Mid(k)) /\ ContentOf(Mid(k)) \in Message => j = k
      BY <1>8, <3>1 DEF Filing, FilesOnce
    <3>4. mem[w].back = "rule" => mem[w].keys = {}
      BY <1>1 DEF Filing, FilesOnce
    <3>. QED  BY <2>1, <3>1, <3>2, <3>3, <3>4 DEF FilesOnce
  <2>10. UpToDate(w)'
    BY <1>11, LeavesRefresh DEF RefreshStep
  <2>11. FiledWell'
    <3>1. c \in Message => c \in arrived
      <4>1. \A n \in 1 .. saves : Draft(n) \notin Message
        <5>1. saves \in 0 .. MaxSaves /\ MaxSaves \in Nat
          BY MailboxAssumption DEF Shape, TallyOK
        <5>2. 1 .. saves \subseteq 1 .. MaxSaves
          BY <5>1
        <5>. QED  BY <5>2, MailboxAssumption DEF Draft
      <4>. QED  BY <2>1, <4>1 DEF There
    <3>2. mem[w].back = "rule" /\ c \in Message => filed[c] = 0
      <4>1. mem[w].back = "rule" => from \in ToFile(w)
        BY <1>8, <1>9
      <4>. QED  BY <1>6, <4>1 DEF Filing, FilesOnce
    <3>. QED  BY <1>2, <2>6, <3>1, <3>2 DEF FiledWell
  <2>. QED  BY <2>7, <2>8, <2>9, <2>10, <2>11 DEF Filing
<1>12. \A kind \in {"copy"} : ~ Fault(kind)
  BY FaultDisorders
<1>. QED  BY <1>4, <1>5, <1>10, <1>11, <1>12 DEF Copy

\* Then the message is where it was moved to, and there alone.
LEMMA DeleteFiling ==
  ASSUME Shape, Orderly', NEW w \in Worker, Filing(w), FiledWell, Delete(w)
  PROVE  Filing(w)' /\ FiledWell'
<1>1. MemOK(mem[w]) /\ At("delete", mem[w], There) /\ pc[w] = "delete"
  BY DEF Shape, WorkersOK, Delete
<1>2. /\ doc' = doc /\ pend' = pend /\ host' = host /\ arrived' = arrived /\ filed' = filed
  BY DEF Delete, local
<1>3. FiledWell' /\ \A mid : RuledFor(w, mid)' = RuledFor(w, mid)
  BY <1>2, CurrentSame, RuledSame, FiledSame
<1>4. /\ bucket' = Without(bucket, {mem[w].from})
      /\ Goto(w, "reindex", mem[w])
  BY FaultDisorders DEF Delete
<1>5. pc'[w] = "reindex" /\ mem'[w] = mem[w]
  BY <1>4, Goes
<1>6. /\ DOMAIN bucket' = DOMAIN bucket \ {mem[w].from}
      /\ \A k \in DOMAIN bucket' : bucket'[k] = bucket[k]
  BY <1>4 DEF Without, Restrict
<1>7. OneCopy(w)'
  <2>1. mem[w].to \in DOMAIN bucket'
    BY <1>1, <1>6 DEF Filing, OneCopy, At
  <2>2. \A j, k \in DOMAIN bucket' :
          bucket'[j] = bucket'[k] /\ bucket'[k] \in Message => j = k
    BY <1>1, <1>6 DEF Filing, OneCopy
  <2>. QED  BY <1>5, <2>1, <2>2 DEF OneCopy
<1>8. FiledIsRuled(w)'
  <2>1. PICK from : from = mem[w].from
    OBVIOUS
  <2>2. PICK to : to = mem[w].to
    OBVIOUS
  <2>3. \A k \in DOMAIN bucket' :
          bucket'[k] \in Message /\ filed'[bucket'[k]] > 0 =>
            RuledFor(w, IF k = to THEN Mid(from) ELSE Mid(k))
    BY <1>1, <1>2, <1>6, <2>1, <2>2 DEF Filing, FiledIsRuled
  <2>4. \A k : RuledFor(w, IF k = to THEN Mid(from) ELSE Mid(k))' =
                 RuledFor(w, IF k = to THEN Mid(from) ELSE Mid(k))
    BY <1>3
  <2>5. \A k \in DOMAIN bucket' :
          bucket'[k] \in Message /\ filed'[bucket'[k]] > 0 =>
            RuledFor(w, IF k = to THEN Mid(from) ELSE Mid(k))'
    BY <2>3, <2>4
  <2>. QED  BY <1>5, <2>1, <2>2, <2>5 DEF FiledIsRuled
<1>9. FilesOnce(w)'
  <2>1. AtHand(w)' = {} /\ ToFile(w)' \subseteq ToFile(w)
    BY <1>1, <1>5 DEF AtHand, ToFile
  <2>2. mem[w].back = "rule" => mem[w].keys = {}
    BY <1>1 DEF Filing, FilesOnce
  <2>. QED  BY <1>2, <1>5, <2>1, <2>2, FilesFewer DEF Filing
<1>10. UpToDate(w)'
  BY <1>4, LeavesRefresh DEF RefreshStep
<1>. QED  BY <1>3, <1>7, <1>8, <1>9, <1>10 DEF Filing

\* The mark goes along to the name the message has now.
LEMMA ReindexFiling ==
  ASSUME Shape, NEW w \in Worker, Filing(w), FiledWell, Reindex(w)
  PROVE  Filing(w)' /\ FiledWell'
<1>1. /\ MemOK(mem[w]) /\ At("reindex", mem[w], There) /\ pc[w] = "reindex"
      /\ BucketOK /\ IsDoc(Current(w))
  BY FoldDoc DEF Shape, WorkersOK, Reindex, StateOK, IndexOK, Current
<1>2. bucket' = bucket /\ host' = host /\ arrived' = arrived /\ filed' = filed
  BY DEF Reindex
<1>3. PICK from : from = mem[w].from
  OBVIOUS
<1>4. PICK to : to = mem[w].to
  OBVIOUS
<1>. DEFINE op == [t |-> "rekey", mid |-> Mid(from), new |-> Mid(to)]
            x  == [mem[w] EXCEPT !.inARow = 0]
<1>5. Goto(w, "pick", x)
  BY DEF Reindex
<1>6. pc'[w] = "pick" /\ mem'[w] = x
  BY <1>5, Goes
<1>7. /\ x.todo = mem[w].todo /\ x.auto = mem[w].auto /\ x.back = mem[w].back
      /\ x.keys = mem[w].keys
  BY <1>1 DEF MemOK, Blank
<1>. HIDE DEF x
<1>8. /\ Mid(to) # Mid(from) => Current(w)' = Apply(Current(w), op)
      /\ Mid(to) = Mid(from) => Current(w)' = Current(w)
  <2>1. CASE Mid(to) # Mid(from)
    <3>1. Mutate(w, op)
      BY <1>3, <1>4, <2>1 DEF Reindex
    <3>2. op \in Ops
      BY <1>1, <1>3, <1>4, KeyParts, OpsMade DEF At
    <3>. QED  BY <1>2, <2>1, <3>1, <3>2, CurrentMutated
  <2>2. CASE Mid(to) = Mid(from)
    BY <1>2, <1>3, <1>4, <2>2, CurrentSame DEF Reindex
  <2>. QED  BY <2>1, <2>2
<1>9. /\ \A mid : mid # Mid(to) /\ RuledFor(w, mid) => RuledFor(w, mid)'
      /\ RuledFor(w, Mid(from)) => RuledFor(w, Mid(to))'
  <2>1. CASE Mid(to) # Mid(from)
    <3>1. /\ \A mid : mid # Mid(to) /\ RuledAt(Current(w), mid) => RuledAt(Apply(Current(w), op), mid)
          /\ RuledAt(Current(w), Mid(from)) => RuledAt(Apply(Current(w), op), Mid(to))
      BY OpsAndRuled
    <3>. HIDE DEF op
    <3>. QED  BY <1>8, <2>1, <3>1 DEF RuledFor
  <2>2. CASE Mid(to) = Mid(from)
    <3>1. \A mid : RuledFor(w, mid)' = RuledFor(w, mid)
      BY <1>8, <2>2, RuledSame
    <3>2. RuledFor(w, Mid(to))' = RuledFor(w, Mid(to))
      BY <3>1
    <3>. QED  BY <2>2, <3>1, <3>2
  <2>. QED  BY <2>1, <2>2
<1>10. OneCopy(w)'
  BY <1>1, <1>2, <1>6 DEF Filing, OneCopy
<1>11. FiledIsRuled(w)'
  <2>1. ASSUME NEW k \in DOMAIN bucket, bucket[k] \in Message, filed[bucket[k]] > 0
        PROVE  RuledFor(w, Mid(k))'
    <3>1. CASE k = to
      <4>1. RuledFor(w, Mid(from))
        BY <1>1, <1>3, <1>4, <2>1, <3>1 DEF Filing, FiledIsRuled
      <4>. QED  BY <1>9, <3>1, <4>1
    <3>2. CASE k # to
      <4>1. RuledFor(w, Mid(k))
        BY <1>1, <1>4, <2>1, <3>2 DEF Filing, FiledIsRuled
      <4>2. to \in DOMAIN bucket
        BY <1>1, <1>4 DEF Filing, OneCopy
      <4>3. bucket[to] # bucket[k]
        BY <1>1, <2>1, <3>2, <4>2 DEF Filing, OneCopy
      <4>4. Mid(k) # Mid(to)
        BY <1>1, <2>1, <4>2, <4>3 DEF BucketOK
      <4>. QED  BY <1>9, <4>1, <4>4
    <3>. QED  BY <3>1, <3>2
  <2>. QED  BY <1>2, <1>6, <2>1 DEF FiledIsRuled
<1>12. FilesOnce(w)'
  <2>1. x.back = "rule" => x.keys = {}
    BY <1>1, <1>7 DEF Filing, FilesOnce
  <2>2. AtHand(w)' = {} /\ ToFile(w)' \subseteq ToFile(w)
    BY <1>1, <1>6, <1>7, <2>1 DEF AtHand, ToFile
  <2>. QED  BY <1>2, <1>6, <2>1, <2>2, FilesFewer DEF Filing
<1>13. UpToDate(w)'
  BY <1>5, LeavesRefresh DEF RefreshStep
<1>14. FiledWell'
  BY <1>2, FiledSame
<1>. QED  BY <1>10, <1>11, <1>12, <1>13, <1>14 DEF Filing

\* A handler begins: a Refresh with the state as it will be written.
LEMMA BeginFiling ==
  ASSUME Shape, NEW w \in Worker, Filing(w), FiledWell,
         \/ Refresh(w) \/ SaveDraft(w) \/ DropDraft(w)
         \/ \E K \in SUBSET InTrash(w) : Purge(w, K)
         \/ \E K \in SUBSET DOMAIN Index(w) : \E f \in Folder \ {Drafts} : Move(w, K, f)
  PROVE  Filing(w)' /\ FiledWell'
<1>1. \A step, x : Begin(w, step, x) =>
        /\ pc[w] = "idle" /\ Goto(w, step, x) /\ bucket' = bucket /\ filed' = filed
        /\ arrived' = arrived /\ doc' = doc /\ pend' = pend /\ host' = host
  BY DEF Begin, Idle, shared
<1>2. \A step, x : Begin(w, step, x) =>
        FiledWell' /\ \A mid : RuledFor(w, mid)' = RuledFor(w, mid)
  BY <1>1, CurrentSame, RuledSame, FiledSame
<1>3. CASE Refresh(w)
  <2>1. /\ Begin(w, "list", Blank)
        /\ view' = [view EXCEPT ![host[w]] = FoldLeft(Apply, doc, pend[host[w]])]
    BY <1>3 DEF Refresh
  <2>2. host[w] \in Machine /\ DOMAIN view = Machine
    BY DEF Shape, IndexOK, StateOK
  <2>3. Current(w) = FoldLeft(Apply, doc, pend[host[w]])
    BY DEF Current
  <2>4. Current(w)' = Current(w)
    BY <1>1, <2>1, CurrentSame
  <2>5. View(w)' = Current(w)'
    BY <1>1, <2>1, <2>2, <2>3, <2>4 DEF View
  <2>6. pc'[w] = "list"
    BY <1>1, <2>1, Goes
  <2>7. UpToDate(w)'
    BY <2>5, <2>6 DEF UpToDate
  <2>. QED  BY <1>1, <1>2, <2>1, <2>7, FilingGoes, LeavesRules
<1>4. CASE \E K \in SUBSET DOMAIN Index(w) : \E f \in Folder \ {Drafts} : Move(w, K, f)
  <2>1. PICK K, f : Begin(w, "pick", [Blank EXCEPT !.keys = K, !.target = f])
    BY <1>4 DEF Move
  <2>. DEFINE x == [Blank EXCEPT !.keys = K, !.target = f]
  <2>2. x.todo = {} /\ x.back = "save"
    BY DEF Blank
  <2>3. pc'[w] = "pick" /\ mem'[w] = x
    BY <1>1, <2>1, Goes
  <2>. HIDE DEF x
  <2>4. AtHand(w)' = {} /\ ToFile(w)' = {}
    BY <2>2, <2>3 DEF AtHand, ToFile
  <2>5. FilesOnce(w)'
    BY <2>2, <2>3, <2>4 DEF FilesOnce
  <2>. QED  BY <1>1, <1>2, <2>1, <2>5, FilingGoes, LeavesRefresh DEF RefreshStep
<1>5. CASE \/ SaveDraft(w) \/ DropDraft(w) \/ \E K \in SUBSET InTrash(w) : Purge(w, K)
  <2>1. \E step \in {"put", "drop", "purge"} : \E x : Begin(w, step, x)
    BY <1>5 DEF SaveDraft, DropDraft, Purge
  <2>. QED  BY <1>1, <1>2, <2>1, PlainFiling DEF RefreshStep
<1>. QED  BY <1>3, <1>4, <1>5

\* What arrives was not there, and not filed.
LEMMA DeliverInTurn ==
  ASSUME Shape, InTurn, Orderly, NEW c \in Message, Deliver(c)
  PROVE  InTurn'
<1>1. /\ bucket' = Set(bucket, Home(c), c) /\ c \notin arrived /\ arrived' = arrived \cup {c}
      /\ doc' = doc /\ pend' = pend /\ host' = host /\ view' = view /\ index' = index
      /\ pc' = pc /\ mem' = mem /\ filed' = filed
  BY DEF Deliver, local
<1>2. \A k \in DOMAIN bucket : bucket[k] # c
  <2>1. 1 .. saves \subseteq 1 .. MaxSaves
    BY MailboxAssumption DEF Shape, TallyOK
  <2>2. c \notin There
    BY <1>1, <2>1, MailboxAssumption DEF There, Draft
  <2>. QED  BY <2>2 DEF Shape, BucketOK
<1>3. Home(c) \notin DOMAIN bucket
  <2>1. ContentOf(Mid(Home(c))) = c
    BY FirstKeys
  <2>. QED  BY <1>2, <2>1 DEF Shape, BucketOK
<1>4. PICK h : h = Home(c)
  OBVIOUS
<1>5. /\ DOMAIN bucket' = DOMAIN bucket \cup {h} /\ bucket'[h] = c /\ h \notin DOMAIN bucket
      /\ \A k \in DOMAIN bucket : bucket'[k] = bucket[k]
  BY <1>1, <1>3, <1>4 DEF Set
<1>6. FiledWell' /\ ~ (filed[c] > 0)
  BY <1>1 DEF InTurn, FiledWell
<1>7. ASSUME NEW w \in Worker, Alone(w)' PROVE Filing(w)'
  <2>1. Filing(w)
    BY <1>1, <1>7 DEF InTurn, Alone
  <2>2. Current(w)' = Current(w) /\ \A mid : RuledFor(w, mid)' = RuledFor(w, mid)
    BY <1>1, CurrentSame, RuledSame
  <2>3. OneCopy(w)'
    BY <1>1, <1>2, <1>5, <2>1 DEF Filing, OneCopy
  <2>4. FiledIsRuled(w)'
    BY <1>1, <1>5, <1>6, <2>1, <2>2 DEF Filing, FiledIsRuled
  <2>5. View(w)' = View(w) /\ Index(w)' = Index(w)
    BY <1>1 DEF View, Index
  <2>6. UpToDate(w)'
    BY <1>1, <1>5, <2>1, <2>2, <2>5 DEF Filing, UpToDate
  <2>7. AtHand(w)' = AtHand(w) /\ ToFile(w)' = ToFile(w)
    BY <1>1 DEF AtHand, ToFile
  <2>8. FilesOnce(w)'
    BY <1>1, <2>1, <2>2, <2>7 DEF Filing, FilesOnce
  <2>. QED  BY <2>3, <2>4, <2>6, <2>8 DEF Filing
<1>. QED  BY <1>1, <1>6, <1>7 DEF InTurn

\* A step that is taken while all is orderly files nothing twice.
LEMMA InTurnNext ==
  ASSUME Shape, Shape', BatchOpen, BatchOpen', DraftsOnly, InTurn, Next, Orderly'
  PROVE  InTurn'
<1>1. Orderly
  BY OrderlyBefore
<1>2. ASSUME NEW c \in Message, Deliver(c) PROVE InTurn'
  BY <1>1, <1>2, DeliverInTurn
<1>3. ASSUME NEW m \in Machine, Crash(m) PROVE FALSE
  <2>1. Fault("crash")
    BY <1>3 DEF Crash
  <2>. QED  BY <2>1, FaultDisorders
<1>4. ASSUME NEW w \in Worker, Step(w) PROVE InTurn'
  <2>1. pc[w] # "idle"
    BY <1>4 DEF Step, List, Compare, Fetch, Install, Plan, Rule, RulesDone, Pick, Copy, Delete,
       Reindex, MoveDone, Save, PurgeOne, Forget, PurgeDone, Put, Flag, Note, DropObject,
       Dropped, Strike
  <2>2. Alone(w) /\ Filing(w) /\ FiledWell
    BY <1>1, <2>1, StepsAlone
  <2>3. Filing(w)' /\ FiledWell'
    <3>1. CASE List(w) \/ Compare(w) \/ Fetch(w) \/ Install(w)
      BY <2>2, <3>1, RefreshFiling
    <3>2. CASE Plan(w)
      BY <2>2, <3>2, PlanFiling
    <3>3. CASE Rule(w)
      BY <2>2, <3>3, RuleFiling
    <3>4. CASE Pick(w) \/ MoveDone(w)
      BY <2>2, <3>4, PickFiling
    <3>5. CASE Copy(w)
      BY <2>2, <3>5, CopyFiling
    <3>6. CASE Delete(w)
      BY <2>2, <3>6, DeleteFiling
    <3>7. CASE Reindex(w)
      BY <2>2, <3>7, ReindexFiling
    <3>8. CASE \/ RulesDone(w) \/ Save(w) \/ PurgeOne(w) \/ Forget(w) \/ PurgeDone(w) \/ Put(w)
               \/ Flag(w) \/ Note(w) \/ DropObject(w) \/ Dropped(w) \/ Strike(w)
      BY <2>2, <3>8, OtherFiling
    <3>. QED  BY <1>4, <3>1, <3>2, <3>3, <3>4, <3>5, <3>6, <3>7, <3>8 DEF Step
  <2>4. \E step, x : Goto(w, step, x)
    <3>1. NotMoved(w) => \E step, x : Goto(w, step, x)
      BY DEF NotMoved
    <3>2. CASE \/ Rule(w) \/ Pick(w) \/ Copy(w) \/ Delete(w) \/ Reindex(w) \/ Plan(w)
      BY <3>1, <3>2 DEF Rule, Pick, Copy, Delete, Reindex, Plan, End
    <3>3. CASE \/ List(w) \/ Compare(w) \/ Fetch(w) \/ Install(w) \/ RulesDone(w) \/ MoveDone(w)
               \/ Save(w)
      BY <3>3 DEF List, Compare, Fetch, Install, RulesDone, MoveDone, Save, End
    <3>4. CASE \/ PurgeOne(w) \/ Forget(w) \/ PurgeDone(w) \/ Put(w) \/ Flag(w) \/ Note(w)
               \/ DropObject(w) \/ Dropped(w) \/ Strike(w)
      BY <3>4 DEF PurgeOne, Forget, PurgeDone, Put, Flag, Note, DropObject, Dropped, Strike, End
    <3>. QED  BY <1>4, <3>2, <3>3, <3>4 DEF Step
  <2>. QED  BY SMTT(30), <2>2, <2>3, <2>4, OneWorker
<1>5. ASSUME NEW w \in Worker,
             \/ Refresh(w) \/ SaveDraft(w) \/ DropDraft(w)
             \/ \E K \in SUBSET InTrash(w) : Purge(w, K)
             \/ \E K \in SUBSET DOMAIN Index(w) : \E f \in Folder \ {Drafts} : Move(w, K, f)
      PROVE  InTurn'
  <2>1. PICK step, x : Begin(w, step, x)
    BY <1>5 DEF Refresh, SaveDraft, DropDraft, Purge, Move
  <2>2. Alone(w) /\ Filing(w) /\ FiledWell
    BY <1>1, <2>1, BeginsAlone
  <2>3. Filing(w)' /\ FiledWell'
    BY <1>5, <2>2, BeginFiling
  <2>4. Goto(w, step, x)
    BY <2>1 DEF Begin
  <2>. QED  BY <2>2, <2>3, <2>4, OneWorker
<1>. QED  BY <1>2, <1>3, <1>4, <1>5 DEF Next

LEMMA InitInTurn == ASSUME Init PROVE BatchOpen /\ DraftsOnly /\ InTurn
<1>1. /\ \A w \in Worker : pc[w] = "idle" /\ mem[w] = Blank /\ host[w] \in Machine
      /\ \A m \in Machine : pend[m] = <<>>
      /\ \A k \in DOMAIN bucket : k = Home(Old) /\ bucket[k] = Old
      /\ arrived = {Old}
  BY DEF Init
<1>2. BatchOpen /\ DraftsOnly
  BY <1>1 DEF BatchOpen, DraftsOnly, DraftWork
<1>3. /\ \A c \in Message : filed[c] \in {0, 1} /\ (filed[c] > 0 => c = Old)
      /\ filed[Old] > 0 => doc[<<Old>>].ruled /\ <<Old>> \in DOMAIN doc
  <2>1. PICK r \in BOOLEAN : doc = [mid \in {<<Old>>} |-> [marks |-> TRUE, ruled |-> r]]
    BY DEF Init
  <2>2. /\ <<Old>> \in DOMAIN doc /\ doc[<<Old>>].ruled = r
        /\ filed = [c \in Message |-> IF c = Old /\ doc[<<Old>>].ruled THEN 1 ELSE 0]
    BY <2>1 DEF Init
  <2>. QED  BY <2>2, MailboxAssumption
<1>4. FiledWell
  BY <1>1, <1>3 DEF FiledWell
<1>5. Mid(Home(Old)) = <<Old>>
  BY MailboxAssumption DEF Mid, Home, KeyFor, BaseName
<1>6. ASSUME NEW w \in Worker PROVE Filing(w)
  <2>1. Current(w) = doc
    BY <1>1, FoldNone DEF Current
  <2>2. filed[Old] > 0 => RuledFor(w, <<Old>>)
    BY <1>3, <2>1 DEF RuledFor, RuledAt, StateOf
  <2>3. FiledIsRuled(w)
    BY <1>1, <1>5, <2>2 DEF FiledIsRuled
  <2>4. OneCopy(w)
    BY <1>1 DEF OneCopy
  <2>5. UpToDate(w)
    BY <1>1 DEF UpToDate, RefreshStep
  <2>6. AtHand(w) = {} /\ ToFile(w) = {}
    BY <1>1 DEF AtHand, ToFile
  <2>. QED  BY <1>1, <2>3, <2>4, <2>5, <2>6 DEF Filing, FilesOnce
<1>. QED  BY <1>1, <1>2, <1>4, <1>6 DEF InTurn

\* The rules file a message once, on whichever of the machines they run: a message
\* moved back stays where it was put.  What the mark says has to be with the message
\* under every name it gets, and be there before the move begins; a second copy, which
\* a move that fails halfway leaves behind, is what they would file a second time.
THEOREM FiledAtMostOnce == Spec => []FiledOnce
<1>. DEFINE Inv == Shape /\ BatchOpen /\ DraftsOnly /\ InTurn
<1>1. Init => Inv
  BY InitShape, InitInTurn
<1>2. Inv /\ [Next]_vars => Inv'
  <2>. SUFFICES ASSUME Inv, [Next]_vars PROVE Inv'
    OBVIOUS
  <2>1. Shape'
    BY ShapeNext
  <2>2. CASE Next
    <3>1. BatchOpen' /\ DraftsOnly'
      BY <2>2, BatchNext, DraftsNext
    <3>2. CASE Orderly'
      BY <2>1, <2>2, <3>1, <3>2, InTurnNext
    <3>3. CASE ~ Orderly'
      BY <2>1, <3>1, <3>3 DEF InTurn
    <3>. QED  BY <2>1, <3>1, <3>2, <3>3
  <2>3. CASE UNCHANGED vars
    <3>1. /\ bucket' = bucket /\ doc' = doc /\ pend' = pend /\ host' = host /\ view' = view
          /\ index' = index /\ pc' = pc /\ mem' = mem /\ filed' = filed /\ arrived' = arrived
      BY <2>3 DEF vars, shared, local, history
    <3>2. failed' = failed /\ bare' = bare /\ overlap' = overlap
      BY <2>3 DEF vars, tally, history
    <3>3. BatchOpen'
      BY <3>1 DEF BatchOpen
    <3>4. DraftsOnly'
      BY <3>1 DEF DraftsOnly
    <3>5. Orderly' => Orderly
      BY <3>2, Zenon DEF Orderly
    <3>6. ASSUME NEW w \in Worker, Filing(w) PROVE Filing(w)'
      <4>1. Current(w)' = Current(w) /\ \A mid : RuledFor(w, mid)' = RuledFor(w, mid)
        BY <3>1, CurrentSame, RuledSame
      <4>2. OneCopy(w)' /\ FiledIsRuled(w)'
        BY <3>1, <3>6, <4>1 DEF Filing, OneCopy, FiledIsRuled
      <4>3. UpToDate(w)'
        BY <3>1, <3>6, <4>1 DEF Filing, UpToDate, View, Index
      <4>4. AtHand(w)' = AtHand(w) /\ ToFile(w)' = ToFile(w)
        BY <3>1 DEF AtHand, ToFile
      <4>5. FilesOnce(w)'
        BY <3>1, <3>6, <4>1, <4>4 DEF Filing, FilesOnce
      <4>. QED  BY <4>2, <4>3, <4>5 DEF Filing
    <3>7. InTurn'
      BY <3>1, <3>5, <3>6 DEF InTurn, Alone, FiledWell
    <3>. QED  BY <2>1, <3>3, <3>4, <3>7
  <2>. QED  BY <2>2, <2>3
<1>3. Inv => FiledOnce
  BY DEF InTurn, Orderly, FiledWell, FiledOnce
<1>. QED  BY <1>1, <1>2, <1>3, PTL DEF Spec

-----------------------------------------------------------------------------
(* Marks: names, and what ops do to the marks under them.                    *)

\* What one op makes of the marks under a name.
LEMMA OpMarks ==
  ASSUME NEW d, IsDoc(d), NEW op \in Ops, NEW x
  PROVE  /\ op.t = "ruled" => (Marked(Apply(d, op), x) <=> Marked(d, x))
         /\ op.t = "flags" /\ x # op.mid => (Marked(Apply(d, op), x) <=> Marked(d, x))
         /\ op.t = "flags" /\ Marked(d, x) => Marked(Apply(d, op), x)
         /\ op.t = "drop" /\ x # op.mid => (Marked(Apply(d, op), x) <=> Marked(d, x))
         /\ op.t = "drop" /\ x = op.mid => ~Marked(Apply(d, op), x)
         /\ op.t = "rekey" /\ x # op.new => (Marked(Apply(d, op), x) <=> Marked(d, x))
         /\ op.t = "rekey" /\ x = op.new /\ Marked(d, op.mid) => Marked(Apply(d, op), x)
<1>1. \A y : StateOf(d, y) \in StateType
  BY DEF StateOf, NoState, IsDoc, StateType
<1>2. \A y, v : StateOf(Set(d, y, v), x) = IF x = y THEN v ELSE StateOf(d, x)
  BY DEF StateOf, Set
<1>3. CASE op.t = "ruled"
  <2>. DEFINE v == [StateOf(d, op.mid) EXCEPT !.ruled = TRUE]
  <2>1. Apply(d, op) = Set(d, op.mid, v)
    BY <1>3 DEF Apply
  <2>2. v.marks = StateOf(d, op.mid).marks
    BY <1>1 DEF StateType
  <2>. HIDE DEF v
  <2>3. StateOf(Apply(d, op), x) = IF x = op.mid THEN v ELSE StateOf(d, x)
    BY <1>2, <2>1
  <2>4. StateOf(Apply(d, op), x).marks = StateOf(d, x).marks
    BY <2>2, <2>3
  <2>. QED  BY <1>3, <2>4 DEF Marked
<1>4. CASE op.t = "flags"
  <2>. DEFINE v == [StateOf(d, op.mid) EXCEPT !.marks = TRUE]
  <2>1. Apply(d, op) = Set(d, op.mid, v)
    BY <1>4 DEF Apply
  <2>2. v.marks = TRUE
    BY <1>1 DEF StateType
  <2>. HIDE DEF v
  <2>3. StateOf(Apply(d, op), x) = IF x = op.mid THEN v ELSE StateOf(d, x)
    BY <1>2, <2>1
  <2>4. StateOf(Apply(d, op), x).marks = IF x = op.mid THEN TRUE ELSE StateOf(d, x).marks
    BY <2>2, <2>3
  <2>. QED  BY <1>4, <2>4 DEF Marked
<1>5. CASE op.t = "drop"
  <2>1. Apply(d, op) = Without(d, {op.mid})
    BY <1>5 DEF Apply
  <2>2. StateOf(Apply(d, op), x) = IF x = op.mid THEN NoState ELSE StateOf(d, x)
    BY <2>1 DEF StateOf, Without, Restrict
  <2>3. StateOf(Apply(d, op), x).marks = IF x = op.mid THEN FALSE ELSE StateOf(d, x).marks
    BY <2>2 DEF NoState
  <2>. QED  BY <1>5, <2>3 DEF Marked
<1>6. CASE op.t = "rekey"
  <2>1. Apply(d, op) = Rekey(d, op.mid, op.new)
    BY <1>6 DEF Apply
  <2>2. CASE op.mid \in DOMAIN d
    <3>1. Apply(d, op) = Set(d, op.new, d[op.mid]) /\ StateOf(d, op.mid) = d[op.mid]
      BY <2>1, <2>2 DEF Rekey, StateOf
    <3>. QED  BY <1>2, <1>6, <3>1 DEF Marked
  <2>3. CASE op.mid \notin DOMAIN d
    <3>1. Apply(d, op) = d /\ ~Marked(d, op.mid)
      BY <2>1, <2>3 DEF Rekey, StateOf, Marked, NoState
    <3>. QED  BY <1>6, <3>1
  <2>. QED  BY <2>2, <2>3
<1>. QED  BY <1>3, <1>4, <1>5, <1>6 DEF Ops

\* What is kept for a name is there after the fold: marks it has, and marks that
\* are on the way to it.
LEMMA FoldMarks ==
  ASSUME NEW d, IsDoc(d), NEW b \in SUBSET Name, NEW s \in Seq(Ops), OpsKeep(d, b, s),
         NEW x \in Name, x[1] = Old, ~Excused(b, x), Marked(d, x) \/ Told(s, x)
  PROVE  Marked(FoldLeft(Apply, d, s), x)
<1>1. Len(s) \in Nat /\ DOMAIN s = 1 .. Len(s)
  OBVIOUS
<1>2. PICK g : /\ g[0] = d
               /\ \A k \in 1 .. Len(s) : g[k] = Apply(g[k - 1], s[k])
               /\ FoldLeft(Apply, d, s) = g[Len(s)]
  BY ZenonT(30), FoldSteps
<1>. DEFINE n == Len(s)
            Due(k, y) == /\ y[1] = Old /\ ~Excused(b, y)
                         /\ Marked(d, y) \/ \E i \in 1 .. k : Hands(s[i], y)
            Good(k) == IsDoc(g[k]) /\ \A y \in Name : Due(k, y) => Marked(g[k], y)
            Bad == {k \in 0 .. n : ~Good(k)}
<1>3. Good(0)
  BY <1>2
<1>4. ASSUME NEW k \in 1 .. n, Good(k - 1) PROVE Good(k)
  <2>. DEFINE e == g[k - 1]
              op == s[k]
  <2>1. op \in Ops /\ IsDoc(e) /\ g[k] = Apply(e, op) /\ OpKeeps(d, b, s, k)
    BY <1>1, <1>2, <1>4 DEF OpsKeep
  <2>2. op.mid \in Name /\ (op.t = "rekey" => op.new \in Name)
    BY <2>1 DEF Ops
  <2>3. IsDoc(g[k])
    BY <2>1, ApplyDoc
  <2>4. ASSUME NEW y \in Name, Due(k, y) PROVE Marked(g[k], y)
    <3>1. Due(k - 1, y) => Marked(e, y)
      BY <1>4
    <3>2. Due(k - 1, y) \/ Hands(op, y)
      BY <1>1, <2>4
    <3>3. CASE Hands(op, y)
      <4>1. op.t = "rekey" /\ op.new = y /\ IsPrefix(op.mid, y)
        BY <2>1, <3>3 DEF Hands, OpKeeps
      <4>2. op.mid[1] = Old /\ ~Excused(b, op.mid)
        <5>1. op.mid[1] = y[1]
          BY <2>2, <4>1, NameAndMade
        <5>2. \A p \in b : IsPrefix(p, op.mid) => IsPrefix(p, y)
          BY <2>2, <4>1, NameAndMade
        <5>. QED  BY <2>4, <5>1, <5>2 DEF Excused
      <4>3. Marked(d, op.mid) \/ \E j \in 1 .. k - 1 : Hands(s[j], op.mid)
        BY <2>1, <2>4, <4>1, <4>2 DEF OpKeeps
      <4>4. Marked(e, op.mid)
        BY <1>4, <2>2, <4>2, <4>3
      <4>. HIDE DEF e, op
      <4>5. Marked(Apply(e, op), y)
        BY <2>1, <4>1, <4>4, OpMarks
      <4>. QED  BY <2>1, <4>5
    <3>4. CASE Due(k - 1, y) /\ ~Hands(op, y)
      <4>1. op.t = "drop" => y # op.mid
        <5>1. op.t = "drop" /\ y = op.mid => y \in b
          BY <2>1, <2>4 DEF OpKeeps
        <5>2. y \notin b
          BY <2>4, NameAndMade DEF Excused
        <5>. QED  BY <5>1, <5>2
      <4>2. op.t = "rekey" => y # op.new
        BY <3>4 DEF Hands
      <4>3. op.t \in {"ruled", "flags", "drop", "rekey"} /\ Marked(e, y)
        BY <2>1, <3>1, <3>4 DEF Ops
      <4>. HIDE DEF e, op
      <4>4. Marked(Apply(e, op), y)
        BY <2>1, <4>1, <4>2, <4>3, OpMarks
      <4>. QED  BY <2>1, <4>4
    <3>. QED  BY <3>2, <3>3, <3>4
  <2>. QED  BY <2>3, <2>4
<1>. HIDE DEF Good
<1>5. Good(n)
  <2>. SUFFICES ASSUME Bad # {} PROVE FALSE
    BY <1>1
  <2>1. Bad \in SUBSET Nat
    BY <1>1
  <2>2. PICK k \in Bad : \A j \in Bad : k =< j
    BY <2>1, LeastNumber
  <2>3. k \in 1 .. n /\ k - 1 \in 0 .. n /\ ~ (k =< k - 1)
    BY <1>1, <1>3, <2>2
  <2>4. Good(k - 1)
    BY <2>2, <2>3
  <2>. QED  BY <1>4, <2>2, <2>3, <2>4
<1>6. Due(n, x)
  BY <1>1 DEF Told
<1>. QED  BY <1>2, <1>5, <1>6 DEF Good

\* Marks that are there after the fold were there before or came along.
LEMMA FoldFrom ==
  ASSUME NEW d, IsDoc(d), NEW b, NEW s \in Seq(Ops), OpsKeep(d, b, s),
         NEW x \in Name, x[1] = Old, Marked(FoldLeft(Apply, d, s), x)
  PROVE  Marked(d, x) \/ Told(s, x)
<1>. SUFFICES ASSUME ~Marked(d, x), ~Told(s, x) PROVE FALSE
  OBVIOUS
<1>1. Len(s) \in Nat /\ DOMAIN s = 1 .. Len(s)
  OBVIOUS
<1>2. PICK g : /\ g[0] = d
               /\ \A k \in 1 .. Len(s) : g[k] = Apply(g[k - 1], s[k])
               /\ FoldLeft(Apply, d, s) = g[Len(s)]
  BY ZenonT(30), FoldSteps
<1>. DEFINE n == Len(s)
            Good(k) == IsDoc(g[k]) /\ ~Marked(g[k], x)
            Bad == {k \in 0 .. n : ~Good(k)}
<1>3. Good(0)
  BY <1>2
<1>4. ASSUME NEW k \in 1 .. n, Good(k - 1) PROVE Good(k)
  <2>. DEFINE e == g[k - 1]
              op == s[k]
  <2>1. op \in Ops /\ IsDoc(e) /\ g[k] = Apply(e, op) /\ OpKeeps(d, b, s, k) /\ ~Marked(e, x)
    BY <1>1, <1>2, <1>4 DEF OpsKeep
  <2>2. op.t = "flags" => x # op.mid
    BY <2>1 DEF OpKeeps
  <2>3. op.t = "rekey" => x # op.new
    BY <1>1 DEF Told, Hands
  <2>4. op.t \in {"ruled", "flags", "drop", "rekey"}
    BY <2>1 DEF Ops
  <2>. HIDE DEF e, op
  <2>5. ~Marked(Apply(e, op), x) /\ IsDoc(Apply(e, op))
    BY <2>1, <2>2, <2>3, <2>4, OpMarks, ApplyDoc
  <2>. QED  BY <2>1, <2>5
<1>. HIDE DEF Good
<1>5. Good(n)
  <2>. SUFFICES ASSUME Bad # {} PROVE FALSE
    BY <1>1
  <2>1. Bad \in SUBSET Nat
    BY <1>1
  <2>2. PICK k \in Bad : \A j \in Bad : k =< j
    BY <2>1, LeastNumber
  <2>3. k \in 1 .. n /\ k - 1 \in 0 .. n /\ ~ (k =< k - 1)
    BY <1>1, <1>3, <2>2
  <2>4. Good(k - 1)
    BY <2>2, <2>3
  <2>. QED  BY <1>4, <2>2, <2>3, <2>4
<1>. QED  BY <1>2, <1>5 DEF Good

\* One more op.
LEMMA AppendKeeps ==
  ASSUME NEW d, NEW b, NEW s \in Seq(Ops), OpsKeep(d, b, s), NEW op \in Ops,
         op.t = "rekey" =>
           /\ IsPrefix(op.mid, op.new)
           /\ op.mid[1] = Old /\ ~Excused(b, op.new) => Marked(d, op.mid) \/ Told(s, op.mid),
         op.t = "drop" /\ op.mid[1] = Old => op.mid \in b,
         op.t = "flags" => op.mid[1] # Old
  PROVE  OpsKeep(d, b, Append(s, op))
<1>. DEFINE n == Len(s)
            more == Append(s, op)
<1>1. /\ n \in Nat /\ DOMAIN s = 1 .. n /\ DOMAIN more = 1 .. n + 1 /\ more[n + 1] = op
      /\ \A i \in 1 .. n : more[i] = s[i]
  OBVIOUS
<1>. HIDE DEF n, more
<1>2. ASSUME NEW i \in 1 .. n PROVE OpKeeps(d, b, more, i)
  <2>1. OpKeeps(d, b, s, i) /\ more[i] = s[i] /\ \A j \in 1 .. i - 1 : more[j] = s[j]
    BY <1>1 DEF OpsKeep
  <2>. QED  BY <2>1 DEF OpKeeps
<1>3. OpKeeps(d, b, more, n + 1)
  <2>1. \A x : Told(s, x) => \E j \in 1 .. n + 1 - 1 : Hands(more[j], x)
    BY <1>1 DEF Told
  <2>. QED  BY <1>1, <2>1 DEF OpKeeps
<1>4. \A i \in DOMAIN more : i \in 1 .. n \/ i = n + 1
  BY <1>1
<1>. QED  BY <1>2, <1>3, <1>4 DEF OpsKeep, more

\* What waits still fits when others write, as long as no marks go that nothing
\* explains.
LEMMA KeepOn ==
  ASSUME NEW d, NEW e, NEW b, NEW c \in SUBSET Name, b \subseteq c,
         NEW s \in Seq(Ops), OpsKeep(d, b, s),
         \A x \in Name : x[1] = Old /\ ~Excused(c, x) /\ Marked(d, x) => Marked(e, x)
  PROVE  OpsKeep(e, c, s)
<1>. SUFFICES ASSUME NEW i \in DOMAIN s PROVE OpKeeps(e, c, s, i)
  BY DEF OpsKeep
<1>1. OpKeeps(d, b, s, i) /\ s[i] \in Ops
  BY DEF OpsKeep
<1>2. s[i].mid \in Name /\ (s[i].t = "rekey" => s[i].new \in Name)
  BY <1>1 DEF Ops
<1>3. \A x : Excused(b, x) => Excused(c, x)
  BY DEF Excused
<1>4. s[i].t = "rekey" /\ Excused(c, s[i].mid) => Excused(c, s[i].new)
  <2>. SUFFICES ASSUME s[i].t = "rekey", NEW p \in c, IsPrefix(p, s[i].mid)
                PROVE  IsPrefix(p, s[i].new)
    BY DEF Excused
  <2>1. IsPrefix(s[i].mid, s[i].new)
    BY <1>1 DEF OpKeeps
  <2>. QED  BY <1>2, <2>1, NameAndMade
<1>. QED  BY <1>1, <1>2, <1>3, <1>4 DEF OpKeeps

\* The step takes no marks from a name, and hands on what was to be handed on,
\* but where it is known why not.
FollowOn ==
  \A x \in Name :
    x[1] = Old /\ ~Excused(bare', x) =>
      /\ Marked(doc, x) => Marked(doc', x)
      /\ \A m \in Machine : Told(pend[m], x) => Marked(doc', x) \/ Told(pend'[m], x)

LEMMA FlushFollows ==
  ASSUME Shape, Marking, bare \subseteq bare', bare' \subseteq Name,
         NEW w \in Worker, NEW list \in Seq(Ops), Flush(w, list), OpsKeep(doc, bare', list),
         \A x : Told(pend[host[w]], x) => Told(list, x)
  PROVE  FollowOn /\ \A m \in Machine : OpsKeep(doc', bare', pend'[m])
<1>1. /\ host[w] \in Machine /\ pend \in [Machine -> Seq(Ops)] /\ IsDoc(doc)
      /\ \A m \in Machine : OpsKeep(doc, bare, pend[m])
  BY DEF Shape, IndexOK, StateOK, Marking
<1>2. CASE Batched(w)
  <2>1. doc' = doc /\ pend' = [pend EXCEPT ![host[w]] = list]
    BY <1>2 DEF Flush
  <2>2. ASSUME NEW m \in Machine PROVE OpsKeep(doc, bare', pend'[m])
    <3>1. CASE m = host[w]
      BY <1>1, <2>1, <3>1
    <3>2. CASE m # host[w]
      <4>1. pend'[m] = pend[m] /\ pend[m] \in Seq(Ops) /\ OpsKeep(doc, bare, pend[m])
        BY <1>1, <2>1, <3>2
      <4>2. OpsKeep(doc, bare', pend[m])
        BY <4>1, KeepOn
      <4>. QED  BY <4>1, <4>2
    <3>. QED  BY <3>1, <3>2
  <2>3. \A m \in Machine, x \in Name : Told(pend[m], x) => Told(pend'[m], x)
    BY <1>1, <2>1
  <2>. QED  BY <2>1, <2>2, <2>3 DEF FollowOn
<1>3. CASE ~Batched(w)
  <2>1. doc' = FoldLeft(Apply, doc, list) /\ pend' = [pend EXCEPT ![host[w]] = <<>>]
    BY <1>3 DEF Flush
  <2>2. ASSUME NEW x \in Name, x[1] = Old, ~Excused(bare', x), Marked(doc, x) \/ Told(list, x)
        PROVE  Marked(doc', x)
    BY <1>1, <2>1, <2>2, FoldMarks
  <2>3. ASSUME NEW m \in Machine PROVE OpsKeep(doc', bare', pend'[m])
    <3>1. CASE m = host[w]
      <4>1. pend'[m] = <<>>
        BY <1>1, <2>1, <3>1
      <4>. QED  BY <4>1 DEF OpsKeep
    <3>2. CASE m # host[w]
      <4>1. pend'[m] = pend[m] /\ pend[m] \in Seq(Ops) /\ OpsKeep(doc, bare, pend[m])
        BY <1>1, <2>1, <3>2
      <4>2. OpsKeep(doc', bare', pend[m])
        BY <2>2, <4>1, KeepOn
      <4>. QED  BY <4>1, <4>2
    <3>. QED  BY <3>1, <3>2
  <2>4. \A m \in Machine : m # host[w] => pend'[m] = pend[m]
    BY <1>1, <2>1
  <2>. QED  BY <2>2, <2>3, <2>4 DEF FollowOn
<1>. QED  BY <1>2, <1>3

LEMMA MutateFollows ==
  ASSUME Shape, Marking, bare \subseteq bare', bare' \subseteq Name,
         NEW w \in Worker, NEW op \in Ops, Mutate(w, op),
         op.t = "rekey" =>
           /\ IsPrefix(op.mid, op.new)
           /\ op.mid[1] = Old /\ ~Excused(bare', op.new) =>
                Marked(doc, op.mid) \/ Told(pend[host[w]], op.mid),
         op.t = "drop" /\ op.mid[1] = Old => op.mid \in bare',
         op.t = "flags" => op.mid[1] # Old
  PROVE  FollowOn /\ \A m \in Machine : OpsKeep(doc', bare', pend'[m])
<1>. DEFINE s == pend[host[w]]
<1>1. s \in Seq(Ops) /\ OpsKeep(doc, bare, s)
  BY DEF Shape, IndexOK, StateOK, Marking
<1>2. OpsKeep(doc, bare', s)
  BY <1>1, KeepOn
<1>3. OpsKeep(doc, bare', Append(s, op))
  BY <1>1, <1>2, AppendKeeps
<1>4. Append(s, op) \in Seq(Ops) /\ \A x : Told(s, x) => Told(Append(s, op), x)
  <2>. HIDE DEF s
  <2>. QED  BY <1>1 DEF Told
<1>5. Flush(w, Append(s, op))
  BY DEF Mutate
<1>. QED  BY <1>3, <1>4, <1>5, FlushFollows

\* What is known of a name, and what waits, after every step.
LEMMA FollowNext ==
  ASSUME Shape, DraftsOnly, Marking, Next, bare' \subseteq Name
  PROVE  FollowOn /\ \A m \in Machine : OpsKeep(doc', bare', pend'[m])
<1>1. /\ bare \subseteq bare' /\ pend \in [Machine -> Seq(Ops)] /\ Old # "draft"
      /\ \A m \in Machine : OpsKeep(doc, bare, pend[m])
      /\ \A w \in Worker : /\ host[w] \in Machine /\ pend[host[w]] \in Seq(Ops)
                           /\ MemOK(mem[w]) /\ At(pc[w], mem[w], There)
  BY BareGrows, MailboxAssumption DEF Shape, StateOK, IndexOK, WorkersOK, Marking
<1>2. \A mid : IsDraft(mid) => mid[1] # Old
  BY <1>1 DEF IsDraft, Draft
<1>3. \A m \in Machine : OpsKeep(doc, bare', pend[m])
  <2>. SUFFICES ASSUME NEW m \in Machine PROVE OpsKeep(doc, bare', pend[m])
    OBVIOUS
  <2>1. pend[m] \in Seq(Ops) /\ OpsKeep(doc, bare, pend[m])
    BY <1>1
  <2>. QED  BY <1>1, <2>1, KeepOn
<1>4. ASSUME doc' = doc, pend' = pend
      PROVE  FollowOn /\ \A m \in Machine : OpsKeep(doc', bare', pend'[m])
  BY <1>3, <1>4 DEF FollowOn
<1>5. ASSUME NEW w \in Worker, Rule(w)
      PROVE  FollowOn /\ \A m \in Machine : OpsKeep(doc', bare', pend'[m])
  <2>. DEFINE k == CHOOSE k \in mem[w].todo : TRUE
  <2>1. k \in mem[w].todo /\ Mutate(w, Op("ruled", Mid(k)))
    BY <1>5 DEF Rule
  <2>2. k \in Key
    BY <1>1, <2>1 DEF MemOK
  <2>. HIDE DEF k
  <2>. DEFINE op == Op("ruled", Mid(k))
  <2>3. op \in Ops /\ op.t = "ruled" /\ Mutate(w, op)
    BY <2>1, <2>2, KeyParts, OpsMade DEF Op
  <2>. HIDE DEF op
  <2>. QED  BY <1>1, <2>3, MutateFollows
<1>6. ASSUME NEW w \in Worker, Reindex(w)
      PROVE  FollowOn /\ \A m \in Machine : OpsKeep(doc', bare', pend'[m])
  <2>. DEFINE from == Mid(mem[w].from)
              to == Mid(mem[w].to)
              op == [t |-> "rekey", mid |-> from, new |-> to]
  <2>1. /\ pc[w] = "reindex" /\ bare' = bare \cup Untold(w)
        /\ IF to # from THEN Mutate(w, op) ELSE doc' = doc /\ pend' = pend
    BY <1>6 DEF Reindex
  <2>2. from \in Name /\ to \in Name
    BY <1>1, <2>1, KeyParts DEF At
  <2>3. op \in Ops
    BY <2>2, OpsMade
  <2>4. IsPrefix(from, to)
    BY <2>1 DEF Marking, NamedOn
  <2>5. CASE to # from
    <3>1. ASSUME from[1] = Old, ~Excused(bare', to)
          PROVE  Marked(doc, from) \/ Told(pend[host[w]], from)
      <4>1. to \notin bare'
        BY <2>2, <3>1, NameAndMade DEF Excused
      <4>2. Bare(w) = {to}
        BY <2>5 DEF Bare
      <4>3. Marked(FoldLeft(Apply, doc, pend[host[w]]), from)
        BY <2>1, <3>1, <4>1, <4>2 DEF Untold, Marked
      <4>4. IsDoc(doc) /\ OpsKeep(doc, bare, pend[host[w]])
        BY <1>1 DEF Shape, StateOK
      <4>. HIDE DEF from
      <4>. QED  BY <1>1, <2>2, <3>1, <4>3, <4>4, FoldFrom
    <3>2. op.t = "rekey" /\ op.mid = from /\ op.new = to /\ Mutate(w, op)
      BY <2>1, <2>5
    <3>. HIDE DEF op, from, to
    <3>. QED  BY <1>1, <2>3, <2>4, <3>1, <3>2, MutateFollows
  <2>6. CASE to = from
    BY <1>4, <2>1, <2>6
  <2>. QED  BY <2>5, <2>6
<1>7. ASSUME NEW w \in Worker, Flag(w)
      PROVE  FollowOn /\ \A m \in Machine : OpsKeep(doc', bare', pend'[m])
  <2>. DEFINE op == Op("flags", Mid(mem[w].to))
  <2>1. pc[w] = "flag" /\ Mutate(w, op)
    BY <1>7 DEF Flag
  <2>2. mem[w].to \in Key /\ IsDraft(Mid(mem[w].to))
    BY <1>1, <2>1 DEF At, DraftsOnly, DraftWork
  <2>3. op \in Ops /\ op.t = "flags" /\ op.mid[1] # Old
    BY <1>2, <2>2, KeyParts, OpsMade DEF Op
  <2>. HIDE DEF op
  <2>. QED  BY <1>1, <2>1, <2>3, MutateFollows
<1>8. ASSUME NEW w \in Worker, Forget(w) \/ Strike(w)
      PROVE  FollowOn /\ \A m \in Machine : OpsKeep(doc', bare', pend'[m])
  <2>. DEFINE op == Op("drop", Mid(mem[w].from))
  <2>1. /\ pc[w] \in {"forget", "strike"} /\ Mutate(w, op)
        /\ pc[w] = "forget" => Mid(mem[w].from) \in bare'
    BY <1>8 DEF Forget, Strike
  <2>2. /\ mem[w].from \in Key
        /\ pc[w] = "strike" => IsDraft(Mid(mem[w].from))
    BY <1>1, <2>1 DEF At, DraftsOnly, DraftWork
  <2>3. op \in Ops /\ op.t = "drop" /\ (op.mid[1] = Old => op.mid \in bare')
    BY <1>2, <2>1, <2>2, KeyParts, OpsMade DEF Op
  <2>. HIDE DEF op
  <2>. QED  BY <1>1, <2>1, <2>3, MutateFollows
<1>9. ASSUME NEW w \in Worker, Save(w)
      PROVE  FollowOn /\ \A m \in Machine : OpsKeep(doc', bare', pend'[m])
  <2>1. Flush(w, pend[host[w]])
    BY <1>9 DEF Save
  <2>. QED  BY <1>1, <1>3, <2>1, FlushFollows
<1>10. ASSUME NEW m \in Machine, Crash(m)
       PROVE  FollowOn /\ \A n \in Machine : OpsKeep(doc', bare', pend'[n])
  <2>1. /\ doc' = doc /\ pend' = [pend EXCEPT ![m] = <<>>]
        /\ {op.new : op \in {o \in Range(pend[m]) : o.t = "rekey"}} \subseteq bare'
    BY <1>10 DEF Crash, shared
  <2>2. ASSUME NEW x \in Name, ~Excused(bare', x) PROVE ~Told(pend[m], x)
    <3>1. x \notin bare'
      BY <2>2, NameAndMade DEF Excused
    <3>2. ASSUME NEW i \in DOMAIN pend[m], Hands(pend[m][i], x) PROVE FALSE
      <4>1. pend[m][i] \in Range(pend[m])
        BY DEF Range
      <4>. QED  BY <2>1, <3>1, <3>2, <4>1 DEF Hands
    <3>. QED  BY <3>2 DEF Told
  <2>3. \A n \in Machine : pend'[n] = IF n = m THEN <<>> ELSE pend[n]
    BY <1>1, <2>1
  <2>4. OpsKeep(doc, bare', <<>>)
    BY SMTT(30) DEF OpsKeep
  <2>. QED  BY <1>3, <2>1, <2>2, <2>3, <2>4 DEF FollowOn
<1>11. ASSUME NEW w \in Worker,
             \/ List(w) \/ Compare(w) \/ Fetch(w) \/ Install(w) \/ Plan(w)
             \/ RulesDone(w) \/ Pick(w) \/ Copy(w) \/ Delete(w) \/ MoveDone(w)
             \/ PurgeOne(w) \/ PurgeDone(w) \/ Put(w) \/ Note(w) \/ DropObject(w)
             \/ Dropped(w)
      PROVE  doc' = doc /\ pend' = pend
  BY <1>11 DEF List, Compare, Fetch, Install, Plan, RulesDone, Pick, Copy, Delete,
     MoveDone, PurgeOne, PurgeDone, Put, Note, DropObject, Dropped, shared, local
<1>12. ASSUME NEW w \in Worker,
             \/ Refresh(w) \/ SaveDraft(w) \/ DropDraft(w)
             \/ \E K \in SUBSET InTrash(w) : Purge(w, K)
             \/ \E K \in SUBSET DOMAIN Index(w) : \E f \in Folder \ {Drafts} : Move(w, K, f)
      PROVE  doc' = doc /\ pend' = pend
  BY <1>12 DEF Refresh, SaveDraft, DropDraft, Purge, Move, Begin, shared
<1>13. ASSUME NEW c \in Message, Deliver(c) PROVE doc' = doc /\ pend' = pend
  BY <1>13 DEF Deliver, local
<1>. QED  BY <1>4, <1>5, <1>6, <1>7, <1>8, <1>9, <1>10, <1>11, <1>12, <1>13 DEF Next, Step

\* A move names a copy on from the name the message has.
LEMMA NamedOnNext == ASSUME Shape, NamedOn, Next PROVE NamedOn'
<1>. DEFINE Named(step, x) ==
       step \in {"copy", "delete", "reindex"} => IsPrefix(Mid(x.from), Mid(x.to))
<1>1. DOMAIN pc = Worker /\ DOMAIN mem = Worker /\ \A w \in Worker : Named(pc[w], mem[w])
  BY DEF Shape, WorkersOK, NamedOn
<1>2. ASSUME NEW w \in Worker, NEW step, NEW x, Goto(w, step, x), Named(step, x)
      PROVE  NamedOn'
  <2>1. \A v \in Worker : pc'[v] = (IF v = w THEN step ELSE pc[v])
                          /\ mem'[v] = (IF v = w THEN x ELSE mem[v])
    BY <1>1, <1>2 DEF Goto
  <2>. QED  BY <1>1, <1>2, <2>1 DEF NamedOn
<1>. HIDE DEF Named
<1>3. \A step \in {"idle", "list", "compare", "fetch", "plan", "rule", "pick", "purge",
                   "forget", "save", "flush", "put", "flag", "note", "drop", "dropped",
                   "strike"} : \A x : Named(step, x)
  BY DEF Named
<1>4. ASSUME NEW w \in Worker,
             \/ List(w) \/ Compare(w) \/ Fetch(w) \/ Install(w) \/ Plan(w) \/ Rule(w)
             \/ RulesDone(w) \/ Reindex(w) \/ MoveDone(w) \/ Save(w) \/ PurgeOne(w)
             \/ Forget(w) \/ PurgeDone(w) \/ Put(w) \/ Flag(w) \/ Note(w) \/ DropObject(w)
             \/ Dropped(w) \/ Strike(w) \/ Refresh(w) \/ SaveDraft(w) \/ DropDraft(w)
             \/ \E K \in SUBSET InTrash(w) : Purge(w, K)
             \/ \E K \in SUBSET DOMAIN Index(w) : \E f \in Folder \ {Drafts} : Move(w, K, f)
      PROVE  NamedOn'
  <2>1. mem[w].back \in {"save", "rule"}
    BY DEF Shape, WorkersOK, MemOK
  <2>2. \E step \in {"idle", "list", "compare", "fetch", "plan", "rule", "pick", "purge",
                     "forget", "save", "flush", "put", "flag", "note", "drop", "dropped",
                     "strike"} : \E x : Goto(w, step, x)
    BY <1>4, <2>1 DEF List, Compare, Fetch, Install, Plan, Rule, RulesDone, Reindex, MoveDone,
       Save, PurgeOne, Forget, PurgeDone, Put, Flag, Note, DropObject, Dropped, Strike,
       Refresh, SaveDraft, DropDraft, Purge, Move, Begin, End
  <2>. QED  BY SMTT(30), <1>2, <1>3, <2>2
<1>5. ASSUME NEW w \in Worker, NotMoved(w) PROVE NamedOn'
  <2>1. \E step \in {"save", "pick"} : \E x : Goto(w, step, x)
    BY <1>5 DEF NotMoved
  <2>. QED  BY <1>2, <1>3, <2>1
<1>6. ASSUME NEW w \in Worker, Copy(w) \/ Delete(w) PROVE NamedOn'
  <2>1. \/ pc[w] = "copy" /\ Goto(w, "delete", mem[w])
        \/ pc[w] = "delete" /\ Goto(w, "reindex", mem[w])
        \/ NotMoved(w)
    BY <1>6 DEF Copy, Delete
  <2>2. pc[w] \in {"copy", "delete"} => Named("delete", mem[w]) /\ Named("reindex", mem[w])
    BY <1>1 DEF Named
  <2>. QED  BY <1>2, <1>5, <2>1, <2>2
<1>7. ASSUME NEW w \in Worker, Pick(w) PROVE NamedOn'
  <2>. DEFINE k == CHOOSE k \in mem[w].keys : TRUE
              rest == [mem[w] EXCEPT !.keys = @ \ {k}]
              to == FreeKey(Index(w), Mid(k), mem[w].target)
              x == [rest EXCEPT !.from = k, !.entry = Index(w)[k], !.to = to]
  <2>1. mem[w].keys # {} /\ (Goto(w, "pick", rest) \/ Goto(w, "copy", x))
    BY <1>7 DEF Pick
  <2>2. /\ k \in Key /\ mem[w].target \in Folder /\ IsMap(Index(w), Entry)
        /\ DOMAIN mem[w] = DOMAIN Blank
    BY <2>1 DEF Shape, WorkersOK, MemOK, IndexOK, Index
  <2>. HIDE DEF k
  <2>3. IsPrefix(Mid(k), Mid(to))
    BY <2>2, KeyParts, FreeKeyIsFree
  <2>4. x.from = k /\ x.to = to
    BY <2>2, BlankMem
  <2>. HIDE DEF to, x
  <2>5. Named("copy", x)
    BY <2>3, <2>4 DEF Named
  <2>. QED  BY <1>2, <1>3, <2>1, <2>5
<1>8. ASSUME NEW m \in Machine, Crash(m) PROVE NamedOn'
  <2>. DEFINE Here == {w \in Worker : host[w] = m}
  <2>1. /\ pc' = [w \in Worker |-> IF w \in Here THEN "idle" ELSE pc[w]]
        /\ mem' = [w \in Worker |-> IF w \in Here THEN Blank ELSE mem[w]]
    BY <1>8 DEF Crash
  <2>. HIDE DEF Here
  <2>. QED  BY <2>1 DEF NamedOn
<1>9. ASSUME NEW c \in Message, Deliver(c) PROVE NamedOn'
  BY <1>9 DEF Deliver, NamedOn
<1>. QED  BY <1>4, <1>6, <1>7, <1>8, <1>9 DEF Next, Step

\* A name that is awaited is still, or the ops to be written know of it, or it is
\* known why not.
LEMMA AwaitedNext ==
  ASSUME Shape, Next, NEW x \in Name, Awaited(x)
  PROVE  Awaited(x)' \/ Excused(bare', x) \/ \E m \in Machine : Told(pend'[m], x)
<1>1. PICK u \in Worker : /\ pc[u] \in {"delete", "reindex"}
                          /\ Mid(mem[u].to) = x /\ Mid(mem[u].from) # x
  BY DEF Awaited
<1>2. /\ DOMAIN pc = Worker /\ DOMAIN mem = Worker /\ pend \in [Machine -> Seq(Ops)]
      /\ \A w \in Worker : host[w] \in Machine
  BY DEF Shape, WorkersOK, StateOK, IndexOK
<1>3. ASSUME x \in bare' PROVE Excused(bare', x)
  BY <1>3, NameAndMade DEF Excused
<1>4. x \in Bare(u)
  BY <1>1 DEF Bare
<1>5. ASSUME pc'[u] \in {"delete", "reindex"}, mem'[u] = mem[u] PROVE Awaited(x)'
  BY <1>1, <1>5 DEF Awaited
<1>6. ASSUME NEW w \in Worker, w # u, Step(w) PROVE Awaited(x)'
  <2>1. \E step, y : Goto(w, step, y)
    <3>1. ASSUME NotMoved(w) PROVE \E step, y : Goto(w, step, y)
      BY <3>1 DEF NotMoved
    <3>. QED  BY <1>6, <3>1 DEF Step, List, Compare, Fetch, Install, Plan, Rule, RulesDone, Pick,
           Copy, Delete, Reindex, MoveDone, Save, PurgeOne, Forget, PurgeDone, Put, Flag, Note,
           DropObject, Dropped, Strike, End
  <2>2. pc'[u] = pc[u] /\ mem'[u] = mem[u]
    BY <1>2, <1>6, <2>1 DEF Goto
  <2>. QED  BY SMTT(30), <1>1, <1>5, <2>2
<1>7. ASSUME Step(u)
      PROVE  Awaited(x)' \/ Excused(bare', x) \/ \E m \in Machine : Told(pend'[m], x)
  <2>1. Delete(u) \/ Reindex(u)
    BY <1>1, <1>7 DEF Step, List, Compare, Fetch, Install, Plan, Rule, RulesDone, Pick,
       Copy, Delete, Reindex, MoveDone, Save, PurgeOne, Forget, PurgeDone, Put, Flag, Note,
       DropObject, Dropped, Strike
  <2>2. CASE Delete(u)
    <3>1. Goto(u, "reindex", mem[u]) \/ bare' = bare \cup Bare(u)
      BY <2>2 DEF Delete
    <3>2. Goto(u, "reindex", mem[u]) => pc'[u] = "reindex" /\ mem'[u] = mem[u]
      BY <1>2 DEF Goto
    <3>. QED  BY <1>3, <1>4, <1>5, <3>1, <3>2
  <2>3. CASE Reindex(u)
    <3>. DEFINE op == [t |-> "rekey", mid |-> Mid(mem[u].from), new |-> Mid(mem[u].to)]
                h == host[u]
    <3>1. Mutate(u, op) /\ pc' = [pc EXCEPT ![u] = "pick"]
      BY <1>1, <2>3 DEF Reindex, Goto
    <3>2. op.t = "rekey" /\ op.new = x
      BY <1>1
    <3>. HIDE DEF op
    <3>3. Batched(u)
      BY <1>2, <3>1 DEF Batched, BatchStep
    <3>4. pend' = [pend EXCEPT ![h] = Append(pend[h], op)]
      BY <3>1, <3>3 DEF Mutate, Flush
    <3>5. pend'[h] = Append(pend[h], op) /\ pend[h] \in Seq(Ops) /\ h \in Machine
      BY <1>2, <3>4
    <3>. HIDE DEF h
    <3>6. Len(pend[h]) + 1 \in DOMAIN pend'[h] /\ pend'[h][Len(pend[h]) + 1] = op
      BY <3>5
    <3>. QED  BY <3>2, <3>5, <3>6 DEF Told, Hands
  <2>. QED  BY SMTT(30), <2>1, <2>2, <2>3
<1>8. ASSUME NEW w \in Worker,
             \/ Refresh(w) \/ SaveDraft(w) \/ DropDraft(w)
             \/ \E K \in SUBSET InTrash(w) : Purge(w, K)
             \/ \E K \in SUBSET DOMAIN Index(w) : \E f \in Folder \ {Drafts} : Move(w, K, f)
      PROVE  Awaited(x)'
  <2>1. pc[w] = "idle" /\ \E step, y : Goto(w, step, y)
    BY <1>8 DEF Refresh, SaveDraft, DropDraft, Purge, Move, Begin, Idle
  <2>2. pc'[u] = pc[u] /\ mem'[u] = mem[u]
    BY <1>1, <1>2, <2>1 DEF Goto
  <2>. QED  BY <1>1, <1>5, <2>2
<1>9. ASSUME NEW m \in Machine, Crash(m) PROVE Awaited(x)' \/ Excused(bare', x)
  <2>. DEFINE Here == {w \in Worker : host[w] = m}
  <2>1. /\ pc' = [w \in Worker |-> IF w \in Here THEN "idle" ELSE pc[w]]
        /\ mem' = [w \in Worker |-> IF w \in Here THEN Blank ELSE mem[w]]
        /\ UNION {Bare(w) : w \in {v \in Here : pc[v] \in {"delete", "reindex"}}} \subseteq bare'
    BY <1>9 DEF Crash
  <2>2. CASE u \in Here
    <3>1. x \in UNION {Bare(w) : w \in {v \in Here : pc[v] \in {"delete", "reindex"}}}
      BY <1>1, <1>4, <2>2
    <3>. QED  BY <1>3, <2>1, <3>1
  <2>3. CASE u \notin Here
    <3>1. pc'[u] = pc[u] /\ mem'[u] = mem[u]
      BY <2>1, <2>3
    <3>. QED  BY <1>1, <1>5, <3>1
  <2>. QED  BY <2>2, <2>3
<1>10. ASSUME NEW c \in Message, Deliver(c) PROVE Awaited(x)'
  BY <1>1, <1>5, <1>10 DEF Deliver
<1>. QED  BY <1>6, <1>7, <1>8, <1>9, <1>10 DEF Next

\* A copy that has marks, or is to get them, does so after the step.
LEMMA StillFollows ==
  ASSUME Shape, DraftsOnly, Marking, Next, bare' \subseteq Name,
         NEW k \in Key, MarksFollow(k)
  PROVE  MarksFollow(k)'
<1>1. Mid(k) \in Name /\ bare \subseteq bare'
  BY KeyParts, BareGrows
<1>2. PICK x \in Name : x = Mid(k)
  BY <1>1
<1>3. /\ x[1] = Old
      /\ \/ Excused(bare, x) \/ Marked(doc, x) \/ Awaited(x)
         \/ \E m \in Machine : Told(pend[m], x)
  BY <1>2 DEF MarksFollow
<1>4. FollowOn
  BY FollowNext
<1>5. Excused(bare, x) => Excused(bare', x)
  BY <1>1 DEF Excused
<1>6. \/ Excused(bare', x) \/ Marked(doc', x) \/ Awaited(x)'
      \/ \E m \in Machine : Told(pend'[m], x)
  BY <1>3, <1>4, <1>5, AwaitedNext DEF FollowOn
<1>. QED  BY <1>2, <1>3, <1>6 DEF MarksFollow

\* What is in the bucket after the step was there before, or came from what was.
LEMMA CopiesFollow ==
  ASSUME Shape, DraftsOnly, Marking, Next, bare' \subseteq Name,
         NEW k \in DOMAIN bucket', bucket'[k] = Old
  PROVE  MarksFollow(k)'
<1>1. /\ BucketOK /\ DOMAIN bucket \subseteq Key /\ Old \in arrived /\ Old \in Message
      /\ \A j \in DOMAIN bucket : bucket[j] \in Content
      /\ \A j \in DOMAIN bucket : bucket[j] = Old => MarksFollow(j)
  BY MailboxAssumption DEF Shape, BucketOK, IsMap, Marking
<1>2. ASSUME k \in DOMAIN bucket, bucket[k] = Old PROVE MarksFollow(k)'
  BY <1>1, <1>2, StillFollows
<1>3. ASSUME NEW j, bucket' = Without(bucket, {j}) PROVE MarksFollow(k)'
  <2>1. k \in DOMAIN bucket /\ bucket'[k] = bucket[k]
    BY <1>1, <1>3, Deleted
  <2>. QED  BY <1>2, <2>1
<1>4. ASSUME NEW c \in Message, Deliver(c) PROVE MarksFollow(k)'
  <2>1. c # Old /\ bucket' = Set(bucket, Home(c), c) /\ c \in Content /\ Home(c) \in Key
    BY <1>1, <1>4, FirstKeys DEF Deliver, Content
  <2>2. k \in DOMAIN bucket /\ bucket'[k] = bucket[k]
    BY <1>1, <2>1, Stored
  <2>. QED  BY <1>2, <2>2
<1>5. ASSUME NEW w \in Worker, Put(w) PROVE MarksFollow(k)'
  <2>1. \/ bucket' = bucket
        \/ /\ saves' \in 1 .. MaxSaves
           /\ bucket' = Set(bucket, DraftKey(saves'), Draft(saves'))
    <3>1. saves \in 0 .. MaxSaves /\ MaxSaves \in Nat
      BY MailboxAssumption DEF Shape, TallyOK
    <3>. QED  BY <1>5, <3>1 DEF Put
  <2>2. \A n \in 1 .. MaxSaves : Draft(n) # Old /\ Draft(n) \in Content /\ DraftKey(n) \in Key
    BY <1>1, FirstKeys, MailboxAssumption DEF Draft, Content
  <2>3. k \in DOMAIN bucket /\ bucket'[k] = bucket[k]
    <3>1. CASE bucket' = bucket
      BY <3>1
    <3>2. CASE bucket' # bucket
      <4>1. PICK n \in 1 .. MaxSaves : bucket' = Set(bucket, DraftKey(n), Draft(n))
        BY <2>1, <3>2
      <4>2. PICK j \in Key, v \in Content : j = DraftKey(n) /\ v = Draft(n)
        BY <2>2
      <4>3. /\ DOMAIN bucket' = DOMAIN bucket \cup {j} /\ bucket'[j] = v /\ v # Old
            /\ \A i \in DOMAIN bucket \ {j} : bucket'[i] = bucket[i]
        BY <1>1, <2>2, <4>1, <4>2, Stored
      <4>. QED  BY <4>3
    <3>. QED  BY <3>1, <3>2
  <2>. QED  BY <1>2, <2>3
<1>6. ASSUME NEW w \in Worker, Copy(w) PROVE MarksFollow(k)'
  <2>1. pc[w] = "copy" /\ mem[w].from \in Key /\ mem[w].to \in Key
    BY <1>6 DEF Copy, Shape, WorkersOK, At
  <2>2. PICK from \in Key, to \in Key : from = mem[w].from /\ to = mem[w].to
    BY <2>1
  <2>3. \/ bucket' = bucket
        \/ /\ from \in DOMAIN bucket /\ bucket' = Set(bucket, to, bucket[from])
           /\ Goto(w, "delete", mem[w]) \/ bare' = bare \cup Bare(w)
    BY <1>6, <2>2 DEF Copy
  <2>4. CASE bucket' = bucket
    BY <1>2, <2>4
  <2>5. CASE bucket' # bucket
    <3>1. /\ DOMAIN bucket' = DOMAIN bucket \cup {to} /\ bucket'[to] = bucket[from]
          /\ \A j \in DOMAIN bucket \ {to} : bucket'[j] = bucket[j]
      BY <1>1, <2>3, <2>5, Stored
    <3>2. CASE k # to
      BY <1>2, <3>1, <3>2
    <3>3. CASE k = to
      <4>1. from \in DOMAIN bucket /\ bucket[from] = Old /\ MarksFollow(from)
        BY <1>1, <2>3, <2>5, <3>1, <3>3
      <4>2. Mid(from)[1] = Old /\ MarksFollow(from)'
        BY <4>1, StillFollows DEF MarksFollow
      <4>3. /\ IsPrefix(Mid(from), Mid(to))
            /\ Mid(from) \in Name /\ Mid(to) \in Name
        BY <2>1, <2>2, KeyParts DEF Marking, NamedOn
      <4>4. Mid(to)[1] = Old
        BY <4>2, <4>3, NameAndMade
      <4>5. CASE Mid(to) = Mid(from)
        BY <3>3, <4>2, <4>5 DEF MarksFollow
      <4>6. CASE Mid(to) # Mid(from)
        <5>1. CASE bare' = bare \cup Bare(w)
          <6>1. Mid(to) \in bare'
            BY <2>2, <4>6, <5>1 DEF Bare
          <6>2. Excused(bare', Mid(to))
            BY <4>3, <6>1, NameAndMade DEF Excused
          <6>. QED  BY <3>3, <4>4, <6>2 DEF MarksFollow
        <5>2. CASE Goto(w, "delete", mem[w])
          <6>1. pc'[w] = "delete" /\ mem'[w] = mem[w]
            BY <5>2 DEF Goto, Shape, WorkersOK
          <6>2. PICK x \in Name : x = Mid(to)
            BY <4>3
          <6>3. Awaited(x)'
            BY <2>2, <4>6, <6>1, <6>2 DEF Awaited
          <6>. QED  BY <3>3, <4>4, <6>2, <6>3 DEF MarksFollow
        <5>. QED  BY <2>3, <2>5, <5>1, <5>2
      <4>. QED  BY <4>5, <4>6
    <3>. QED  BY <3>2, <3>3
  <2>. QED  BY <2>4, <2>5
<1>7. ASSUME NEW w \in Worker, Delete(w) \/ PurgeOne(w) \/ DropObject(w)
      PROVE  MarksFollow(k)'
  <2>1. bucket' = bucket \/ \E j : bucket' = Without(bucket, {j})
    BY <1>7 DEF Delete, PurgeOne, DropObject
  <2>. QED  BY <1>2, <1>3, <2>1
<1>8. ASSUME NEW w \in Worker,
             \/ List(w) \/ Compare(w) \/ Fetch(w) \/ Install(w) \/ Plan(w) \/ Rule(w)
             \/ RulesDone(w) \/ Pick(w) \/ Reindex(w) \/ MoveDone(w) \/ Save(w) \/ Forget(w)
             \/ PurgeDone(w) \/ Flag(w) \/ Note(w) \/ Dropped(w) \/ Strike(w)
             \/ Refresh(w) \/ SaveDraft(w) \/ DropDraft(w)
             \/ \E K \in SUBSET InTrash(w) : Purge(w, K)
             \/ \E K \in SUBSET DOMAIN Index(w) : \E f \in Folder \ {Drafts} : Move(w, K, f)
      PROVE  bucket' = bucket
  BY <1>8 DEF List, Compare, Fetch, Install, Plan, Rule, RulesDone, Pick, Reindex, MoveDone,
     Save, Forget, PurgeDone, Flag, Note, Dropped, Strike, Refresh, SaveDraft, DropDraft,
     Purge, Move, Begin, shared
<1>9. ASSUME NEW m \in Machine, Crash(m) PROVE bucket' = bucket
  BY <1>9 DEF Crash, shared
<1>10. ASSUME bucket' = bucket PROVE MarksFollow(k)'
  BY <1>2, <1>10
<1>. QED  BY <1>4, <1>5, <1>6, <1>7, <1>8, <1>9, <1>10 DEF Next, Step

LEMMA InitMarking == ASSUME Init PROVE Marking
<1>1. /\ \A w \in Worker : pc[w] = "idle"
      /\ \A m \in Machine : pend[m] = <<>>
      /\ \A k \in DOMAIN bucket : k = Home(Old)
      /\ arrived = {Old}
  BY DEF Init
<1>2. Mid(Home(Old)) = <<Old>>
  BY MailboxAssumption DEF Mid, Home, KeyFor, BaseName
<1>3. Marked(doc, <<Old>>)
  BY DEF Init, Marked, StateOf
<1>4. MarksFollow(Home(Old))
  BY <1>2, <1>3 DEF MarksFollow
<1>5. OpsKeep(doc, bare, <<>>)
  BY DEF OpsKeep
<1>. QED  BY <1>1, <1>4, <1>5 DEF Marking, NamedOn

LEMMA MarkingNext == ASSUME Shape, DraftsOnly, Marking, Next, Shape' PROVE Marking'
<1>1. bare' \subseteq Name
  BY DEF Shape, TallyOK
<1>2. Old \in arrived'
  <2>1. arrived \subseteq arrived'
    BY Grows
  <2>. QED  BY <2>1 DEF Marking
<1>3. NamedOn'
  BY NamedOnNext DEF Marking
<1>4. \A m \in Machine : OpsKeep(doc', bare', pend'[m])
  BY <1>1, FollowNext
<1>5. \A k \in DOMAIN bucket' : bucket'[k] = Old => MarksFollow(k)'
  <2>. SUFFICES ASSUME NEW k \in DOMAIN bucket', bucket'[k] = Old PROVE MarksFollow(k)'
    OBVIOUS
  <2>. QED  BY <1>1, CopiesFollow
<1>. QED  BY <1>2, <1>3, <1>4, <1>5 DEF Marking

\* What the reader knows of a message goes with it: whatever moves, rules, drafts,
\* crashes and machines do, every copy has the marks under the name it has by then,
\* once all batches are written - unless a drop struck the name or the one it comes
\* from, a move or a machine stopped halfway, or a machine named on what it had not
\* been told of (mail.go: Move writes the op "rekey" after the delete, and it waits
\* for the end of the batch).
THEOREM MarksAreKept == Spec => []MarksKept
<1>. DEFINE Inv == Shape /\ BatchOpen /\ DraftsOnly /\ Marking
<1>1. Init => Inv
  BY InitShape, InitInTurn, InitMarking
<1>2. Inv /\ [Next]_vars => Inv'
  <2>. SUFFICES ASSUME Inv, [Next]_vars PROVE Inv'
    OBVIOUS
  <2>1. Shape'
    BY ShapeNext
  <2>2. CASE Next
    BY <2>1, <2>2, BatchNext, DraftsNext, MarkingNext
  <2>3. CASE UNCHANGED vars
    <3>1. /\ bucket' = bucket /\ doc' = doc /\ pend' = pend /\ host' = host
          /\ pc' = pc /\ mem' = mem /\ arrived' = arrived /\ bare' = bare
      BY <2>3 DEF vars, shared, local, history
    <3>2. BatchOpen' /\ DraftsOnly'
      BY <3>1 DEF BatchOpen, DraftsOnly
    <3>3. NamedOn'
      BY <3>1 DEF Marking, NamedOn
    <3>4. \A m \in Machine : OpsKeep(doc', bare', pend'[m])
      BY <3>1 DEF Marking
    <3>5. \A k \in DOMAIN bucket : bucket[k] = Old => MarksFollow(k)'
      <4>. SUFFICES ASSUME NEW k \in DOMAIN bucket, bucket[k] = Old PROVE MarksFollow(k)'
        OBVIOUS
      <4>1. MarksFollow(k)
        BY DEF Marking
      <4>2. PICK x : x = Mid(k)
        OBVIOUS
      <4>3. Awaited(x)' <=> Awaited(x)
        BY <3>1 DEF Awaited
      <4>. QED  BY <3>1, <4>1, <4>2, <4>3 DEF MarksFollow
    <3>6. Marking'
      BY <3>1, <3>3, <3>4, <3>5 DEF Marking
    <3>. QED  BY <2>1, <3>2, <3>6
  <2>. QED  BY <2>2, <2>3
<1>3. Inv => MarksKept
  <2>. SUFFICES ASSUME Inv, \A w \in Worker : pc[w] \notin BatchStep,
                       NEW k \in DOMAIN bucket, bucket[k] = Old
                PROVE  StateOf(doc, Mid(k)).marks \/ \E mid \in bare : IsPrefix(mid, Mid(k))
    BY DEF MarksKept
  <2>1. MarksFollow(k)
    BY DEF Marking
  <2>2. \A m \in Machine : pend[m] = <<>>
    BY DEF BatchOpen
  <2>3. \A m \in Machine : ~Told(pend[m], Mid(k))
    BY <2>2 DEF Told
  <2>4. ~Awaited(Mid(k))
    BY DEF Awaited, BatchStep
  <2>. QED  BY <2>1, <2>3, <2>4 DEF MarksFollow, Excused, Marked
<1>. QED  BY <1>1, <1>2, <1>3, PTL DEF Spec

=============================================================================
