------------------------ MODULE IntrospectionProofs ------------------------
(***************************************************************************)
(* What the pages of a storage promise, proved for every set of contents,  *)
(* every order of insertions and deletions and every path a request takes. *)
(*                                                                         *)
(* The storage is one that insertions and deletions lead to (StorageInv).  *)
(* The page of a request fits its path (RequestInv): a page of a document  *)
(* has the number of a document that the path names by its number or by    *)
(* its id, and a page that still takes names of an id has those of the     *)
(* path.  A document may be deleted and replaced while the request goes    *)
(* on; then its number is the number of no document any more, because      *)
(* numbers are never given out again (DocsAfter).                          *)
(*                                                                         *)
(* Sorted sets are sequences here: the i-th element of a finite set in an  *)
(* order is the one with i - 1 elements before it (Sorted).  The functions *)
(* the model defines step by step, the walk through a directory, the       *)
(* values collected, the pages of a path, exist by induction               *)
(* (WalksFollow, OpensFollow and others).                                  *)
(***************************************************************************)
EXTENDS IntrospectionCalls, SequenceTheorems, FiniteSetTheorems, WellFoundedInduction, TLAPS

-----------------------------------------------------------------------------
(* Induction, and sets in an order                                         *)

LEMMA Least ==
    ASSUME NEW S \in SUBSET Nat, S # {}
    PROVE  \E n \in S : \A m \in S : n <= m
<1> DEFINE R == {ss \in Nat \X Nat : ss[1] < ss[2]}
<1>1. IsWellFoundedOn(R, Nat)
  BY NatLessThanWellFounded, Zenon DEF OpToRel
<1>2. \A m, n \in Nat : <<m, n>> \in R <=> m < n
  OBVIOUS
<1> HIDE DEF R
<1>3. PICK n \in S : \A m \in S : ~ (<<m, n>> \in R)
  BY <1>1, WFMin
<1>4. \A m \in S : ~(m < n)
  BY <1>2, <1>3
<1> QED
  BY <1>4

LEMMA Induction ==
    ASSUME NEW S, 0 \in S, \A n \in Nat : n \in S => n + 1 \in S
    PROVE  Nat \subseteq S
<1> SUFFICES ASSUME Nat \ S # {}
             PROVE  FALSE
  OBVIOUS
<1>1. PICK n \in Nat \ S : \A m \in Nat \ S : n <= m
  BY Least
<1>2. n - 1 \in Nat /\ n - 1 \in S
  BY <1>1
<1> QED
  BY <1>1, <1>2

\* before orders all of S, each two elements one way.
IsOrder(S, before) ==
    /\ \A x \in S : <<x, x>> \notin before
    /\ \A x, y, z \in S : <<x, y>> \in before /\ <<y, z>> \in before => <<x, z>> \in before
    /\ \A x, y \in S : x = y \/ <<x, y>> \in before \/ <<y, x>> \in before

Rank(S, before, x) == Cardinality({y \in S : <<y, x>> \in before})

LEMMA RankRange ==
    ASSUME NEW S, IsFiniteSet(S), NEW before, IsOrder(S, before), NEW x \in S
    PROVE  Rank(S, before, x) \in 0 .. Cardinality(S) - 1
<1> DEFINE B == {y \in S : <<y, x>> \in before}
<1>1. B \in SUBSET S /\ B # S
  BY DEF IsOrder
<1>2. IsFiniteSet(B) /\ Cardinality(B) <= Cardinality(S) /\ Cardinality(B) # Cardinality(S)
  BY <1>1, FS_Subset
<1>3. Cardinality(B) \in Nat /\ Cardinality(S) \in Nat
  BY <1>2, FS_CardinalityType
<1> QED
  BY <1>2, <1>3 DEF Rank

LEMMA RankOrder ==
    ASSUME NEW S, IsFiniteSet(S), NEW before, IsOrder(S, before), NEW x \in S, NEW z \in S,
           <<x, z>> \in before
    PROVE  Rank(S, before, x) < Rank(S, before, z)
<1> DEFINE B == {y \in S : <<y, x>> \in before}
           C == {y \in S : <<y, z>> \in before}
<1>1. B \in SUBSET C /\ x \in C /\ x \notin B
  BY DEF IsOrder
<1>2. IsFiniteSet(C)
  BY FS_Subset, C \in SUBSET S
<1>3. IsFiniteSet(B) /\ Cardinality(B) <= Cardinality(C) /\ Cardinality(B) # Cardinality(C)
  BY <1>1, <1>2, FS_Subset
<1>4. Cardinality(B) \in Nat /\ Cardinality(C) \in Nat
  BY <1>2, <1>3, FS_CardinalityType
<1> QED
  BY <1>3, <1>4 DEF Rank

LEMMA RankInjective ==
    ASSUME NEW S, IsFiniteSet(S), NEW before, IsOrder(S, before), NEW x \in S, NEW y \in S,
           Rank(S, before, x) = Rank(S, before, y)
    PROVE  x = y
<1>1. Rank(S, before, x) \in Int /\ Rank(S, before, y) \in Int /\ Cardinality(S) \in Nat
  BY RankRange, FS_CardinalityType
<1>2. ~(<<x, y>> \in before) /\ ~(<<y, x>> \in before)
  BY <1>1, RankOrder
<1> QED
  BY <1>2 DEF IsOrder

\* Every rank below the number of elements is that of an element.
LEMMA RankTaken ==
    ASSUME NEW S, IsFiniteSet(S), NEW before, IsOrder(S, before),
           NEW n \in 0 .. Cardinality(S) - 1
    PROVE  \E x \in S : Rank(S, before, x) = n
<1>1. Cardinality(S) \in Nat
  BY FS_CardinalityType
<1> DEFINE T == 0 .. Cardinality(S) - 1
           f == [x \in S |-> Rank(S, before, x)]
<1>2. f \in Injection(S, T)
  BY RankRange, RankInjective DEF Injection, IsInjective
<1>3. IsFiniteSet(T) /\ Cardinality(T) = Cardinality(S)
  BY <1>1, FS_Interval
<1>4. f \in Surjection(S, T)
  BY <1>2, <1>3, FS_Injection
<1>5. \E x \in S : f[x] = n
  BY <1>4 DEF Surjection
<1> QED
  BY <1>5

\* The elements in their order: each once, and the smaller first.
LEMMA Sorted ==
    ASSUME NEW S, IsFiniteSet(S), NEW before, IsOrder(S, before)
    PROVE  LET list == SortedBy(S, before) IN
           /\ list \in Seq(S) /\ Len(list) = Cardinality(S) /\ Cardinality(S) \in Nat
           /\ DOMAIN list = 1 .. Len(list)
           /\ \A i \in 1 .. Len(list) : list[i] \in S /\ Rank(S, before, list[i]) = i - 1
           /\ \A x \in S : \E i \in 1 .. Len(list) : list[i] = x
           /\ \A i, j \in 1 .. Len(list) : list[i] = list[j] => i = j
<1> DEFINE list == SortedBy(S, before)
           n == Cardinality(S)
<1>1. n \in Nat
  BY FS_CardinalityType
<1>2. \A i \in 1 .. n : list[i] \in S /\ Rank(S, before, list[i]) = i - 1
  <2> TAKE i \in 1 .. n
  <2>1. \E x \in S : Rank(S, before, x) = i - 1
    BY <1>1, RankTaken
  <2>2. list[i] = CHOOSE x \in S : Rank(S, before, x) = i - 1
    BY DEF SortedBy, Rank
  <2> QED
    BY <2>1, <2>2
<1> DEFINE at(i) == CHOOSE x \in S : Cardinality({y \in S : <<y, x>> \in before}) = i - 1
<1>3. list = [i \in 1 .. n |-> at(i)]
  BY DEF SortedBy
<1> HIDE DEF list, at
<1>4. list \in [1 .. n -> S]
  BY <1>2, <1>3
<1>5. list \in Seq(S) /\ Len(list) = n /\ DOMAIN list = 1 .. n
  BY <1>1, <1>4
<1>6. \A x \in S : \E i \in 1 .. n : list[i] = x
  <2> TAKE x \in S
  <2>1. Rank(S, before, x) \in 0 .. n - 1
    BY RankRange
  <2>2. PICK i \in 1 .. n : i - 1 = Rank(S, before, x)
    BY <1>1, <2>1
  <2> QED
    BY <1>2, <2>2, RankInjective
<1>7. \A i, j \in 1 .. n : list[i] = list[j] => i = j
  BY <1>1, <1>2
<1> QED
  BY <1>1, <1>2, <1>5, <1>6, <1>7 DEF list

\* U with its order B has two parts, all of S before all of T.
InParts(U, B, S, BS, T, BT) ==
    /\ IsFiniteSet(U) /\ IsOrder(U, B) /\ U = S \cup T
    /\ \A x, y \in S : <<x, y>> \in BS <=> <<x, y>> \in B
    /\ \A x, y \in T : <<x, y>> \in BT <=> <<x, y>> \in B
    /\ \A x \in S, y \in T : <<x, y>> \in B

LEMMA SortedInParts ==
    ASSUME NEW U, NEW B, NEW S, NEW BS, NEW T, NEW BT, InParts(U, B, S, BS, T, BT)
    PROVE  SortedBy(S, BS) \o SortedBy(T, BT) = SortedBy(U, B)
<1>0. /\ IsFiniteSet(U) /\ IsOrder(U, B) /\ U = S \cup T
      /\ \A x, y \in S : <<x, y>> \in BS <=> <<x, y>> \in B
      /\ \A x, y \in T : <<x, y>> \in BT <=> <<x, y>> \in B
      /\ \A x \in S, y \in T : <<x, y>> \in B
  BY DEF InParts
<1>1. S \in SUBSET U /\ T \in SUBSET U /\ S \cap T = {}
  BY <1>0 DEF IsOrder
<1>2. IsFiniteSet(S) /\ IsFiniteSet(T)
  BY <1>0, <1>1, FS_Subset
<1>3. IsOrder(S, BS) /\ IsOrder(T, BT)
  BY <1>0, <1>1 DEF IsOrder
<1>4. /\ Cardinality(S) \in Nat /\ Cardinality(T) \in Nat /\ Cardinality(U) \in Nat
      /\ Cardinality(U) = Cardinality(S) + Cardinality(T)
  <2>1. Cardinality(S \cap T) = 0
    BY <1>1, FS_EmptySet
  <2>2. Cardinality(S) \in Nat /\ Cardinality(T) \in Nat
    BY <1>2, FS_CardinalityType
  <2>3. Cardinality(S \cup T) = Cardinality(S) + Cardinality(T) - Cardinality(S \cap T)
    BY <1>2, FS_Union
  <2> QED
    BY <1>0, <2>1, <2>2, <2>3
<1>5. \A x \in S : Rank(S, BS, x) = Rank(U, B, x)
  <2> TAKE x \in S
  <2>1. {y \in S : <<y, x>> \in BS} = {y \in U : <<y, x>> \in B}
    BY <1>0, <1>1 DEF IsOrder
  <2> QED
    BY <2>1 DEF Rank
<1>6. \A x \in T : Rank(U, B, x) = Cardinality(S) + Rank(T, BT, x)
  <2> TAKE x \in T
  <2> DEFINE C == {y \in T : <<y, x>> \in BT}
  <2>1. {y \in U : <<y, x>> \in B} = S \cup C
    BY <1>0, <1>1
  <2>2. IsFiniteSet(C) /\ S \cap C = {}
    BY <1>1, <1>2, FS_Subset, C \in SUBSET T
  <2>3. Cardinality(S \cup C) = Cardinality(S) + Cardinality(C) - Cardinality(S \cap C)
    BY <1>2, <2>2, FS_Union
  <2>4. Cardinality(S \cap C) = 0 /\ Cardinality(C) \in Nat
    BY <2>2, FS_EmptySet, FS_CardinalityType
  <2>5. Rank(T, BT, x) = Cardinality(C) /\ Rank(U, B, x) = Cardinality(S \cup C)
    BY <2>1 DEF Rank
  <2> HIDE DEF C
  <2> QED
    BY <1>4, <2>3, <2>4, <2>5
<1> DEFINE s == SortedBy(S, BS)
           t == SortedBy(T, BT)
           u == SortedBy(U, B)
<1>7. /\ s \in Seq(U) /\ Len(s) = Cardinality(S)
      /\ \A i \in 1 .. Len(s) : s[i] \in S /\ Rank(S, BS, s[i]) = i - 1
  BY <1>1, <1>2, <1>3, Sorted, SeqMonotonic
<1>8. /\ t \in Seq(U) /\ Len(t) = Cardinality(T)
      /\ \A i \in 1 .. Len(t) : t[i] \in T /\ Rank(T, BT, t[i]) = i - 1
  BY <1>1, <1>2, <1>3, Sorted, SeqMonotonic
<1>9. /\ u \in Seq(U) /\ Len(u) = Cardinality(U)
      /\ \A i \in 1 .. Len(u) : u[i] \in U /\ Rank(U, B, u[i]) = i - 1
  <2>1. IsFiniteSet(U) /\ IsOrder(U, B)
    BY <1>0
  <2> QED
    BY ONLY <2>1, Sorted, SMTT(20)
<1> HIDE DEF s, t, u
<1>10. /\ s \o t \in Seq(U) /\ Len(s \o t) = Len(s) + Len(t)
       /\ \A i \in 1 .. Len(s) + Len(t) : (s \o t)[i] = IF i <= Len(s) THEN s[i] ELSE t[i - Len(s)]
  BY <1>7, <1>8, ConcatProperties
<1>11. ASSUME NEW i \in 1 .. Len(s \o t)
       PROVE  (s \o t)[i] = u[i]
  <2>1. i \in 1 .. Len(u) /\ u[i] \in U /\ Rank(U, B, u[i]) = i - 1
    BY <1>4, <1>7, <1>8, <1>9, <1>10
  <2>2. (s \o t)[i] \in U /\ Rank(U, B, (s \o t)[i]) = i - 1
    <3>1. CASE i <= Len(s)
      <4>1. i \in 1 .. Len(s) /\ (s \o t)[i] = s[i]
        BY <1>4, <1>7, <1>8, <1>10, <3>1
      <4>2. s[i] \in S /\ Rank(S, BS, s[i]) = i - 1
        BY <1>7, <4>1
      <4> QED
        BY <1>1, <1>5, <4>1, <4>2
    <3>2. CASE ~(i <= Len(s))
      <4>1. i - Len(s) \in 1 .. Len(t) /\ (s \o t)[i] = t[i - Len(s)]
        BY <1>4, <1>7, <1>8, <1>10, <3>2
      <4>2. t[i - Len(s)] \in T /\ Rank(T, BT, t[i - Len(s)]) = (i - Len(s)) - 1
        BY <1>8, <4>1
      <4> QED
        <5>1. Rank(U, B, t[i - Len(s)]) = Cardinality(S) + ((i - Len(s)) - 1)
          BY <1>6, <4>2
        <5>2. Cardinality(S) + ((i - Len(s)) - 1) = i - 1
          BY <1>4, <1>7
        <5> QED
          BY <1>1, <4>1, <4>2, <5>1, <5>2
    <3> QED
      BY <3>1, <3>2
  <2> QED
    BY <1>0, <2>1, <2>2, RankInjective
<1>12. s \o t = u
  BY <1>4, <1>7, <1>8, <1>9, <1>10, <1>11, SeqEqual
<1> QED
  BY <1>12 DEF s, t, u

-----------------------------------------------------------------------------
(* The orders                                                              *)

LEMMA NumbersInOrder ==
    ASSUME NEW S \in SUBSET Nat
    PROVE  IsOrder(S, {p \in S \X S : p[1] < p[2]})
<1>1. \A x, y \in S : <<x, y>> \in {p \in S \X S : p[1] < p[2]} <=> x < y
  OBVIOUS
<1> QED
  BY <1>1 DEF IsOrder

LEMMA TermsInOrder ==
    ASSUME NEW S, \A t \in S : t.pos \in Nat, \A t, u \in S : t.pos = u.pos => t = u
    PROVE  IsOrder(S, {p \in S \X S : p[1].pos < p[2].pos})
<1>1. \A x, y \in S : <<x, y>> \in {p \in S \X S : p[1].pos < p[2].pos} <=> x.pos < y.pos
  OBVIOUS
<1> QED
  BY <1>1 DEF IsOrder

\* The place of the i-th byte of a text among the characters.
PlaceAt(text, i) == Place(CharAt(text, i))

LEMMA PlaceProperties ==
    ASSUME NEW a, IsText(a), NEW b, IsText(b)
    PROVE  /\ a \in Seq(Bytes) /\ Len(a) \in Nat
           /\ \A i \in 1 .. Len(a) : PlaceAt(a, i) \in Nat
           /\ \A i \in 1 .. Len(a), j \in 1 .. Len(b) : PlaceAt(a, i) = PlaceAt(b, j) <=> a[i] = b[j]
<1> USE DEF PlaceAt
<1>1. /\ a \in Seq(Bytes) /\ Len(a) \in Nat /\ b \in Seq(Bytes) /\ Len(b) \in Nat
  BY DEF IsText
<1>2. ASSUME NEW t, IsText(t), NEW i \in 1 .. Len(t)
      PROVE  /\ Place(CharAt(t, i)) \in 1 .. Len(Characters)
             /\ CharAt(Characters, Place(CharAt(t, i))) = CharAt(t, i)
             /\ CharAt(t, i) = <<t[i]>>
  <2>1. \E j \in 1 .. Len(Characters) : CharAt(Characters, j) = CharAt(t, i)
    BY <1>2 DEF IsText
  <2>2. t \in Seq(Bytes) /\ Len(t) \in Nat
    BY <1>2 DEF IsText
  <2>3. CharAt(t, i) = <<t[i]>>
    <3>1. /\ SubSeq(t, i, i) \in Seq(Bytes) /\ Len(SubSeq(t, i, i)) = 1
          /\ SubSeq(t, i, i)[1] = t[i]
      BY <2>2, SubSeqProperties
    <3> QED
      <4>1. <<t[i]>> \in Seq(Bytes) /\ Len(<<t[i]>>) = 1 /\ <<t[i]>>[1] = t[i]
        BY <1>2, <2>2
      <4>2. SubSeq(t, i, i) = <<t[i]>>
        <5>1. \A k \in 1 .. Len(SubSeq(t, i, i)) : SubSeq(t, i, i)[k] = <<t[i]>>[k]
          BY <3>1, <4>1
        <5> QED
          BY <3>1, <4>1, <5>1, SeqEqual
      <4> QED
        BY <4>2 DEF CharAt
  <2> QED
    BY <2>1, <2>3 DEF Place
<1>3. \A i \in 1 .. Len(a) : Place(CharAt(a, i)) \in Nat
  BY <1>2
<1>4. ASSUME NEW i \in 1 .. Len(a), NEW j \in 1 .. Len(b)
      PROVE  Place(CharAt(a, i)) = Place(CharAt(b, j)) <=> a[i] = b[j]
  <2>1. CharAt(a, i) = <<a[i]>> /\ CharAt(b, j) = <<b[j]>>
    BY <1>2
  <2>2. Place(CharAt(a, i)) = Place(CharAt(b, j)) => CharAt(a, i) = CharAt(b, j)
    BY <1>2
  <2> QED
    BY <2>1, <2>2
<1> QED
  BY <1>1, <1>3, <1>4

LEMMA StartsWithMeans ==
    ASSUME NEW t \in Seq(Bytes), NEW p \in Seq(Bytes)
    PROVE  StartsWith(t, p) <=> Len(p) <= Len(t) /\ \A j \in 1 .. Len(p) : t[j] = p[j]
<1>1. Len(t) \in Nat /\ Len(p) \in Nat
  OBVIOUS
<1>2. ASSUME Len(p) <= Len(t)
      PROVE  SubSeq(t, 1, Len(p)) = p <=> \A j \in 1 .. Len(p) : t[j] = p[j]
  <2>1. \A i \in 1 .. Len(p) : t[i] \in Bytes
    BY <1>1, <1>2, ElementOfSeq
  <2>2. /\ SubSeq(t, 1, Len(p)) \in Seq(Bytes)
        /\ Len(SubSeq(t, 1, Len(p))) = Len(p)
        /\ \A i \in 1 .. Len(p) : SubSeq(t, 1, Len(p))[i] = t[i]
    BY <1>1, <2>1, SubSeqProperties
  <2> HIDE <2>1
  <2>3. (\A j \in 1 .. Len(p) : t[j] = p[j]) => SubSeq(t, 1, Len(p)) = p
    <3> SUFFICES ASSUME \A j \in 1 .. Len(p) : t[j] = p[j]
                 PROVE  SubSeq(t, 1, Len(p)) = p
      OBVIOUS
    <3>1. \A i \in 1 .. Len(SubSeq(t, 1, Len(p))) : SubSeq(t, 1, Len(p))[i] = p[i]
      BY <2>2
    <3> QED
      BY <2>2, <3>1, SeqEqual
  <2> QED
    BY <2>2, <2>3
<1> QED
  BY <1>1, <1>2 DEF StartsWith

\* The first n bytes of two texts are the same.
Agree(a, b, n) == \A j \in 1 .. n : a[j] = b[j]
DifferAt(a, b, i) ==
    /\ i \in 1 .. Len(b) /\ i - 1 <= Len(a) /\ Agree(a, b, i - 1)
    /\ Len(a) < i \/ PlaceAt(a, i) < PlaceAt(b, i)

LEMMA PrecedesMeans ==
    ASSUME NEW a, IsText(a), NEW b, IsText(b)
    PROVE  Precedes(a, b) <=> \E i : DifferAt(a, b, i)
<1>1. a \in Seq(Bytes) /\ b \in Seq(Bytes) /\ Len(a) \in Nat /\ Len(b) \in Nat
  BY DEF IsText
<1>2. ASSUME NEW i \in 1 .. Len(b)
      PROVE  StartsWith(a, SubSeq(b, 1, i - 1)) <=> i - 1 <= Len(a) /\ Agree(a, b, i - 1)
  <2>1. \A j \in 1 .. i - 1 : b[j] \in Bytes
    BY <1>1, ElementOfSeq
  <2>2. /\ SubSeq(b, 1, i - 1) \in Seq(Bytes)
        /\ Len(SubSeq(b, 1, i - 1)) = i - 1
        /\ \A j \in 1 .. i - 1 : SubSeq(b, 1, i - 1)[j] = b[j]
    BY <1>1, <2>1, SubSeqProperties
  <2> QED
    BY <1>1, <2>2, StartsWithMeans DEF Agree
<1>3. Precedes(a, b) <=> \E i \in 1 .. Len(b) : /\ i - 1 <= Len(a) /\ Agree(a, b, i - 1)
                                                /\ Len(a) < i \/ PlaceAt(a, i) < PlaceAt(b, i)
  BY <1>2 DEF Precedes, PlaceAt
<1> QED
  BY <1>3 DEF DifferAt

LEMMA PrecedesOrders ==
    ASSUME NEW a, IsText(a), NEW b, IsText(b), NEW c, IsText(c)
    PROVE  /\ ~Precedes(a, a)
           /\ Precedes(a, b) /\ Precedes(b, c) => Precedes(a, c)
           /\ a = b \/ Precedes(a, b) \/ Precedes(b, a)
<1> USE PlaceProperties
<1>1. /\ a \in Seq(Bytes) /\ b \in Seq(Bytes) /\ c \in Seq(Bytes)
      /\ Len(a) \in Nat /\ Len(b) \in Nat /\ Len(c) \in Nat
  BY DEF IsText
<1>2. /\ \A i \in 1 .. Len(a) : PlaceAt(a, i) \in Nat
      /\ \A i \in 1 .. Len(b) : PlaceAt(b, i) \in Nat
      /\ \A i \in 1 .. Len(c) : PlaceAt(c, i) \in Nat
      /\ \A i \in 1 .. Len(a), j \in 1 .. Len(b) : PlaceAt(a, i) = PlaceAt(b, j) <=> a[i] = b[j]
      /\ \A i \in 1 .. Len(a), j \in 1 .. Len(c) : PlaceAt(a, i) = PlaceAt(c, j) <=> a[i] = c[j]
      /\ \A i \in 1 .. Len(b), j \in 1 .. Len(c) : PlaceAt(b, i) = PlaceAt(c, j) <=> b[i] = c[j]
  OBVIOUS
<1>3. ~Precedes(a, a)
  <2> SUFFICES ASSUME NEW i, DifferAt(a, a, i)
               PROVE  FALSE
    BY PrecedesMeans
  <2> QED
    BY <1>1, <1>2 DEF DifferAt
<1>4. ASSUME Precedes(a, b), Precedes(b, c)
      PROVE  Precedes(a, c)
  <2>1. PICK i : DifferAt(a, b, i)
    BY <1>4, PrecedesMeans
  <2>2. PICK j : DifferAt(b, c, j)
    BY <1>4, PrecedesMeans
  <2>3. i \in 1 .. Len(b) /\ j \in 1 .. Len(c)
    BY <2>1, <2>2 DEF DifferAt
  <2>4. CASE i < j
    <3>1. Agree(a, c, i - 1)
      BY <1>1, <2>1, <2>2, <2>3, <2>4 DEF DifferAt, Agree
    <3>2. b[i] = c[i] /\ i \in 1 .. Len(c)
      BY <1>1, <2>2, <2>3, <2>4 DEF DifferAt, Agree
    <3>3. PlaceAt(b, i) = PlaceAt(c, i)
      BY <1>2, <2>3, <3>2
    <3>4. DifferAt(a, c, i)
      BY <2>1, <3>1, <3>2, <3>3 DEF DifferAt
    <3> QED
      BY <3>4, PrecedesMeans
  <2>5. CASE i = j
    <3>1. Agree(a, c, i - 1)
      BY <1>1, <2>1, <2>2, <2>3, <2>5 DEF DifferAt, Agree
    <3>2. Len(a) < i \/ (i \in 1 .. Len(a) /\ PlaceAt(a, i) < PlaceAt(b, i))
      BY <1>1, <2>1, <2>3 DEF DifferAt
    <3>3. PlaceAt(b, i) < PlaceAt(c, i) /\ PlaceAt(b, i) \in Nat /\ PlaceAt(c, i) \in Nat
      BY <1>1, <1>2, <2>2, <2>3, <2>5 DEF DifferAt
    <3>4. Len(a) < i \/ PlaceAt(a, i) < PlaceAt(c, i)
      BY <1>2, <3>2, <3>3
    <3>5. DifferAt(a, c, i)
      BY <2>1, <2>3, <2>5, <3>1, <3>4 DEF DifferAt
    <3> QED
      BY <3>5, PrecedesMeans
  <2>6. CASE j < i
    <3>1. Agree(a, c, j - 1) /\ j - 1 <= Len(a)
      BY <1>1, <2>1, <2>2, <2>3, <2>6 DEF DifferAt, Agree
    <3>2. Len(a) < j \/ (j \in 1 .. Len(a) /\ a[j] = b[j])
      BY <1>1, <2>1, <2>3, <2>6 DEF DifferAt, Agree
    <3>3. ~(Len(b) < j) /\ j \in 1 .. Len(b) /\ PlaceAt(b, j) < PlaceAt(c, j)
      BY <1>1, <2>2, <2>3, <2>6 DEF DifferAt
    <3>4. Len(a) < j \/ PlaceAt(a, j) < PlaceAt(c, j)
      BY <1>2, <3>2, <3>3
    <3>5. DifferAt(a, c, j)
      BY <2>3, <3>1, <3>4 DEF DifferAt
    <3> QED
      BY <3>5, PrecedesMeans
  <2> QED
    BY <2>3, <2>4, <2>5, <2>6
<1>5. ASSUME a # b
      PROVE  Precedes(a, b) \/ Precedes(b, a)
  \* The places where one of them ends or they differ.
  <2> DEFINE D == {i \in Nat \ {0} : Len(a) < i \/ Len(b) < i \/ a[i] # b[i]}
  <2>1. \E i \in D : i <= Len(a) \/ i <= Len(b)
    <3> SUFFICES ASSUME \A i \in D : ~(i <= Len(a) \/ i <= Len(b))
                 PROVE  FALSE
      OBVIOUS
    <3>1. \A i \in Nat \ {0} : i <= Len(a) \/ i <= Len(b) => i <= Len(a) /\ i <= Len(b) /\ a[i] = b[i]
      BY <1>1
    <3>2. Len(a) = Len(b)
      <4>1. CASE Len(a) < Len(b)
        BY <1>1, <3>1, <4>1
      <4>2. CASE Len(b) < Len(a)
        BY <1>1, <3>1, <4>2
      <4> QED
        BY <1>1, <4>1, <4>2
    <3>3. \A i \in 1 .. Len(a) : a[i] = b[i]
      BY <1>1, <3>1
    <3> QED
      BY <1>1, <1>5, <3>2, <3>3, SeqEqual
  <2>2. PICK n \in D : \A m \in D : n <= m
    BY <2>1, Least, D \in SUBSET Nat, D # {}
  <2>3. \A j \in 1 .. n - 1 : j <= Len(a) /\ j <= Len(b) /\ a[j] = b[j]
    <3> TAKE j \in 1 .. n - 1
    <3>1. j \in Nat \ {0} /\ ~(n <= j)
      BY <2>2
    <3> QED
      BY <1>1, <2>2, <3>1
  <2>4. n \in Nat \ {0} /\ (n <= Len(a) \/ n <= Len(b))
    BY <1>1, <2>1, <2>2
  <2>5. n - 1 <= Len(a) /\ n - 1 <= Len(b)
    <3>1. CASE n = 1
      BY <1>1, <3>1
    <3>2. CASE n # 1
      BY <2>3, <2>4, <3>2
    <3> QED
      BY <3>1, <3>2
  <2>6. Agree(a, b, n - 1) /\ Agree(b, a, n - 1)
    BY <2>3 DEF Agree
  <2>7. CASE Len(a) < n
    <3>1. DifferAt(a, b, n)
      BY <1>1, <2>4, <2>5, <2>6, <2>7 DEF DifferAt
    <3> QED
      BY <3>1, PrecedesMeans
  <2>8. CASE Len(b) < n
    <3>1. DifferAt(b, a, n)
      BY <1>1, <2>4, <2>5, <2>6, <2>8 DEF DifferAt
    <3> QED
      BY <3>1, PrecedesMeans
  <2>9. CASE n \in 1 .. Len(a) /\ n \in 1 .. Len(b)
    <3>1. a[n] # b[n]
      BY <1>1, <2>2, <2>9
    <3>2. PlaceAt(a, n) < PlaceAt(b, n) \/ PlaceAt(b, n) < PlaceAt(a, n)
      BY <1>2, <2>9, <3>1
    <3>3. DifferAt(a, b, n) \/ DifferAt(b, a, n)
      BY <2>5, <2>6, <2>9, <3>2 DEF DifferAt
    <3> QED
      BY <3>3, PrecedesMeans
  <2> QED
    BY <1>1, <2>4, <2>7, <2>8, <2>9
<1> QED
  BY <1>3, <1>4, <1>5

LEMMA KeysInOrder ==
    ASSUME NEW S, \A t \in S : IsText(t)
    PROVE  IsOrder(S, KeyOrder(S))
<1>1. \A x, y \in S : <<x, y>> \in KeyOrder(S) <=> Precedes(x, y)
  BY DEF KeyOrder
<1> QED
  BY <1>1, PrecedesOrders DEF IsOrder

-----------------------------------------------------------------------------
(* The storage                                                             *)

\* The storage has documents that were inserted; the number of one is never that of another.
StorageInv ==
    /\ storage = [docs |-> storage.docs, last |-> storage.last, types |-> storage.types,
                  attributes |-> storage.attributes]
    /\ storage.last \in 0 .. MaxDocno
    /\ DOMAIN storage.docs \subseteq 1 .. storage.last
    /\ \A d \in DOMAIN storage.docs : storage.docs[d] \in Contents

LEMMA StorageInit ==
    ASSUME Init
    PROVE  StorageInv
<1>1. storage = [docs |-> << >>, last |-> 0, types |-> {}, attributes |-> {"docid"}]
  BY DEF Init
<1>2. DOMAIN << >> = {}
  OBVIOUS
<1> QED
  BY <1>1, <1>2, BoundAssumption DEF StorageInv

\* What a step may do to the storage.
Inserted(c) ==
    LET docno == storage.last + 1 IN
    /\ docno <= MaxDocno
    /\ storage' = [docs |-> [d \in Remaining(c.id) \cup {docno} |->
                                IF d = docno THEN c ELSE storage.docs[d]],
                   last |-> docno,
                   types |-> storage.types \cup {t.type : t \in c.search \cup c.forward},
                   attributes |-> storage.attributes \cup DOMAIN c.attribute]
Deleted(id) == storage' = [storage EXCEPT !.docs = [d \in Remaining(id) |-> storage.docs[d]]]

LEMMA StorageSteps ==
    ASSUME [Next]_vars
    PROVE  \/ UNCHANGED storage
           \/ UNCHANGED request /\ \E c \in Contents : Inserted(c)
           \/ UNCHANGED request /\ \E c \in Contents : Deleted(c.id)
<1>1. CASE UNCHANGED vars
  BY <1>1 DEF vars
<1>2. ASSUME NEW c \in Contents, InsertDoc(c)
      PROVE  UNCHANGED request /\ Inserted(c)
  BY <1>2 DEF InsertDoc, Inserted
<1>3. ASSUME NEW c \in Contents, DeleteDoc(c.id)
      PROVE  UNCHANGED request /\ Deleted(c.id)
  BY <1>3 DEF DeleteDoc, Deleted
<1>4. ASSUME NEW root, Ask(root)
      PROVE  UNCHANGED storage
  BY <1>4 DEF Ask
<1>5. ASSUME Open_
      PROVE  UNCHANGED storage
  <2>1. PICK name : Step(name)
    BY <1>5 DEF Open_
  <2> QED
    BY <2>1 DEF Step, End
<1>6. ASSUME Serialize
      PROVE  UNCHANGED storage
  BY <1>6 DEF Serialize, End
<1> QED
  BY <1>1, <1>2, <1>3, <1>4, <1>5, <1>6 DEF Next

\* The documents after a step were there before it, under the same numbers, or have a number
\* of their own.
LEMMA DocsAfter ==
    ASSUME StorageInv, [Next]_vars
    PROVE  /\ StorageInv' /\ storage.last <= storage'.last
           /\ \A d \in DOMAIN storage'.docs :
                 \/ d \in DOMAIN storage.docs /\ storage'.docs[d] = storage.docs[d]
                 \/ storage.last < d
<1>0. storage.last \in Nat
  BY BoundAssumption DEF StorageInv
<1>1. CASE UNCHANGED storage
  BY <1>0, <1>1 DEF StorageInv
<1>2. ASSUME NEW c \in Contents, Inserted(c)
      PROVE  /\ StorageInv' /\ storage.last <= storage'.last
             /\ \A d \in DOMAIN storage'.docs :
                   \/ d \in DOMAIN storage.docs /\ storage'.docs[d] = storage.docs[d]
                   \/ storage.last < d
  <2> DEFINE docno == storage.last + 1
  <2>1. /\ storage'.docs = [d \in Remaining(c.id) \cup {docno} |->
                              IF d = docno THEN c ELSE storage.docs[d]]
        /\ storage'.last = docno /\ docno <= MaxDocno
        /\ storage' = [docs |-> storage'.docs, last |-> storage'.last, types |-> storage'.types,
                       attributes |-> storage'.attributes]
    BY <1>2 DEF Inserted
  <2>2. Remaining(c.id) \subseteq DOMAIN storage.docs
    BY DEF Remaining
  <2>3. DOMAIN storage'.docs = Remaining(c.id) \cup {docno}
    BY <2>1
  <2>4. \A d \in DOMAIN storage'.docs : d # docno => storage'.docs[d] = storage.docs[d]
    BY <2>1, <2>3
  <2>5. storage'.docs[docno] = c
    BY <2>1
  <2>6. DOMAIN storage.docs \subseteq 1 .. storage.last
    BY DEF StorageInv
  <2>7. DOMAIN storage'.docs \subseteq 1 .. storage'.last
    BY <1>0, <2>1, <2>2, <2>3, <2>6
  <2>8. \A d \in DOMAIN storage'.docs : storage'.docs[d] \in Contents
    BY <2>2, <2>3, <2>4, <2>5 DEF StorageInv
  <2>9. StorageInv'
    <3>1. MaxDocno \in Nat
      BY BoundAssumption
    <3>2. storage'.last \in 0 .. MaxDocno
      BY <1>0, <2>1, <3>1
    <3> QED
      BY <2>1, <2>7, <2>8, <3>2 DEF StorageInv
  <2> QED
    BY <1>0, <2>1, <2>2, <2>3, <2>4, <2>9
<1>3. ASSUME NEW c \in Contents, Deleted(c.id)
      PROVE  /\ StorageInv' /\ storage.last <= storage'.last
             /\ \A d \in DOMAIN storage'.docs :
                   d \in DOMAIN storage.docs /\ storage'.docs[d] = storage.docs[d]
  <2>1. /\ storage'.docs = [d \in Remaining(c.id) |-> storage.docs[d]]
        /\ storage'.last = storage.last
        /\ storage' = [docs |-> storage'.docs, last |-> storage'.last, types |-> storage'.types,
                       attributes |-> storage'.attributes]
    BY <1>3 DEF Deleted, StorageInv
  <2>2. Remaining(c.id) \subseteq DOMAIN storage.docs
    BY DEF Remaining
  <2> QED
    BY <1>0, <2>1, <2>2 DEF StorageInv
<1> QED
  BY <1>1, <1>2, <1>3, StorageSteps

\* The inductive invariant of the storage.
THEOREM StorageInvariant == Spec => []StorageInv
<1>1. StorageInv /\ [Next]_vars => StorageInv'
  BY DocsAfter
<1> QED
  BY <1>1, StorageInit, PTL DEF Spec

LEMMA StorageDocuments ==
    ASSUME StorageInv, NEW d \in DOMAIN storage.docs
    PROVE  /\ Document(storage, d) = storage.docs[d] /\ storage.docs[d] \in Contents
           /\ d \in Nat \ {0} /\ IsText(storage.docs[d].id)
           /\ IsFiniteSet(storage.docs[d].search) /\ IsFiniteSet(storage.docs[d].forward)
<1>1. storage.docs[d] \in Contents /\ d \in 1 .. storage.last /\ storage.last \in Nat
  BY BoundAssumption DEF StorageInv
<1> QED
  BY <1>1, ContentAssumption DEF Document

-----------------------------------------------------------------------------
(* The windows of a forward index                                          *)

LEMMA WindowsOfADocument ==
    ASSUME NEW terms, IsFiniteSet(terms), \A t \in terms : t.pos \in Nat \ {0},
           \A t, u \in terms : t.pos = u.pos => t = u, NEW n \in Nat \ {0}
    PROVE  Dumped(terms, 1, n) \o Dumped(terms, n + 1, 0) = Dumped(terms, 0, 0)
<1> DEFINE S == {t \in terms : t.pos >= 1 /\ (n = 0 \/ t.pos < 1 + n)}
           T == {t \in terms : t.pos >= n + 1 /\ (0 = 0 \/ t.pos < (n + 1) + 0)}
           U == {t \in terms : t.pos >= 0 /\ (0 = 0 \/ t.pos < 0 + 0)}
           OS == {p \in S \X S : p[1].pos < p[2].pos}
           OT == {p \in T \X T : p[1].pos < p[2].pos}
           OU == {p \in U \X U : p[1].pos < p[2].pos}
<1>1. U = terms /\ U = S \cup T
  OBVIOUS
<1>2. /\ \A x, y \in S : <<x, y>> \in OS <=> x.pos < y.pos
      /\ \A x, y \in T : <<x, y>> \in OT <=> x.pos < y.pos
      /\ \A x, y \in U : <<x, y>> \in OU <=> x.pos < y.pos
  OBVIOUS
<1>3. \A x \in S, y \in T : x \in U /\ y \in U /\ x.pos < y.pos
  OBVIOUS
<1>4. IsOrder(U, OU)
  BY <1>1, TermsInOrder
<1> HIDE DEF S, T, U, OS, OT, OU
<1>5. /\ \A x, y \in S : <<x, y>> \in OS <=> <<x, y>> \in OU
      /\ \A x, y \in T : <<x, y>> \in OT <=> <<x, y>> \in OU
      /\ \A x \in S, y \in T : <<x, y>> \in OU
  BY <1>1, <1>2, <1>3
<1>6. SortedBy(S, OS) \o SortedBy(T, OT) = SortedBy(U, OU)
  <2>1. InParts(U, OU, S, OS, T, OT)
    BY <1>1, <1>4, <1>5 DEF InParts
  <2> QED
    BY <2>1, SortedInParts
<1> QED
  BY <1>6 DEF S, T, U, OS, OT, OU, Dumped, ByPosition

LEMMA WindowsOfTheStorage ==
    ASSUME StorageInv
    PROVE  WindowsFit
<1> SUFFICES ASSUME NEW d \in DOMAIN storage.docs, NEW type \in ForwardTypes
             PROVE  LET terms == ForwardTerms(storage, d, type)
                    IN  \A n \in {t.pos : t \in terms} :
                           Dumped(terms, 1, n) \o Dumped(terms, n + 1, 0) = Dumped(terms, 0, 0)
  BY DEF WindowsFit
<1> DEFINE terms == ForwardTerms(storage, d, type)
<1>1. PICK c \in Contents : c = storage.docs[d] /\ Document(storage, d) = c
  BY StorageDocuments
<1>2. terms = {t \in c.forward : t.type = type} /\ IsFiniteSet(c.forward)
  BY <1>1, ContentAssumption DEF ForwardTerms
<1>3. IsFiniteSet(terms)
  BY <1>2, FS_Subset, terms \in SUBSET c.forward
<1>4. \A t, u \in terms : t.pos \in Nat \ {0} /\ (t.pos = u.pos => t = u)
  BY <1>1, <1>2, ContentAssumption
<1> HIDE DEF terms
<1>5. \A n \in {t.pos : t \in terms} : n \in Nat \ {0}
  BY <1>4
<1> QED
  BY <1>3, <1>4, <1>5, WindowsOfADocument DEF terms

\* Whatever is inserted and deleted, the windows of a forward index fit together: a dump of
\* any length and the dump from its end on have every term of the text once, in order.
THEOREM WindowsAlwaysFit == Spec => []WindowsFit
BY StorageInvariant, WindowsOfTheStorage, PTL

-----------------------------------------------------------------------------
(* The values of a type                                                    *)

\* The lists after the first values.
Adds(f, list, values, n) ==
    f = [i \in 0 .. n |-> IF i = 0 THEN list
                          ELSE AddValue(f[i - 1], values[i])]

LEMMA AddsFollow ==
    ASSUME NEW list, NEW values, Len(values) \in Nat
    PROVE  \E f : Adds(f, list, values, Len(values)) /\ AddValues(list, values) = f[Len(values)]
<1> DEFINE S == {n \in Nat : \E f : Adds(f, list, values, n)}
<1>1. 0 \in S
  <2>1. PICK f : f = [i \in 0 .. 0 |-> list]
    OBVIOUS
  <2>2. Adds(f, list, values, 0)
    BY <2>1 DEF Adds
  <2> QED
    BY <2>2
<1>2. ASSUME NEW n \in Nat, n \in S
      PROVE  n + 1 \in S
  <2>1. PICK f : Adds(f, list, values, n)
    BY <1>2
  <2>2. PICK v : v = AddValue(f[n], values[n + 1])
    OBVIOUS
  <2>3. PICK g : g = [i \in 0 .. n + 1 |-> IF i = n + 1 THEN v ELSE f[i]]
    OBVIOUS
  <2>4. \A i \in 0 .. n + 1 :
          g[i] = IF i = 0 THEN list ELSE AddValue(g[i - 1], values[i])
    <3> TAKE i \in 0 .. n + 1
    <3>1. CASE i = n + 1
      <4>1. g[i] = v /\ g[i - 1] = f[n] /\ i # 0
        BY <2>3, <3>1
      <4> QED
        BY <2>2, <3>1, <4>1
    <3>2. CASE i = 0
      BY <2>1, <2>3, <3>2 DEF Adds
    <3>3. CASE i \in 1 .. n
      <4>1. g[i] = f[i] /\ g[i - 1] = f[i - 1] /\ i # 0 /\ i \in 0 .. n
        BY <2>3, <3>3
      <4>2. f[i] = AddValue(f[i - 1], values[i])
        BY <2>1, <4>1 DEF Adds
      <4> QED
        BY <4>1, <4>2
    <3> QED
      BY <3>1, <3>2, <3>3
  <2>5. Adds(g, list, values, n + 1)
    BY <2>3, <2>4 DEF Adds
  <2> QED
    BY <2>5
<1> HIDE DEF S
<1>3. Len(values) \in S
  BY <1>1, <1>2, Induction
<1>4. \E f : Adds(f, list, values, Len(values))
  BY <1>3 DEF S
<1> DEFINE after == CHOOSE f : Adds(f, list, values, Len(values))
<1>5. Adds(after, list, values, Len(values))
  BY <1>4
<1>6. AddValues(list, values) = after[Len(values)]
  BY Zenon DEF AddValues, Adds
<1> QED
  BY <1>5, <1>6

\* The lists after the first documents.
Lists(f, st, type, docs, n) ==
    f = [i \in 0 .. n |-> IF i = 0 THEN << >>
                          ELSE AddValues(f[i - 1], ValuesIn(st, docs[i], type))]

LEMMA ListsFollow ==
    ASSUME NEW st, NEW type, NEW docs, docs = Ascending(DOMAIN st.docs), Len(docs) \in Nat
    PROVE  \E f : Lists(f, st, type, docs, Len(docs)) /\ ListTermValues(st, type) = f[Len(docs)]
<1> DEFINE S == {n \in Nat : \E f : Lists(f, st, type, docs, n)}
<1>1. 0 \in S
  <2>1. PICK f : f = [i \in 0 .. 0 |-> << >>]
    OBVIOUS
  <2>2. Lists(f, st, type, docs, 0)
    BY <2>1 DEF Lists
  <2> QED
    BY <2>2
<1>2. ASSUME NEW n \in Nat, n \in S
      PROVE  n + 1 \in S
  <2>1. PICK f : Lists(f, st, type, docs, n)
    BY <1>2
  <2>2. PICK v : v = AddValues(f[n], ValuesIn(st, docs[n + 1], type))
    OBVIOUS
  <2>3. PICK g : g = [i \in 0 .. n + 1 |-> IF i = n + 1 THEN v ELSE f[i]]
    OBVIOUS
  <2>4. \A i \in 0 .. n + 1 :
          g[i] = IF i = 0 THEN << >> ELSE AddValues(g[i - 1], ValuesIn(st, docs[i], type))
    <3> TAKE i \in 0 .. n + 1
    <3>1. CASE i = n + 1
      <4>1. g[i] = v /\ g[i - 1] = f[n] /\ i # 0
        BY <2>3, <3>1
      <4> QED
        BY <2>2, <3>1, <4>1
    <3>2. CASE i = 0
      BY <2>1, <2>3, <3>2 DEF Lists
    <3>3. CASE i \in 1 .. n
      <4>1. g[i] = f[i] /\ g[i - 1] = f[i - 1] /\ i # 0 /\ i \in 0 .. n
        BY <2>3, <3>3
      <4>2. f[i] = AddValues(f[i - 1], ValuesIn(st, docs[i], type))
        BY <2>1, <4>1 DEF Lists
      <4> QED
        BY <4>1, <4>2
    <3> QED
      BY <3>1, <3>2, <3>3
  <2>5. Lists(g, st, type, docs, n + 1)
    BY <2>3, <2>4 DEF Lists
  <2> QED
    BY <2>5
<1> HIDE DEF S
<1>3. Len(docs) \in S
  BY <1>1, <1>2, Induction
<1>4. \E f : Lists(f, st, type, docs, Len(docs))
  BY <1>3 DEF S
<1> DEFINE after == CHOOSE f : Lists(f, st, type, docs, Len(docs))
<1>5. Lists(after, st, type, docs, Len(docs))
  BY <1>4
<1>6. ListTermValues(st, type) = after[Len(docs)]
  BY Zenon DEF ListTermValues, Lists
<1> QED
  BY <1>5, <1>6

Elements(list) == {list[i] : i \in DOMAIN list}

\* The list has values of W, each once, and all of them unless it is full.
ListsValues(list, W) ==
    /\ list \in Seq(W) /\ Len(list) <= MaxListSizeDeepExpansion
    /\ \A i, j \in 1 .. Len(list) : list[i] = list[j] => i = j
    /\ Elements(list) = W \/ Len(list) = MaxListSizeDeepExpansion

LEMMA ValueAdded ==
    ASSUME NEW W, NEW list, ListsValues(list, W), NEW v
    PROVE  ListsValues(AddValue(list, v), W \cup {v})
<1> DEFINE V == W \cup {v}
<1>0. MaxListSizeDeepExpansion \in Nat
  BY BoundAssumption
<1>1. /\ list \in Seq(V) /\ Len(list) \in Nat /\ DOMAIN list = 1 .. Len(list)
      /\ Len(list) <= MaxListSizeDeepExpansion
      /\ \A i, j \in 1 .. Len(list) : list[i] = list[j] => i = j
      /\ Elements(list) = W \/ Len(list) = MaxListSizeDeepExpansion
  <2>1. list \in Seq(W)
    BY DEF ListsValues
  <2>2. list \in Seq(V)
    BY <2>1, SeqMonotonic
  <2> QED
    BY <2>1, <2>2 DEF ListsValues
<1> HIDE DEF V
<1>2. CASE v \in Elements(list) \/ Len(list) >= MaxListSizeDeepExpansion
  <2>1. AddValue(list, v) = list
    BY <1>2 DEF AddValue, Elements
  <2>2. Elements(list) = V \/ Len(list) = MaxListSizeDeepExpansion
    <3>1. CASE Len(list) >= MaxListSizeDeepExpansion
      <4>1. Len(list) \in Nat /\ Len(list) <= MaxListSizeDeepExpansion
        BY <1>1
      <4>2. Len(list) = MaxListSizeDeepExpansion
        BY ONLY <1>0, <3>1, <4>1
      <4> QED
        BY <4>2
    <3>2. CASE v \in Elements(list) /\ Elements(list) = W
      BY <3>2 DEF V
    <3> QED
      BY <1>1, <1>2, <3>1, <3>2
  <2> QED
    BY <1>1, <2>1, <2>2 DEF ListsValues, V
<1>3. CASE ~(v \in Elements(list) \/ Len(list) >= MaxListSizeDeepExpansion)
  <2> DEFINE r == Append(list, v)
  <2>1. AddValue(list, v) = r
    BY <1>3 DEF AddValue, Elements
  <2>2. /\ r \in Seq(V) /\ Len(r) = Len(list) + 1 /\ r[Len(list) + 1] = v
        /\ \A i \in 1 .. Len(list) : r[i] = list[i]
    BY <1>1, AppendProperties DEF V
  <2>3. \A i \in 1 .. Len(list) : list[i] # v
    BY <1>1, <1>3 DEF Elements
  <2> HIDE DEF r
  <2>4. DOMAIN r = 1 .. Len(list) + 1 /\ Len(r) <= MaxListSizeDeepExpansion
    <3>1. DOMAIN r = 1 .. Len(r)
      BY <2>2, LenProperties
    <3>2. Len(list) + 1 <= MaxListSizeDeepExpansion
      <4>1. Len(list) \in Nat /\ ~(Len(list) >= MaxListSizeDeepExpansion)
        BY <1>1, <1>3
      <4> QED
        BY ONLY <1>0, <4>1
    <3> QED
      BY <2>2, <3>1, <3>2
  <2>5. \A i, j \in 1 .. Len(r) : r[i] = r[j] => i = j
    BY <1>1, <2>2, <2>3
  <2>6. Elements(r) = Elements(list) \cup {v}
    BY <1>1, <2>2, <2>4 DEF Elements
  <2>7. Elements(list) = W
    BY <1>0, <1>1, <1>3
  <2> QED
    BY <2>1, <2>2, <2>4, <2>5, <2>6, <2>7 DEF ListsValues, V
<1> QED
  BY <1>2, <1>3 DEF V

LEMMA ValuesAdded ==
    ASSUME NEW W, NEW list, ListsValues(list, W), NEW T, NEW values \in Seq(T)
    PROVE  ListsValues(AddValues(list, values), W \cup Elements(values))
<1>1. Len(values) \in Nat /\ DOMAIN values = 1 .. Len(values)
  OBVIOUS
<1>2. PICK f : Adds(f, list, values, Len(values)) /\ AddValues(list, values) = f[Len(values)]
  BY <1>1, AddsFollow
<1> DEFINE Seen(n) == {values[i] : i \in 1 .. n}
           S == {n \in Nat : n <= Len(values) => ListsValues(f[n], W \cup Seen(n))}
<1>3. 0 \in S
  <2>1. f[0] = list
    BY <1>1, <1>2 DEF Adds
  <2>2. W \cup Seen(0) = W
    OBVIOUS
  <2> QED
    BY <2>1, <2>2
<1>4. ASSUME NEW n \in Nat, n \in S
      PROVE  n + 1 \in S
  <2> SUFFICES ASSUME n + 1 <= Len(values)
               PROVE  ListsValues(f[n + 1], W \cup Seen(n + 1))
    OBVIOUS
  <2>1. n + 1 \in 0 .. Len(values) /\ n + 1 # 0 /\ (n + 1) - 1 = n
    BY <1>1
  <2>2. f[n + 1] = AddValue(f[n], values[n + 1])
    BY <1>2, <2>1 DEF Adds
  <2>3. ListsValues(f[n], W \cup Seen(n))
    BY <1>1, <1>4
  <2>4. (W \cup Seen(n)) \cup {values[n + 1]} = W \cup Seen(n + 1)
    OBVIOUS
  <2> HIDE DEF Seen
  <2> QED
    BY <2>2, <2>3, <2>4, ValueAdded
<1> HIDE DEF S
<1>5. Len(values) \in S
  BY <1>1, <1>3, <1>4, Induction
<1>6. Seen(Len(values)) = Elements(values)
  BY <1>1 DEF Elements
<1> HIDE DEF Seen
<1> QED
  BY <1>1, <1>2, <1>5, <1>6 DEF S

\* The documents in the order of their numbers.
LEMMA DocumentsInOrder ==
    ASSUME StorageInv
    PROVE  LET docs == Ascending(DOMAIN storage.docs) IN
           /\ docs \in Seq(DOMAIN storage.docs) /\ Len(docs) \in Nat
           /\ DOMAIN docs = 1 .. Len(docs) /\ Elements(docs) = DOMAIN storage.docs
<1> DEFINE D == DOMAIN storage.docs
           before == {p \in D \X D : p[1] < p[2]}
<1>1. D \in SUBSET Nat /\ IsFiniteSet(D)
  <2>1. storage.last \in Nat /\ D \in SUBSET (1 .. storage.last)
    BY BoundAssumption DEF StorageInv
  <2>2. IsFiniteSet(1 .. storage.last)
    BY <2>1, FS_Interval
  <2> QED
    BY <2>1, <2>2, FS_Subset
<1>2. IsOrder(D, before)
  BY <1>1, NumbersInOrder
<1> HIDE DEF D, before
<1>3. /\ SortedBy(D, before) \in Seq(D) /\ Len(SortedBy(D, before)) \in Nat
      /\ DOMAIN SortedBy(D, before) = 1 .. Len(SortedBy(D, before))
      /\ \A i \in 1 .. Len(SortedBy(D, before)) : SortedBy(D, before)[i] \in D
      /\ \A x \in D : \E i \in 1 .. Len(SortedBy(D, before)) : SortedBy(D, before)[i] = x
  BY <1>1, <1>2, Sorted
<1>4. Ascending(D) = SortedBy(D, before)
  BY DEF Ascending, before
<1> QED
  BY <1>3, <1>4 DEF D, Elements

\* The values a document has of a type.
ValuesOfType(d, type) == {t.value : t \in SearchTerms(storage, d, type)}

LEMMA ValuesOfADocument ==
    ASSUME StorageInv, NEW d \in DOMAIN storage.docs, NEW type
    PROVE  /\ ValuesIn(storage, d, type) \in Seq(ValuesOfType(d, type))
           /\ Elements(ValuesIn(storage, d, type)) = ValuesOfType(d, type)
<1> DEFINE terms == SearchTerms(storage, d, type)
           V == {t.value : t \in terms}
<1>1. PICK c \in Contents : c = storage.docs[d] /\ Document(storage, d) = c
  BY StorageDocuments
<1>2. terms = {t \in c.search : t.type = type} /\ IsFiniteSet(c.search)
  BY <1>1, ContentAssumption DEF SearchTerms
<1>3. IsFiniteSet(terms)
  BY <1>2, FS_Subset, terms \in SUBSET c.search
<1>4. \A v \in V : IsText(v)
  BY <1>2, ContentAssumption
<1> HIDE DEF terms
<1>5. IsFiniteSet(V)
  <2> DEFINE f == [t \in terms |-> t.value]
  <2>1. f \in Surjection(terms, V)
    BY DEF Surjection
  <2> QED
    BY <1>3, <2>1, FS_Surjection
<1> HIDE DEF V
<1>6. IsOrder(V, KeyOrder(V))
  BY <1>4, KeysInOrder
<1>7. /\ InOrder(V) \in Seq(V) /\ DOMAIN InOrder(V) = 1 .. Len(InOrder(V))
      /\ \A i \in 1 .. Len(InOrder(V)) : InOrder(V)[i] \in V
      /\ \A x \in V : \E i \in 1 .. Len(InOrder(V)) : InOrder(V)[i] = x
  BY <1>5, <1>6, Sorted DEF InOrder
<1> QED
  BY <1>7 DEF Elements, V, terms, ValuesIn, ValuesOfType

LEMMA ValuesOfTheStorage ==
    ASSUME StorageInv, NEW type
    PROVE  ListsValues(ListTermValues(storage, type),
                       UNION {ValuesOfType(d, type) : d \in DOMAIN storage.docs})
<1> DEFINE docs == Ascending(DOMAIN storage.docs)
<1>1. /\ docs \in Seq(DOMAIN storage.docs) /\ Len(docs) \in Nat
      /\ DOMAIN docs = 1 .. Len(docs) /\ Elements(docs) = DOMAIN storage.docs
  BY DocumentsInOrder
<1>2. PICK f : /\ Lists(f, storage, type, docs, Len(docs))
               /\ ListTermValues(storage, type) = f[Len(docs)]
  BY <1>1, ListsFollow
<1> HIDE DEF docs
<1> DEFINE Seen(n) == UNION {ValuesOfType(docs[i], type) : i \in 1 .. n}
           S == {n \in Nat : n <= Len(docs) => ListsValues(f[n], Seen(n))}
<1>3. 0 \in S
  <2>1. f[0] = << >>
    BY <1>1, <1>2 DEF Lists
  <2>2. Seen(0) = {}
    OBVIOUS
  <2>3. << >> \in Seq({}) /\ Len(<< >>) = 0 /\ DOMAIN << >> = {}
    OBVIOUS
  <2>4. ListsValues(<< >>, {})
    BY <2>3, BoundAssumption DEF ListsValues, Elements
  <2> QED
    BY <2>1, <2>2, <2>4
<1>4. ASSUME NEW n \in Nat, n \in S
      PROVE  n + 1 \in S
  <2> SUFFICES ASSUME n + 1 <= Len(docs)
               PROVE  ListsValues(f[n + 1], Seen(n + 1))
    OBVIOUS
  <2>1. n + 1 \in 0 .. Len(docs) /\ n + 1 # 0 /\ (n + 1) - 1 = n /\ n + 1 \in 1 .. Len(docs)
    BY <1>1
  <2>2. f[n + 1] = AddValues(f[n], ValuesIn(storage, docs[n + 1], type))
    BY <1>2, <2>1 DEF Lists
  <2>3. ListsValues(f[n], Seen(n))
    BY <1>1, <1>4
  <2>4. docs[n + 1] \in DOMAIN storage.docs
    BY <1>1, <2>1, ElementOfSeq
  <2>5. /\ ValuesIn(storage, docs[n + 1], type) \in Seq(ValuesOfType(docs[n + 1], type))
        /\ Elements(ValuesIn(storage, docs[n + 1], type)) = ValuesOfType(docs[n + 1], type)
    BY <2>4, ValuesOfADocument
  <2>6. Seen(n) \cup ValuesOfType(docs[n + 1], type) = Seen(n + 1)
    OBVIOUS
  <2> HIDE DEF Seen
  <2> QED
    BY <2>2, <2>3, <2>5, <2>6, ValuesAdded
<1> HIDE DEF S
<1>5. Len(docs) \in S
  BY <1>1, <1>3, <1>4, Induction
<1>6. Seen(Len(docs)) = UNION {ValuesOfType(d, type) : d \in DOMAIN storage.docs}
  BY <1>1 DEF Elements
<1> HIDE DEF Seen
<1>7. ListsValues(f[Len(docs)], Seen(Len(docs)))
  BY <1>1, <1>5 DEF S
<1> QED
  BY <1>2, <1>6, <1>7

\* A list that has no element twice has as many as it is long.
LEMMA DistinctElements ==
    ASSUME NEW W, NEW list \in Seq(W),
           \A i, j \in 1 .. Len(list) : list[i] = list[j] => i = j
    PROVE  Cardinality(Elements(list)) = Len(list)
<1>1. Len(list) \in Nat /\ DOMAIN list = 1 .. Len(list) /\ list = [i \in 1 .. Len(list) |-> list[i]]
  OBVIOUS
<1>2. list \in Bijection(1 .. Len(list), Elements(list))
  BY <1>1 DEF Bijection, Injection, IsInjective, Surjection, Elements
<1> QED
  BY <1>1, <1>2, FS_CountingElements DEF ExistsBijection

LEMMA ValuesListedByTheStorage ==
    ASSUME StorageInv
    PROVE  ValuesListedOnce
<1> SUFFICES ASSUME NEW type \in storage.types
             PROVE  LET list == ListTermValues(storage, type)
                        listed == {list[i] : i \in DOMAIN list}
                        values == {t.value : t \in UNION {SearchTerms(storage, d, type) : d \in DOMAIN storage.docs}}
                    IN  /\ Cardinality(listed) = Len(list)
                        /\ listed \subseteq values
                        /\ listed = values \/ Len(list) = MaxListSizeDeepExpansion
  BY DEF ValuesListedOnce
<1> DEFINE list == ListTermValues(storage, type)
           W == UNION {ValuesOfType(d, type) : d \in DOMAIN storage.docs}
<1>1. ListsValues(list, W)
  BY ValuesOfTheStorage
<1>2. W = {t.value : t \in UNION {SearchTerms(storage, d, type) : d \in DOMAIN storage.docs}}
  BY DEF ValuesOfType
<1> HIDE DEF list, W
<1>3. list \in Seq(W) /\ Elements(list) \subseteq W
  <2>1. list \in Seq(W)
    BY <1>1 DEF ListsValues
  <2> QED
    BY <2>1 DEF Elements
<1>4. Cardinality(Elements(list)) = Len(list)
  BY <1>1, <1>3, DistinctElements DEF ListsValues
<1> QED
  BY <1>1, <1>2, <1>3, <1>4 DEF ListsValues, Elements, list

\* Below a type the values of its terms are listed: each once, and all of them unless the list
\* is full.
THEOREM ValuesAreListedOnce == Spec => []ValuesListedOnce
BY StorageInvariant, ValuesListedByTheStorage, PTL

-----------------------------------------------------------------------------
(* Texts                                                                   *)

Text == Seq(Bytes)

LEMMA EmptyText ==
    /\ "" \in Text /\ Len("") = 0 /\ "" = << >>
    /\ \A t \in Text : ("" \o t = t) /\ (t \o "" = t) /\ (Len(t) = 0 <=> t = "")
<1>1. "" \in Seq(Bytes) /\ Len("") = 0
  BY TextAssumption
<1>2. << >> \in Seq(Bytes) /\ Len(<< >>) = 0 /\ (\A i \in 1 .. 0 : ""[i] = << >>[i])
  OBVIOUS
<1>3. "" = << >>
  BY <1>1, <1>2, SeqEqual
<1>4. \A t \in Seq(Bytes) : << >> \o t = t /\ t \o << >> = t
  BY ConcatEmptySeq
<1>5. \A t \in Seq(Bytes) : Len(t) = 0 <=> t = << >>
  BY EmptySeq
<1> QED
  BY <1>1, <1>3, <1>4, <1>5 DEF Text

LEMMA SlashText == "/" \in Text /\ Len("/") = 1 /\ "_" \in Text /\ Len("_") = 1
BY TextAssumption DEF Text

LEMMA Concat ==
    ASSUME NEW a \in Text, NEW b \in Text
    PROVE  /\ a \o b \in Text /\ Len(a) \in Nat /\ Len(b) \in Nat
           /\ Len(a \o b) = Len(a) + Len(b)
           /\ \A i \in 1 .. Len(a) : (a \o b)[i] = a[i]
           /\ \A i \in 1 .. Len(b) : (a \o b)[Len(a) + i] = b[i]
<1>1. /\ a \o b \in Seq(Bytes) /\ Len(a) \in Nat /\ Len(b) \in Nat
      /\ Len(a \o b) = Len(a) + Len(b)
      /\ \A i \in 1 .. Len(a) + Len(b) : (a \o b)[i] = IF i <= Len(a) THEN a[i] ELSE b[i - Len(a)]
  BY ConcatProperties DEF Text
<1>2. \A i \in 1 .. Len(a) : (a \o b)[i] = a[i]
  BY <1>1
<1>3. ASSUME NEW i \in 1 .. Len(b)
      PROVE  (a \o b)[Len(a) + i] = b[i]
  <2>1. Len(a) + i \in 1 .. Len(a) + Len(b) /\ ~(Len(a) + i <= Len(a)) /\ (Len(a) + i) - Len(a) = i
    BY <1>1
  <2> QED
    BY <1>1, <2>1
<1> QED
  BY <1>1, <1>2, <1>3 DEF Text

LEMMA Joined ==
    ASSUME NEW a \in Text, NEW b \in Text, NEW c \in Text
    PROVE  (a \o b) \o c = a \o (b \o c)
<1>1. a \in Seq(Bytes) /\ b \in Seq(Bytes) /\ c \in Seq(Bytes)
  BY DEF Text
<1> QED
  BY <1>1, ConcatAssociative

LEMMA TextsEqual ==
    ASSUME NEW a \in Text, NEW b \in Text, Len(a) = Len(b), \A i \in 1 .. Len(a) : a[i] = b[i]
    PROVE  a = b
BY SeqEqual DEF Text

LEMMA Parts_ ==
    ASSUME NEW t \in Text, NEW m \in Nat \ {0}, NEW n \in Int, n <= Len(t)
    PROVE  /\ SubSeq(t, m, n) \in Text
           /\ Len(SubSeq(t, m, n)) = IF m <= n THEN n - m + 1 ELSE 0
           /\ \A i \in 1 .. n - m + 1 : SubSeq(t, m, n)[i] = t[m + i - 1]
<1>1. Len(t) \in Nat /\ t \in Seq(Bytes)
  BY DEF Text
<1>2. \A i \in m .. n : t[i] \in Bytes
  BY <1>1, ElementOfSeq
<1> QED
  BY <1>2, SubSeqProperties DEF Text

LEMMA PartsJoined ==
    ASSUME NEW t \in Text, NEW m \in Nat \ {0}, NEW k \in Nat, NEW n \in Nat,
           m - 1 <= k, k <= n, n <= Len(t)
    PROVE  SubSeq(t, m, k) \o SubSeq(t, k + 1, n) = SubSeq(t, m, n)
<1>1. Len(t) \in Nat /\ t \in Seq(Bytes)
  BY DEF Text
<1>2. m \in 1 .. Len(t) + 1 /\ k \in m - 1 .. Len(t) /\ n \in k .. Len(t)
  BY <1>1
<1> QED
  BY <1>1, <1>2, ConcatAdjacentSubSeq

LEMMA Whole ==
    ASSUME NEW t \in Text
    PROVE  SubSeq(t, 1, Len(t)) = t
BY SubSeqFull DEF Text

LEMMA RestOfText ==
    ASSUME NEW t \in Text, NEW n \in Nat
    PROVE  After(t, n) \in Text
BY Parts_ DEF After, Text

\* A text is its prefix and what comes after it.
LEMMA PrefixAndRest ==
    ASSUME NEW t \in Text, NEW p \in Text, StartsWith(t, p)
    PROVE  p \o After(t, Len(p)) = t
<1>1. Len(t) \in Nat /\ Len(p) \in Nat /\ Len(p) <= Len(t) /\ SubSeq(t, 1, Len(p)) = p
  BY DEF StartsWith, Text
<1>2. /\ 1 \in Nat \ {0} /\ Len(p) \in Nat /\ Len(t) \in Nat
      /\ 1 - 1 <= Len(p) /\ Len(p) <= Len(t) /\ Len(t) <= Len(t)
  BY <1>1
<1>3. SubSeq(t, 1, Len(p)) \o SubSeq(t, Len(p) + 1, Len(t)) = SubSeq(t, 1, Len(t))
  BY <1>2, PartsJoined
<1> QED
  BY <1>1, <1>3, Whole DEF After

LEMMA StartsWithPrefix ==
    ASSUME NEW a \in Text, NEW b \in Text
    PROVE  StartsWith(a \o b, a)
<1>1. a \o b \in Text /\ Len(a) <= Len(a \o b) /\ \A i \in 1 .. Len(a) : (a \o b)[i] = a[i]
  BY Concat
<1> QED
  BY <1>1, StartsWithMeans DEF Text

LEMMA SlashesMeans ==
    ASSUME NEW t \in Text
    PROVE  \A i \in 1 .. Len(t) : i \in Slashes(t) <=> t[i] = "/"[1]
<1> TAKE i \in 1 .. Len(t)
<1>0. Len(t) \in Nat
  BY DEF Text
<1>1. /\ SubSeq(t, i, i) \in Text /\ Len(SubSeq(t, i, i)) = 1
      /\ SubSeq(t, i, i)[1] = t[i]
  BY <1>0, Parts_
<1>2. SubSeq(t, i, i) = "/" <=> t[i] = "/"[1]
  <2>1. ASSUME t[i] = "/"[1]
        PROVE  SubSeq(t, i, i) = "/"
    <3>1. \A j \in 1 .. Len(SubSeq(t, i, i)) : SubSeq(t, i, i)[j] = "/"[j]
      BY <1>1, <2>1
    <3> QED
      BY <1>1, <3>1, SlashText, TextsEqual
  <2> QED
    BY <1>1, <2>1
<1> QED
  BY <1>2 DEF Slashes, CharAt

LEMMA FirstSlash ==
    ASSUME NEW t \in Text, Slashes(t) # {}
    PROVE  LET delim == CHOOSE i \in Slashes(t) : \A j \in Slashes(t) : i <= j IN
           delim \in 1 .. Len(t) /\ delim \in Slashes(t)
<1>1. Slashes(t) \in SUBSET Nat /\ Slashes(t) \subseteq 1 .. Len(t)
  BY DEF Slashes
<1>2. \E i \in Slashes(t) : \A j \in Slashes(t) : i <= j
  BY <1>1, Least
<1> QED
  BY <1>1, <1>2

LEMMA LastSlash ==
    ASSUME NEW t \in Text, Slashes(t) # {}
    PROVE  LET last == CHOOSE i \in Slashes(t) : \A j \in Slashes(t) : j <= i IN
           last \in 1 .. Len(t)
<1>0. Len(t) \in Nat
  BY DEF Text
<1>1. Slashes(t) \subseteq 1 .. Len(t)
  BY DEF Slashes
<1> DEFINE D == {n \in Nat : Len(t) - n \in Slashes(t)}
<1>2. D # {}
  <2>1. PICK i : i \in Slashes(t)
    OBVIOUS
  <2>2. Len(t) - i \in Nat /\ Len(t) - (Len(t) - i) = i
    BY <1>0, <1>1, <2>1
  <2> QED
    BY <2>1, <2>2
<1>3. PICK n \in D : \A m \in D : n <= m
  BY <1>2, Least, D \in SUBSET Nat
<1>4. ASSUME NEW j \in Slashes(t)
      PROVE  j <= Len(t) - n
  <2>1. j \in 1 .. Len(t) /\ Len(t) - j \in Nat /\ Len(t) - (Len(t) - j) = j
    BY <1>0, <1>1
  <2>2. n <= Len(t) - j
    BY <1>3, <2>1
  <2> QED
    BY <1>0, <1>3, <2>1, <2>2
<1>5. \E i \in Slashes(t) : \A j \in Slashes(t) : j <= i
  BY <1>3, <1>4
<1> QED
  BY <1>1, <1>5

-----------------------------------------------------------------------------
(* The walk through a directory                                            *)

LEMMA IdsOfTheStorage ==
    ASSUME StorageInv
    PROVE  IsFiniteSet(Docids(storage)) /\ \A id \in Docids(storage) : IsText(id)
<1> DEFINE D == DOMAIN storage.docs
<1>1. IsFiniteSet(D)
  <2>1. storage.last \in Nat /\ D \in SUBSET (1 .. storage.last)
    BY BoundAssumption DEF StorageInv
  <2>2. IsFiniteSet(1 .. storage.last)
    BY <2>1, FS_Interval
  <2> QED
    BY <2>1, <2>2, FS_Subset
<1>2. [d \in D |-> storage.docs[d].id] \in Surjection(D, Docids(storage))
  BY DEF Surjection, Docids
<1>3. IsFiniteSet(Docids(storage))
  BY <1>1, <1>2, FS_Surjection
<1> QED
  BY <1>3, StorageDocuments DEF Docids

\* The first texts of a set in their order are texts of the set.
LEMMA Fetched ==
    ASSUME NEW texts, IsFiniteSet(texts), \A t \in texts : IsText(t), NEW n \in Nat
    PROVE  FetchValues(texts, n) \in Seq(texts)
<1>1. IsOrder(texts, KeyOrder(texts))
  BY KeysInOrder
<1> DEFINE list == InOrder(texts)
           m == IF Len(list) < n THEN Len(list) ELSE n
<1>2. list \in Seq(texts)
  BY <1>1, Sorted DEF InOrder
<1> HIDE DEF list
<1>3. Len(list) \in Nat /\ m \in Nat /\ m <= Len(list)
  BY <1>2
<1>4. \A i \in 1 .. m : list[i] \in texts
  BY <1>2, <1>3, ElementOfSeq
<1> HIDE DEF m
<1>5. SubSeq(list, 1, m) \in Seq(texts)
  BY <1>3, <1>4, SubSeqProperties
<1> QED
  BY <1>5 DEF FetchValues, First, list, m

LEMMA SearchedIds ==
    ASSUME NEW ids, IsFiniteSet(ids), \A t \in ids : IsText(t), NEW key
    PROVE  Searched(ids, key) \in Seq(ids)
<1> DEFINE T == SkippedTo(ids, key)
<1>1. T \in SUBSET ids
  BY DEF SkippedTo
<1> HIDE DEF T
<1>2. IsFiniteSet(T) /\ \A t \in T : IsText(t)
  BY <1>1, FS_Subset
<1>3. FetchValues(T, MaxListSizeDeepExpansion) \in Seq(T)
  BY <1>2, BoundAssumption, Fetched
<1>4. FetchValues(T, MaxListSizeDeepExpansion) \in Seq(ids)
  BY <1>1, <1>3, SeqMonotonic
<1> QED
  BY <1>4 DEF Searched, T

\* A name that is an id below the context, or the directory of one.
Leads(ids, context, name) ==
    \/ context \o name \in ids
    \/ \E id \in ids : StartsWith(id, context \o name \o "/")

NamesBelow(ids, context, complete) ==
    {name \in Text : complete => Leads(ids, context, name)}

\* A turn of the walk lists a name that leads to an id.
LEMMA WalkStep ==
    ASSUME NEW ids, IsFiniteSet(ids), \A t \in ids : IsText(t),
           NEW prefix \in Text, NEW context \in Text, NEW complete \in BOOLEAN,
           complete => prefix = context,
           NEW walk, walk.found \in Seq(ids), walk.rt \in Seq(NamesBelow(ids, context, complete))
    PROVE  LET after == WalkOn(ids, walk, prefix, context) IN
           after.found \in Seq(ids) /\ after.rt \in Seq(NamesBelow(ids, context, complete))
<1> DEFINE Names == NamesBelow(ids, context, complete)
           id    == walk.found[1]
           elem  == After(id, Len(context))
           delim == CHOOSE i \in Slashes(elem) : \A j \in Slashes(elem) : i <= j
           name  == SubSeq(elem, 1, delim - 1)
           after == WalkOn(ids, walk, prefix, context)
<1>1. CASE walk.found = << >> \/ ~StartsWith(id, prefix)
  BY <1>1 DEF WalkOn
<1>2. CASE ~(walk.found = << >> \/ ~StartsWith(id, prefix))
  <2>1. id \in ids /\ id \in Text /\ Len(context) \in Nat
    <3>1. id \in ids
      BY <1>2, EmptySeq, ElementOfSeq
    <3> QED
      BY <3>1 DEF IsText, Text
  <2>2. elem \in Text
    BY <2>1, RestOfText
  <2>3. complete => context \o elem = id
    BY <1>2, <2>1, PrefixAndRest
  <2>4. CASE Slashes(elem) = {}
    <3>1. after = [found |-> Tail(walk.found), rt |-> Append(walk.rt, elem)]
      BY <1>2, <2>4 DEF WalkOn
    <3>2. elem \in Names
      BY <2>1, <2>2, <2>3 DEF NamesBelow, Leads
    <3> HIDE DEF Names, elem
    <3>3. Tail(walk.found) \in Seq(ids)
      BY <1>2, HeadTailProperties
    <3>4. Append(walk.rt, elem) \in Seq(Names)
      BY <3>2, AppendProperties DEF Names
    <3> QED
      BY <3>1, <3>3, <3>4 DEF Names
  <2>5. CASE Slashes(elem) # {}
    <3>0. after = [found |-> Searched(ids, context \o name \o CharAt(Characters, 1)),
                   rt |-> Append(walk.rt, name)]
      BY <1>2, <2>5 DEF WalkOn
    <3>1. delim \in 1 .. Len(elem) /\ delim \in Slashes(elem)
      BY <2>2, <2>5, FirstSlash
    <3> HIDE DEF delim, elem
    <3>2. Len(elem) \in Nat
      BY <2>2 DEF Text
    <3>3. name \in Text
      BY <2>2, <3>1, <3>2, Parts_
    <3>4. SubSeq(elem, delim, delim) = "/"
      BY <3>1 DEF Slashes, CharAt
    <3>5. SubSeq(elem, 1, delim - 1) \o SubSeq(elem, delim, delim) = SubSeq(elem, 1, delim)
      <4>1. delim - 1 \in Nat /\ (delim - 1) + 1 = delim /\ delim \in Nat /\ delim <= Len(elem)
        BY <3>1, <3>2
      <4>2. SubSeq(elem, 1, delim - 1) \o SubSeq(elem, (delim - 1) + 1, delim) = SubSeq(elem, 1, delim)
        BY <2>2, <4>1, PartsJoined
      <4> QED
        BY <4>1, <4>2
    <3>6. SubSeq(elem, 1, delim) \o SubSeq(elem, delim + 1, Len(elem)) = elem
      BY <2>2, <3>1, <3>2, PartsJoined, Whole
    <3> DEFINE rest == SubSeq(elem, delim + 1, Len(elem))
    <3>7. rest \in Text
      BY <2>2, <3>1, <3>2, Parts_
    <3> HIDE DEF name, rest
    <3>8. (name \o "/") \o rest = elem
      BY <3>4, <3>5, <3>6 DEF name, rest
    <3>9. ((context \o name) \o "/") \o rest = context \o elem
      <4>1. name \o "/" \in Text /\ context \o name \in Text
        BY <3>3, SlashText, Concat
      <4>2. (context \o (name \o "/")) \o rest = context \o ((name \o "/") \o rest)
        <5>1. PICK dir : dir = name \o "/"
          OBVIOUS
        <5>2. (context \o dir) \o rest = context \o (dir \o rest)
          BY <3>7, <4>1, <5>1, Joined
        <5> QED
          BY <5>1, <5>2
      <4>3. (context \o name) \o "/" = context \o (name \o "/")
        BY <3>3, SlashText, Joined
      <4> QED
        BY <3>8, <4>2, <4>3
    <3>10. complete => StartsWith(id, (context \o name) \o "/")
      <4>1. (context \o name) \o "/" \in Text
        BY <3>3, SlashText, Concat
      <4>2. StartsWith(((context \o name) \o "/") \o rest, (context \o name) \o "/")
        BY <3>7, <4>1, StartsWithPrefix
      <4> QED
        BY <2>3, <3>9, <4>2
    <3>11. name \in Names
      BY <2>1, <3>3, <3>10 DEF NamesBelow, Leads
    <3>12. Append(walk.rt, name) \in Seq(Names)
      BY <3>11, AppendProperties
    <3>13. Searched(ids, context \o name \o CharAt(Characters, 1)) \in Seq(ids)
      BY SearchedIds
    <3> HIDE DEF Names, after
    <3>14. after.found \in Seq(ids) /\ after.rt \in Seq(Names)
      BY <3>0, <3>12, <3>13 DEF name
    <3> QED
      BY <3>14 DEF Names, after
  <2> QED
    BY <2>4, <2>5
<1> QED
  BY <1>1, <1>2

-----------------------------------------------------------------------------
\* The walk of a directory, turn by turn.
Walks(f, ids, path, complete, n) ==
    f = [i \in 0 .. n |-> IF i = 0 THEN [found |-> Searched(ids, DirectoryPrefix(path, complete)), rt |-> << >>]
                          ELSE WalkOn(ids, f[i - 1], DirectoryPrefix(path, complete), DirectoryContext(path, complete))]

LEMMA WalksFollow ==
    ASSUME NEW ids, NEW path, NEW complete, MaxListSizeDeepExpansion \in Nat
    PROVE  \E f : Walks(f, ids, path, complete, MaxListSizeDeepExpansion) /\ FetchDirectory(ids, path, complete) = f[MaxListSizeDeepExpansion].rt
<1> DEFINE S == {n \in Nat : \E f : Walks(f, ids, path, complete, n)}
<1>1. 0 \in S
  <2>1. PICK f : f = [i \in 0 .. 0 |-> [found |-> Searched(ids, DirectoryPrefix(path, complete)), rt |-> << >>]]
    OBVIOUS
  <2>2. Walks(f, ids, path, complete, 0)
    BY <2>1 DEF Walks
  <2> QED
    BY <2>2
<1>2. ASSUME NEW n \in Nat, n \in S
      PROVE  n + 1 \in S
  <2>1. PICK f : Walks(f, ids, path, complete, n)
    BY <1>2
  <2>2. PICK v : v = WalkOn(ids, f[n], DirectoryPrefix(path, complete), DirectoryContext(path, complete))
    OBVIOUS
  <2>3. PICK g : g = [i \in 0 .. n + 1 |-> IF i = n + 1 THEN v ELSE f[i]]
    OBVIOUS
  <2>4. \A i \in 0 .. n + 1 :
          g[i] = IF i = 0 THEN [found |-> Searched(ids, DirectoryPrefix(path, complete)), rt |-> << >>] ELSE WalkOn(ids, g[i - 1], DirectoryPrefix(path, complete), DirectoryContext(path, complete))
    <3> TAKE i \in 0 .. n + 1
    <3>1. CASE i = n + 1
      <4>1. g[i] = v /\ g[i - 1] = f[n] /\ i # 0
        BY <2>3, <3>1
      <4> QED
        BY <2>2, <3>1, <4>1
    <3>2. CASE i = 0
      BY <2>1, <2>3, <3>2 DEF Walks
    <3>3. CASE i \in 1 .. n
      <4>1. g[i] = f[i] /\ g[i - 1] = f[i - 1] /\ i # 0 /\ i \in 0 .. n
        BY <2>3, <3>3
      <4>2. f[i] = WalkOn(ids, f[i - 1], DirectoryPrefix(path, complete), DirectoryContext(path, complete))
        BY <2>1, <4>1 DEF Walks
      <4> QED
        BY <4>1, <4>2
    <3> QED
      BY <3>1, <3>2, <3>3
  <2>5. Walks(g, ids, path, complete, n + 1)
    BY <2>3, <2>4 DEF Walks
  <2> QED
    BY <2>5
<1> HIDE DEF S
<1>3. MaxListSizeDeepExpansion \in S
  BY <1>1, <1>2, Induction
<1>4. \E f : Walks(f, ids, path, complete, MaxListSizeDeepExpansion)
  BY <1>3 DEF S
<1> DEFINE after == CHOOSE f : Walks(f, ids, path, complete, MaxListSizeDeepExpansion)
<1>5. Walks(after, ids, path, complete, MaxListSizeDeepExpansion)
  BY <1>4
<1>6. FetchDirectory(ids, path, complete) = after[MaxListSizeDeepExpansion].rt
  BY Zenon DEF FetchDirectory, Walks
<1> QED
  BY <1>5, <1>6

LEMMA ContextIsText ==
    ASSUME NEW path \in Text, NEW complete \in BOOLEAN
    PROVE  /\ DirectoryPrefix(path, complete) \in Text
           /\ DirectoryContext(path, complete) \in Text
<1>1. DirectoryPrefix(path, complete) \in Text
  BY SlashText, Concat DEF DirectoryPrefix
<1>2. ASSUME Slashes(path) # {}
      PROVE  ParentPath(path) \o "/" \in Text
  <2> DEFINE last == CHOOSE i \in Slashes(path) : \A j \in Slashes(path) : j <= i
  <2>1. last \in 1 .. Len(path) /\ Len(path) \in Nat
    <3>1. last \in 1 .. Len(path)
      BY <1>2, LastSlash
    <3> QED
      BY <3>1 DEF Text
  <2> HIDE DEF last
  <2>2. 1 \in Nat \ {0} /\ last - 1 \in Int /\ last - 1 <= Len(path)
    BY <2>1
  <2>3. SubSeq(path, 1, last - 1) \in Text
    BY <2>2, Parts_
  <2>4. ParentPath(path) \in Text
    BY <2>3 DEF ParentPath, last
  <2> QED
    BY <2>4, SlashText, Concat
<1> QED
  BY <1>1, <1>2, EmptyText DEF DirectoryContext

\* What a directory lists leads to a document: it is the rest of an id, or
\* the directory of one.
LEMMA DirectoryListed ==
    ASSUME NEW ids, IsFiniteSet(ids), \A t \in ids : IsText(t),
           NEW path \in Text, NEW complete \in BOOLEAN
    PROVE  FetchDirectory(ids, path, complete)
             \in Seq(NamesBelow(ids, DirectoryContext(path, complete), complete))
<1> DEFINE prefix  == DirectoryPrefix(path, complete)
           context == DirectoryContext(path, complete)
           Names   == NamesBelow(ids, context, complete)
           Good(w) == w.found \in Seq(ids) /\ w.rt \in Seq(Names)
<1>1. prefix \in Text /\ context \in Text /\ (complete => prefix = context)
  BY ContextIsText DEF DirectoryContext
<1>2. MaxListSizeDeepExpansion \in Nat
  BY BoundAssumption
<1>3. PICK f : /\ Walks(f, ids, path, complete, MaxListSizeDeepExpansion)
               /\ FetchDirectory(ids, path, complete) = f[MaxListSizeDeepExpansion].rt
  BY <1>2, WalksFollow
<1> DEFINE S == {n \in Nat : n <= MaxListSizeDeepExpansion => Good(f[n])}
<1>4. 0 \in S
  <2>1. f[0] = [found |-> Searched(ids, prefix), rt |-> << >>]
    BY <1>2, <1>3 DEF Walks
  <2>2. Searched(ids, prefix) \in Seq(ids)
    BY SearchedIds
  <2>3. << >> \in Seq(Names)
    OBVIOUS
  <2> HIDE DEF Names, prefix, context
  <2>4. Good(f[0])
    BY <2>1, <2>2, <2>3
  <2> QED
    BY <2>4
<1>5. ASSUME NEW n \in Nat, n \in S
      PROVE  n + 1 \in S
  <2> SUFFICES ASSUME n + 1 <= MaxListSizeDeepExpansion
               PROVE  Good(f[n + 1])
    OBVIOUS
  <2>1. Good(f[n])
    BY <1>2, <1>5
  <2>2. f[n + 1] = WalkOn(ids, f[n], prefix, context)
    <3>1. n + 1 \in 0 .. MaxListSizeDeepExpansion /\ n + 1 # 0 /\ (n + 1) - 1 = n
      BY <1>2
    <3> QED
      BY <1>3, <3>1 DEF Walks
  <2> HIDE DEF prefix, context
  <2>3. Good(WalkOn(ids, f[n], prefix, context))
    BY <1>1, <2>1, WalkStep
  <2> QED
    BY <2>2, <2>3
<1> HIDE DEF Good, Names, S, prefix, context
<1>6. MaxListSizeDeepExpansion \in S
  BY <1>2, <1>4, <1>5, Induction
<1>7. Good(f[MaxListSizeDeepExpansion])
  BY <1>2, <1>6 DEF S
<1> QED
  BY <1>3, <1>7 DEF Good, Names, context

-----------------------------------------------------------------------------
(* The id a path spells                                                    *)

IsSequence(path) == \E S : path \in Seq(S)

LEMMA Appended ==
    ASSUME NEW path, IsSequence(path), NEW name
    PROVE  /\ IsSequence(Append(path, name))
           /\ Len(path) \in Nat /\ DOMAIN path = 1 .. Len(path)
           /\ Len(Append(path, name)) = Len(path) + 1
           /\ DOMAIN Append(path, name) = 1 .. Len(path) + 1
           /\ \A i \in 1 .. Len(path) : Append(path, name)[i] = path[i]
           /\ Append(path, name)[Len(path) + 1] = name
<1>1. PICK S : path \in Seq(S)
  BY DEF IsSequence
<1>2. path \in Seq(S \cup {name})
  BY <1>1, SeqMonotonic
<1>3. /\ Append(path, name) \in Seq(S \cup {name})
      /\ Len(Append(path, name)) = Len(path) + 1
      /\ \A i \in 1 .. Len(path) + 1 :
           Append(path, name)[i] = IF i <= Len(path) THEN path[i] ELSE name
  BY <1>2, AppendProperties
<1>4. Len(path) \in Nat /\ DOMAIN path = 1 .. Len(path)
  BY <1>1
<1>5. DOMAIN Append(path, name) = 1 .. Len(path) + 1
  BY <1>3
<1>6. IsSequence(Append(path, name))
  BY <1>3 DEF IsSequence
<1> QED
  BY <1>3, <1>4, <1>5, <1>6

\* A turn of the spelling.
SpelledOn(id, path, first, n) ==
    IF n < first THEN "" ELSE id \o (IF id = "" THEN "" ELSE "/") \o Spelled(path, n)

\* The ids the first names of a path spell.
Spells(f, path, first, n) ==
    f = [i \in 0 .. n |->
           IF i < first THEN "" ELSE f[i - 1] \o (IF f[i - 1] = "" THEN "" ELSE "/") \o Spelled(path, i)]

LEMMA SpellsFollow ==
    ASSUME NEW path, NEW first \in Nat \ {0}, NEW last \in Nat
    PROVE  \E f : Spells(f, path, first, last) /\ PathId(path, first, last) = f[last]
<1> DEFINE S == {n \in Nat : \E f : Spells(f, path, first, n)}
<1>1. 0 \in S
  <2>1. PICK f : f = [i \in 0 .. 0 |-> ""]
    OBVIOUS
  <2>2. \A i \in 0 .. 0 : f[i] = SpelledOn(f[i - 1], path, first, i)
    <3> TAKE i \in 0 .. 0
    <3>1. f[i] = ""
      BY <2>1
    <3>2. i < first
      OBVIOUS
    <3> QED
      BY ONLY <3>1, <3>2 DEF SpelledOn
  <2>3. Spells(f, path, first, 0)
    BY <2>1, <2>2 DEF Spells, SpelledOn
  <2> QED
    BY <2>3
<1>2. ASSUME NEW n \in Nat, n \in S
      PROVE  n + 1 \in S
  <2>1. PICK f : Spells(f, path, first, n)
    BY <1>2
  <2>2. PICK v : v = SpelledOn(f[n], path, first, n + 1)
    OBVIOUS
  <2>3. PICK g : g = [i \in 0 .. n + 1 |-> IF i = n + 1 THEN v ELSE f[i]]
    OBVIOUS
  <2>4. \A i \in 0 .. n + 1 : g[i] = SpelledOn(g[i - 1], path, first, i)
    <3> TAKE i \in 0 .. n + 1
    <3>1. CASE i = n + 1
      <4>1. g[i] = v /\ g[i - 1] = f[n]
        BY <2>3, <3>1
      <4> QED
        BY <2>2, <3>1, <4>1
    <3>2. CASE i = 0
      <4>1. g[i] = f[0] /\ 0 \in 0 .. n /\ i < first
        BY <2>3, <3>2
      <4>2. f[0] = SpelledOn(f[0 - 1], path, first, 0)
        BY <2>1, <4>1 DEF Spells, SpelledOn
      <4> QED
        BY <3>2, <4>1, <4>2 DEF SpelledOn
    <3>3. CASE i \in 1 .. n
      <4>1. g[i] = f[i] /\ g[i - 1] = f[i - 1] /\ i \in 0 .. n
        BY <2>3, <3>3
      <4>2. f[i] = SpelledOn(f[i - 1], path, first, i)
        BY <2>1, <4>1 DEF Spells, SpelledOn
      <4> QED
        BY <4>1, <4>2
    <3> QED
      BY <3>1, <3>2, <3>3
  <2>5. Spells(g, path, first, n + 1)
    BY <2>3, <2>4 DEF Spells, SpelledOn
  <2> QED
    BY <2>5
<1> HIDE DEF S
<1>3. last \in S
  BY <1>1, <1>2, Induction
<1>4. \E f : Spells(f, path, first, last)
  BY <1>3 DEF S
<1> DEFINE after == CHOOSE f : Spells(f, path, first, last)
<1>5. Spells(after, path, first, last)
  BY <1>4
<1>6. PathId(path, first, last) = after[last]
  BY Zenon DEF PathId, Spells
<1> QED
  BY <1>5, <1>6

LEMMA SpellsAgree ==
    ASSUME NEW p, NEW q, NEW first \in Nat \ {0}, NEW m \in Nat, NEW n \in Nat, NEW f, NEW g,
           Spells(f, p, first, m), Spells(g, q, first, n),
           NEW k \in Nat, k <= m, k <= n, \A i \in 1 .. k : Spelled(p, i) = Spelled(q, i)
    PROVE  f[k] = g[k]
<1> DEFINE S == {j \in Nat : j <= k => f[j] = g[j]}
<1>1. 0 \in S
  <2>1. 0 \in 0 .. m /\ 0 \in 0 .. n /\ 0 < first
    OBVIOUS
  <2>2. f[0] = "" /\ g[0] = ""
    BY <2>1 DEF Spells
  <2> QED
    BY <2>2
<1>2. ASSUME NEW j \in Nat, j \in S
      PROVE  j + 1 \in S
  <2> SUFFICES ASSUME j + 1 <= k
               PROVE  f[j + 1] = g[j + 1]
    OBVIOUS
  <2>1. j + 1 \in 0 .. m /\ j + 1 \in 0 .. n /\ j + 1 \in 1 .. k /\ (j + 1) - 1 = j
    OBVIOUS
  <2>2. f[j + 1] = SpelledOn(f[j], p, first, j + 1) /\ g[j + 1] = SpelledOn(g[j], q, first, j + 1)
    BY <2>1 DEF Spells, SpelledOn
  <2>3. f[j] = g[j]
    BY <1>2
  <2> QED
    BY <2>1, <2>2, <2>3 DEF SpelledOn
<1> HIDE DEF S
<1>3. k \in S
  BY <1>1, <1>2, Induction
<1> QED
  BY <1>3 DEF S

\* What a path spells up to a name does not depend on the names behind it.
LEMMA PathIdKept ==
    ASSUME NEW p, NEW q, NEW first \in Nat \ {0}, NEW last \in Nat,
           \A i \in 1 .. last : Spelled(p, i) = Spelled(q, i)
    PROVE  PathId(p, first, last) = PathId(q, first, last)
<1>1. PICK f : Spells(f, p, first, last) /\ PathId(p, first, last) = f[last]
  BY SpellsFollow
<1>2. PICK g : Spells(g, q, first, last) /\ PathId(q, first, last) = g[last]
  BY SpellsFollow
<1>3. last <= last
  OBVIOUS
<1>4. f[last] = g[last]
  BY <1>1, <1>2, <1>3, SpellsAgree
<1> QED
  BY <1>1, <1>2, <1>4

LEMMA PathIdStep ==
    ASSUME NEW path, NEW first \in Nat \ {0}, NEW last \in Nat
    PROVE  PathId(path, first, last + 1) = SpelledOn(PathId(path, first, last), path, first, last + 1)
<1>1. PICK f : Spells(f, path, first, last) /\ PathId(path, first, last) = f[last]
  BY SpellsFollow
<1>2. PICK g : Spells(g, path, first, last + 1) /\ PathId(path, first, last + 1) = g[last + 1]
  BY SpellsFollow, last + 1 \in Nat
<1>3. f[last] = g[last]
  <2>1. last + 1 \in Nat /\ last <= last /\ last <= last + 1
    OBVIOUS
  <2> QED
    BY <1>1, <1>2, <2>1, SpellsAgree
<1>4. last + 1 \in 0 .. last + 1 /\ (last + 1) - 1 = last
  OBVIOUS
<1>5. g[last + 1] = SpelledOn(g[last], path, first, last + 1)
  BY <1>2, <1>4 DEF Spells, SpelledOn
<1> QED
  BY <1>1, <1>2, <1>3, <1>5

LEMMA PathIdEmpty ==
    ASSUME NEW path, NEW first \in Nat \ {0}, NEW last \in Nat, last < first
    PROVE  PathId(path, first, last) = ""
<1>1. PICK f : Spells(f, path, first, last) /\ PathId(path, first, last) = f[last]
  BY SpellsFollow
<1>2. last \in 0 .. last
  OBVIOUS
<1> QED
  BY <1>1, <1>2 DEF Spells

\* One more name on a path.
LEMMA PathAppended ==
    ASSUME NEW path, IsSequence(path), path # << >>, NEW name
    PROVE  LET longer == Append(path, name) IN
           /\ longer[1] = path[1]
           /\ Spelled(longer, Len(path) + 1) =
                IF path[1] = "doc" /\ LastChar(name) = "*" THEN WithoutLastChar(name) ELSE name
           /\ \A first \in Nat \ {0}, last \in 0 .. Len(path) :
                PathId(longer, first, last) = PathId(path, first, last)
           /\ Behind(path) \subseteq 2 .. Len(path) + 1
           /\ Behind(path) \subseteq Behind(longer)
           /\ path[1] # "doc" /\ name = "postings" => Len(path) + 2 \in Behind(longer)
<1> DEFINE longer == Append(path, name)
<1>1. /\ Len(path) \in Nat /\ DOMAIN path = 1 .. Len(path)
      /\ DOMAIN longer = 1 .. Len(path) + 1
      /\ \A i \in 1 .. Len(path) : longer[i] = path[i]
      /\ longer[Len(path) + 1] = name
  BY Appended
<1>2. Len(path) # 0
  <2>1. PICK S : path \in Seq(S)
    BY DEF IsSequence
  <2> QED
    BY <2>1, EmptySeq
<1>3. longer[1] = path[1]
  BY <1>1, <1>2
<1> HIDE DEF longer
<1>4. Spelled(longer, Len(path) + 1) =
        IF path[1] = "doc" /\ LastChar(name) = "*" THEN WithoutLastChar(name) ELSE name
  BY <1>1, <1>3 DEF Spelled
<1>5. \A i \in 1 .. Len(path) : Spelled(longer, i) = Spelled(path, i)
  BY <1>1, <1>3 DEF Spelled
<1>6. ASSUME NEW first \in Nat \ {0}, NEW last \in 0 .. Len(path)
      PROVE  PathId(longer, first, last) = PathId(path, first, last)
  <2>1. last \in Nat /\ \A i \in 1 .. last : Spelled(longer, i) = Spelled(path, i)
    BY <1>1, <1>5
  <2> QED
    BY <2>1, PathIdKept
<1>7. Behind(path) \subseteq 2 .. Len(path) + 1
  BY <1>1, <1>2 DEF Behind
<1>8. Behind(path) \subseteq Behind(longer)
  <2>1. CASE path[1] = "doc"
    BY <1>3, <2>1 DEF Behind
  <2>2. CASE path[1] # "doc"
    <3>1. \A j \in DOMAIN path : j \in DOMAIN longer /\ longer[j] = path[j]
      BY <1>1
    <3> QED
      BY <1>3, <2>2, <3>1 DEF Behind
  <2> QED
    BY <2>1, <2>2
<1>9. path[1] # "doc" /\ name = "postings" => Len(path) + 2 \in Behind(longer)
  <2> SUFFICES ASSUME path[1] # "doc", name = "postings"
               PROVE  Len(path) + 2 \in Behind(longer)
    OBVIOUS
  <2>1. /\ Len(path) + 1 \in {j \in DOMAIN longer : longer[j] = "postings"}
        /\ Len(path) + 2 = (Len(path) + 1) + 1
    BY <1>1
  <2> QED
    BY <1>3, <2>1 DEF Behind
<1> QED
  BY <1>3, <1>4, <1>6, <1>7, <1>8, <1>9 DEF longer

-----------------------------------------------------------------------------
(* What a page opens                                                       *)

\* A page of the same document as p, or of none, that keeps no path.
Ordinary(p, q) ==
    /\ DOMAIN q = DOMAIN Blank /\ q.docno \in {0, p.docno}
    /\ q.kind \notin {"storage", "docs", "increment", "term", "postings"}

LEMMA BlankMeans ==
    /\ DOMAIN Blank = {"kind", "of", "docno", "id", "type", "value", "pos", "size", "complete", "items"}
    /\ Blank.kind = "null" /\ Blank.docno = 0
BY DEF Blank

\* The pages of terms and of documents that have none of their names yet.
FirstTerm(name, q) == name = "term" /\ q = TermPage("", "")
FirstDoc(name, q)  == name = "doc" /\ q = DocidPage("", TRUE)

\* A document named by its number, by the beginning of its id, and by its id.
ByNumber(st, name, q) ==
    /\ StartsWith(name, "_") /\ Docno(name) # 0
    /\ q = DocumentPage(GetDocidFromDocno(st, Docno(name)), Docno(name))
ByPrefix(id, q) == LastChar(id) = "*" /\ q = DocidPage(WithoutLastChar(id), FALSE)
ById(st, id, q) ==
    /\ LastChar(id) # "*"
    /\ \/ DocumentNumber(st, id) # 0 /\ q = DocumentPage(id, DocumentNumber(st, id))
       \/ q = DocidPage(id, TRUE)

LEMMA NoPages == ~IsPage(Null) /\ ~IsPage(NotFound) /\ ~IsPage(Invalid)
BY DEF Null, NotFound, Invalid, IsPage, Blank

LEMMA OrdinaryPages ==
    ASSUME NEW p, NEW x
    PROVE  /\ Ordinary(p, AtomicPage(x)) /\ Ordinary(p, KeyValuesPage(x))
           /\ Ordinary(p, FunctionListPage(x)) /\ Ordinary(p, FeatureValuePage(x))
           /\ Ordinary(p, FeatureTypeListPage(x))
BY DEF AtomicPage, KeyValuesPage, FunctionListPage, FeatureValuePage, FeatureTypeListPage, Ordinary, Blank

LEMMA OpenedStorage ==
    ASSUME NEW st, NEW p, NEW name, NEW q, q = OpenStorage(st, name), IsPage(q)
    PROVE  Ordinary(p, q) \/ FirstTerm(name, q) \/ FirstDoc(name, q)
<1>1. CASE name = "config"
  BY <1>1 DEF OpenStorage, ConfigPage, Ordinary, Blank
<1>2. CASE name \in {"diskusage", "blockstats"}
  BY <1>2 DEF OpenStorage, AtomicPage, Ordinary, Blank
<1>3. CASE name \in {"nofdocs", "maxdocno"}
  BY <1>3 DEF OpenStorage, Number, AtomicPage, Ordinary, Blank
<1>4. CASE name \in {"user", "termtype", "termvalue"}
  BY <1>4 DEF OpenStorage, ValuesPage, Ordinary, Blank
<1>5. CASE name = "attribute"
  BY <1>5 DEF OpenStorage, StructurePage, Ordinary, Blank
<1>6. CASE name \in {"metadata", "statistics"}
  BY <1>6 DEF OpenStorage, PageOf, Invalid, IsPage, Ordinary, Blank
<1>7. CASE name \in {"term", "doc"}
  BY <1>7 DEF OpenStorage, FirstTerm, FirstDoc
<1>8. CASE name \notin {"config", "diskusage", "blockstats", "nofdocs", "maxdocno", "user", "termtype",
                        "termvalue", "attribute", "metadata", "statistics", "term", "doc"}
  BY <1>8 DEF OpenStorage, Null, IsPage, Blank
<1> QED
  BY <1>1, <1>2, <1>3, <1>4, <1>5, <1>6, <1>7, <1>8

LEMMA OpenedStatistics ==
    ASSUME NEW p, NEW name, NEW q, q = OpenStatistics(name), IsPage(q)
    PROVE  Ordinary(p, q) \/ q = IncrementPage
BY DEF OpenStatistics, StructurePage, Null, IsPage, Ordinary, Blank

LEMMA OpenedTerm ==
    ASSUME NEW st, NEW p, NEW name, NEW q, q = OpenTerm(st, p, name), IsPage(q)
    PROVE  \/ Ordinary(p, q)
           \/ \E type, value : q = TermPage(type, value)
           \/ name = "postings" /\ q = TermPostingsPage(p, "", 0)
<1>1. CASE p.type = "" \/ p.value = ""
  BY <1>1, Zenon DEF OpenTerm
<1>2. CASE ~(p.type = "" \/ p.value = "") /\ name = "df"
  BY <1>2 DEF OpenTerm, Number, AtomicPage, Ordinary, Blank
<1>3. CASE ~(p.type = "" \/ p.value = "") /\ name = "postings"
  BY <1>3 DEF OpenTerm
<1>4. CASE ~(p.type = "" \/ p.value = "") /\ name \notin {"df", "postings"}
  BY <1>4 DEF OpenTerm, NotFound, IsPage, Blank
<1> QED
  BY <1>1, <1>2, <1>3, <1>4

LEMMA OpenedPostings ==
    ASSUME NEW st, NEW p, NEW name, NEW q, q = OpenTermPostings(st, p, name), IsPage(q)
    PROVE  \/ Ordinary(p, q)
           \/ /\ p.docno = 0 /\ p.id = "" /\ StartsWith(name, "_") /\ Docno(name) # 0
              /\ q = TermPostingsPage(p, GetDocidFromDocno(st, Docno(name)), Docno(name))
           \/ /\ p.docno = 0
              /\ q = TermPostingsPage(p, Extended(p.id, name), DocumentNumber(st, Extended(p.id, name)))
<1>1. CASE p.docno # 0
  <2>1. q = OpenPostingsOf(st, p, name)
    BY <1>1 DEF OpenTermPostings
  <2>2. CASE name = "pos"
    BY <2>1, <2>2 DEF OpenPostingsOf, StructurePage, Ordinary, Blank
  <2>3. CASE name \in {"frequency", "docno"}
    BY <2>1, <2>3 DEF OpenPostingsOf, Number, AtomicPage, Ordinary, Blank
  <2>4. CASE name = "docid"
    BY <2>1, <2>4 DEF OpenPostingsOf, AtomicPage, Ordinary, Blank
  <2>5. CASE name \notin {"pos", "frequency", "docno", "docid"}
    BY <2>1, <2>5 DEF OpenPostingsOf, NotFound, IsPage, Blank
  <2> QED
    BY <2>2, <2>3, <2>4, <2>5
<1>2. CASE p.docno = 0
  <2>1. q = OpenPostingsBelow(st, p, name)
    BY <1>2 DEF OpenTermPostings
  <2>2. CASE p.id = "" /\ StartsWith(name, "_")
    BY <1>2, <2>1, <2>2 DEF OpenPostingsBelow, Invalid, IsPage, Blank
  <2>3. CASE ~(p.id = "" /\ StartsWith(name, "_"))
    BY <1>2, <2>1, <2>3 DEF OpenPostingsBelow, NotFound, IsPage, Blank
  <2> QED
    BY <2>2, <2>3
<1> QED
  BY <1>1, <1>2

LEMMA OpenedDocid ==
    ASSUME NEW st, NEW p, NEW name, NEW q, q = OpenDocid(st, p, name), IsPage(q)
    PROVE  /\ name # ""
           /\ \/ ByNumber(st, name, q)
              \/ ByPrefix(Extended(p.id, name), q)
              \/ ById(st, Extended(p.id, name), q)
<1>1. CASE name = ""
  BY <1>1 DEF OpenDocid, Null, IsPage, Blank
<1>2. CASE name # "" /\ p.id = "" /\ StartsWith(name, "_")
  BY <1>2 DEF OpenDocid, Invalid, IsPage, Blank, ByNumber
<1>3. CASE name # "" /\ ~(p.id = "" /\ StartsWith(name, "_"))
  BY <1>3 DEF OpenDocid, NotFound, IsPage, Blank, ByPrefix, ById
<1> QED
  BY <1>1, <1>2, <1>3

LEMMA OpenedDocument ==
    ASSUME NEW p, NEW name, NEW q, q = OpenDocument(p, name), IsPage(q)
    PROVE  Ordinary(p, q)
<1>1. CASE name = "docno"
  BY <1>1 DEF OpenDocument, Number, AtomicPage, Ordinary, Blank
<1>2. CASE name \in {"attribute", "metadata"}
  BY <1>2 DEF OpenDocument, AttributePage, MetaDataPage, Ordinary, Blank
<1>3. CASE name \in {"sindex", "findex"}
  BY <1>3 DEF OpenDocument, SearchIndexPage, ForwardIndexPage, Ordinary, Blank
<1>4. CASE name = "access"
  BY <1>4 DEF OpenDocument, ValuesPage, Ordinary, Blank
<1>5. CASE name \notin {"docno", "attribute", "metadata", "sindex", "findex", "access"}
  BY <1>5 DEF OpenDocument, Null, IsPage, Blank
<1> QED
  BY <1>1, <1>2, <1>3, <1>4, <1>5

LEMMA OpenedOfDocument ==
    ASSUME NEW st, NEW p, DOMAIN p = DOMAIN Blank, NEW name, NEW q, IsPage(q),
           \/ q = OpenAttribute(st, p, name) \/ q = OpenMetaData(st, p, name)
           \/ q = OpenForwardIndex(p, name) \/ q = OpenSearchIndex(p, name)
           \/ q = OpenDocumentPostings(p, name)
    PROVE  Ordinary(p, q)
<1>1. CASE q = OpenAttribute(st, p, name)
  <2>1. q = Null \/ \E text : q = AtomicPage(text)
    BY <1>1, Zenon DEF OpenAttribute
  <2> QED
    BY <2>1, NoPages, OrdinaryPages, Zenon
<1>2. CASE q = OpenMetaData(st, p, name)
  <2>1. q = Null \/ \E text : q = AtomicPage(text)
    BY <1>2, Zenon DEF OpenMetaData
  <2> QED
    BY <2>1, NoPages, OrdinaryPages, Zenon
<1>3. CASE q = OpenForwardIndex(p, name)
  <2>1. \/ q = Invalid \/ q = ForwardIndexListPage(p)
        \/ \E type, pos, size : q = ForwardIndexPage(p.docno, type, pos, size)
    BY <1>3, Zenon DEF OpenForwardIndex
  <2>2. CASE q = Invalid
    BY <2>2 DEF Invalid, IsPage, Blank
  <2>3. CASE q = ForwardIndexListPage(p)
    <3>1. q = [p EXCEPT !.kind = "findexlist"]
      BY <2>3 DEF ForwardIndexListPage
    <3>2. DOMAIN q = DOMAIN Blank /\ q.docno = p.docno /\ q.kind = "findexlist"
      BY <3>1, BlankMeans
    <3> QED
      BY <3>2 DEF Ordinary
  <2>4. CASE \E type, pos, size : q = ForwardIndexPage(p.docno, type, pos, size)
    BY <2>4 DEF ForwardIndexPage, Ordinary, Blank
  <2> QED
    BY <2>1, <2>2, <2>3, <2>4
<1>4. CASE q = OpenSearchIndex(p, name)
  BY <1>4 DEF OpenSearchIndex, SearchIndexPage, DocumentPostingsPage, Ordinary, Blank
<1>5. CASE q = OpenDocumentPostings(p, name)
  BY <1>5 DEF OpenDocumentPostings, DocumentPostingsPage, Invalid, NotFound, IsPage, Ordinary, Blank
<1> QED
  BY <1>1, <1>2, <1>3, <1>4, <1>5

LEMMA OpenedOfLists ==
    ASSUME NEW p, DOMAIN p = DOMAIN Blank, NEW name, NEW q, IsPage(q),
           \/ q = OpenConfig(p, name) \/ q = OpenKeyValue(p, name) \/ q = OpenMetaDataTable(name)
           \/ p.kind = "values" /\ q = OpenValues(p, name)
           \/ q = OpenIncrement(name)
    PROVE  Ordinary(p, q)
<1>1. CASE q = OpenConfig(p, name)
  <2>1. q = Null \/ (\E items : q = KeyValuesPage(items)) \/ (\E text : q = AtomicPage(text))
    BY <1>1, Zenon DEF OpenConfig
  <2> QED
    BY <2>1, NoPages, OrdinaryPages, Zenon
<1>2. CASE q = OpenKeyValue(p, name)
  <2>1. q = Null \/ \E items : q = [Blank EXCEPT !.kind = "atomic", !.items = items]
    BY <1>2, Zenon DEF OpenKeyValue
  <2>2. CASE q = Null
    BY <2>2, NoPages
  <2>3. CASE \E items : q = [Blank EXCEPT !.kind = "atomic", !.items = items]
    <3>1. PICK items : q = [Blank EXCEPT !.kind = "atomic", !.items = items]
      BY <2>3
    <3> QED
      BY <3>1 DEF Ordinary, Blank
  <2> QED
    BY <2>1, <2>2, <2>3
<1>3. CASE q = OpenMetaDataTable(name)
  BY <1>3 DEF OpenMetaDataTable, AtomicPage, Null, IsPage, Ordinary, Blank
<1>4. CASE p.kind = "values" /\ q = OpenValues(p, name)
  <2>1. q = Null \/ q = [p EXCEPT !.id = name]
    BY <1>4 DEF OpenValues
  <2>2. CASE q = [p EXCEPT !.id = name]
    <3>1. DOMAIN q = DOMAIN Blank /\ q.docno = p.docno /\ q.kind = "values"
      BY <1>4, <2>2, BlankMeans
    <3> QED
      BY <3>1 DEF Ordinary
  <2>3. CASE q = Null
    BY <2>3 DEF Null, IsPage, Blank
  <2> QED
    BY <2>1, <2>2, <2>3
<1>5. CASE q = OpenIncrement(name)
  BY <1>5 DEF OpenIncrement, StructurePage, Null, IsPage, Ordinary, Blank
<1> QED
  BY <1>1, <1>2, <1>3, <1>4, <1>5

LEMMA OpenedOfContext ==
    ASSUME NEW p, NEW name, NEW q, IsPage(q),
           \/ q = OpenVectorStorage(name) \/ q = OpenContext(name) \/ q = OpenEnvironment(name)
           \/ (\E of : q = OpenProcessor(of, name)) \/ q = OpenFunction(p, name)
           \/ q = OpenFeatureValue(p, name) \/ q = OpenFeatureType(p, name)
    PROVE  Ordinary(p, q)
<1>1. CASE q = OpenVectorStorage(name)
  BY <1>1 DEF OpenVectorStorage, ConfigPage, AtomicPage, FeatureValuePage, Null, IsPage, Ordinary, Blank
<1>2. CASE q = OpenContext(name)
  BY <1>2 DEF OpenContext, AtomicPage, ConfigPage, PageOf, Null, IsPage, Ordinary, Blank
<1>3. CASE q = OpenEnvironment(name)
  BY <1>3 DEF OpenEnvironment, StructurePage, AtomicPage, Null, IsPage, Ordinary, Blank
<1>4. CASE \E of : q = OpenProcessor(of, name)
  <2>1. q = FunctionListPage(name) \/ q = Null
    BY <1>4 DEF OpenProcessor
  <2> QED
    BY <2>1, NoPages, OrdinaryPages, Zenon
<1>5. CASE q = OpenFunction(p, name)
  BY <1>5 DEF OpenFunction, Ordinary, Blank
<1>6. CASE q = OpenFeatureValue(p, name)
  <2>1. \/ q = Null \/ q = NotFound \/ (\E prefix : q = FeatureValuePage(prefix))
        \/ q = FeatureTypeListPage(name)
    BY <1>6, Zenon DEF OpenFeatureValue
  <2> QED
    BY <2>1, NoPages, OrdinaryPages, Zenon
<1>7. CASE q = OpenFeatureType(p, name)
  BY <1>7 DEF OpenFeatureType, StructurePage, NotFound, IsPage, Ordinary, Blank
<1> QED
  BY <1>1, <1>2, <1>3, <1>4, <1>5, <1>6, <1>7

LEMMA OpenedPage ==
    ASSUME NEW st, NEW p, DOMAIN p = DOMAIN Blank, NEW name, NEW q, q = OpenPage(st, p, name), IsPage(q)
    PROVE  \/ Ordinary(p, q)
           \/ p.kind = "storage" /\ q = OpenStorage(st, name)
           \/ p.kind = "statistics" /\ q = OpenStatistics(name)
           \/ p.kind = "term" /\ q = OpenTerm(st, p, name)
           \/ p.kind = "postings" /\ q = OpenTermPostings(st, p, name)
           \/ p.kind = "docs" /\ q = OpenDocid(st, p, name)
<1> DEFINE Documents == {"attributes", "metadata", "findex", "sindex", "docpostings"}
           Listings  == {"config", "keyvalues", "metatable", "values", "increment"}
           Contexts  == {"vstorage", "context", "env", "textproc", "queryproc", "functions", "features", "feature"}
           Others    == {"storage", "statistics", "term", "postings", "docs"}
<1>1. CASE p.kind \in Documents
  <2>1. \/ q = OpenAttribute(st, p, name) \/ q = OpenMetaData(st, p, name)
        \/ q = OpenForwardIndex(p, name) \/ q = OpenSearchIndex(p, name)
        \/ q = OpenDocumentPostings(p, name)
    BY <1>1 DEF OpenPage
  <2> QED
    BY <2>1, OpenedOfDocument
<1>2. CASE p.kind \in Listings
  <2>1. \/ q = OpenConfig(p, name) \/ q = OpenKeyValue(p, name) \/ q = OpenMetaDataTable(name)
        \/ p.kind = "values" /\ q = OpenValues(p, name)
        \/ q = OpenIncrement(name)
    BY <1>2 DEF OpenPage
  <2> QED
    BY <2>1, OpenedOfLists
<1>3. CASE p.kind \in Contexts
  <2>1. \/ q = OpenVectorStorage(name) \/ q = OpenContext(name) \/ q = OpenEnvironment(name)
        \/ q = OpenProcessor(TextFunctions, name) \/ q = OpenProcessor(QueryFunctions, name)
        \/ q = OpenFunction(p, name)
        \/ q = OpenFeatureValue(p, name) \/ q = OpenFeatureType(p, name)
    BY <1>3 DEF OpenPage
  <2> QED
    BY <2>1, OpenedOfContext
<1>4. CASE p.kind \in Others
  BY <1>4 DEF OpenPage
<1>5. CASE p.kind = "document"
  <2>1. q = OpenDocument(p, name)
    BY <1>5 DEF OpenPage
  <2> QED
    BY <2>1, OpenedDocument
<1>6. CASE p.kind \notin Documents \cup Listings \cup Contexts \cup Others \cup {"document"}
  <2>1. q = Null
    BY <1>6 DEF OpenPage
  <2> QED
    BY <2>1, NoPages, OrdinaryPages, Zenon
<1> QED
  BY <1>1, <1>2, <1>3, <1>4, <1>5, <1>6

-----------------------------------------------------------------------------
(* The page of a request                                                   *)

\* The page of a document is of one that was asked for, or of one that is gone.
OfDocument(st, path, docno) ==
    /\ docno \in Nat
    /\ docno # 0 =>
         /\ path # << >>
         /\ \/ NamedByNumber(path, docno)
            \/ docno <= st.last /\ (docno \in DOMAIN st.docs => NamedById(path, st.docs[docno].id))

\* What a page knows of the path to it.
PageFits(st, path, p) ==
    /\ DOMAIN p = DOMAIN Blank
    /\ p.kind = "storage" => path = << >>
    /\ p.kind = "increment" => p.items = InOrder(TimeStamps)
    /\ p.kind = "term" => path # << >> /\ path[1] = "term"
    /\ p.kind = "docs" =>
         /\ path # << >> /\ path[1] = "doc"
         /\ p.id \in Text /\ p.complete \in BOOLEAN /\ p.id = PathId(path, 2, Len(path))
    /\ p.kind = "postings" /\ p.docno = 0 =>
         /\ path # << >> /\ path[1] = "term"
         /\ p.id \in Text /\ \E first \in Behind(path) : p.id = PathId(path, first, Len(path))
    /\ OfDocument(st, path, p.docno)

LEMMA NumberOfDocument ==
    ASSUME StorageInv, NEW id, DocumentNumber(storage, id) # 0
    PROVE  LET n == DocumentNumber(storage, id) IN
           /\ n \in DOMAIN storage.docs /\ storage.docs[n].id = id
           /\ n \in Nat \ {0} /\ n <= storage.last
<1> DEFINE found == {d \in DOMAIN storage.docs : storage.docs[d].id = id}
           n == DocumentNumber(storage, id)
<1>1. n \in found
  BY DEF DocumentNumber
<1>2. n \in 1 .. storage.last /\ storage.last \in Nat
  BY <1>1, BoundAssumption DEF StorageInv
<1> HIDE DEF n
<1>3. n \in Nat \ {0} /\ n <= storage.last
  BY <1>2
<1> QED
  BY <1>1, <1>3 DEF n

LEMMA NumberNamed ==
    ASSUME NEW name \in Text, StartsWith(name, "_"), Docno(name) # 0
    PROVE  Docno(name) \in Nat /\ name = "_" \o ToString(Docno(name))
<1> DEFINE rest == After(name, 1)
           n    == {i \in 1 .. Len(Characters) : ToString(i) = rest}
<1>1. "_" \o rest = name
  BY SlashText, PrefixAndRest
<1> HIDE DEF rest
<1>2. PICK i : i = Docno(name) /\ i \in n
  BY DEF Docno, ParseIndex, rest
<1>3. i \in 1 .. Len(Characters) /\ ToString(i) = rest
  BY <1>2, Zenon
<1>4. i \in 1 .. Len(Characters)
  BY <1>3
<1>5. i \in Nat
  BY ONLY <1>4
<1> QED
  BY <1>1, <1>2, <1>3, <1>5

\* The path goes on where the page goes on.
LEMMA ExtendedPath ==
    ASSUME NEW path, IsSequence(path), path # << >>, NEW first \in Behind(path),
           NEW id \in Text, id = PathId(path, first, Len(path)), NEW name,
           Spelled(Append(path, name), Len(path) + 1) \in Text
    PROVE  LET longer == Append(path, name) IN
           PathId(longer, first, Len(path) + 1) = Extended(id, Spelled(longer, Len(path) + 1))
<1> DEFINE longer == Append(path, name)
           end    == Spelled(longer, Len(path) + 1)
<1>0. Len(path) \in Nat /\ first \in Nat \ {0} /\ first <= Len(path) + 1
  BY PathAppended, Appended
<1>1. PathId(longer, first, Len(path)) = id
  BY <1>0, PathAppended
<1> HIDE DEF longer
<1>2. PathId(longer, first, Len(path) + 1) = SpelledOn(id, longer, first, Len(path) + 1)
  BY <1>0, <1>1, PathIdStep
<1>3. ~(Len(path) + 1 < first)
  BY <1>0
<1>8. PathId(longer, first, Len(path) + 1) = id \o (IF id = "" THEN "" ELSE "/") \o end
  BY <1>2, <1>3 DEF SpelledOn, longer
<1>4. end \in Text
  BY DEF longer
<1> HIDE DEF end
<1>5. "" \o "" \o end = end
  BY <1>4, EmptyText
<1>6. CASE id = ""
  BY <1>8, <1>5, <1>6 DEF Extended, end, longer
<1>7. CASE id # ""
  BY <1>8, <1>7 DEF Extended, end, longer
<1> QED
  BY <1>6, <1>7

LEMMA CharOf ==
    ASSUME NEW t \in Text, NEW i \in 1 .. Len(t)
    PROVE  CharAt(t, i) \in Text /\ Len(CharAt(t, i)) = 1 /\ CharAt(t, i)[1] = t[i]
<1>0. Len(t) \in Nat
  BY DEF Text
<1>1. /\ SubSeq(t, i, i) \in Text /\ Len(SubSeq(t, i, i)) = 1
      /\ SubSeq(t, i, i)[1] = t[i]
  BY <1>0, Parts_
<1> QED
  BY <1>1 DEF CharAt

LEMMA Shortened ==
    ASSUME NEW t \in Text, Len(t) # 0
    PROVE  /\ WithoutLastChar(t) \in Text /\ Len(t) \in Nat \ {0} /\ Len(WithoutLastChar(t)) = Len(t) - 1
           /\ \A i \in 1 .. Len(t) - 1 : WithoutLastChar(t)[i] = t[i]
<1>1. PICK k : k = Len(t)
  OBVIOUS
<1>2. k \in Nat
  BY <1>1 DEF Text
<1>3. k # 0
  BY <1>1
<1>4. 1 \in Nat \ {0} /\ k - 1 \in Int /\ k - 1 <= Len(t) /\ (IF 1 <= k - 1 THEN k - 1 - 1 + 1 ELSE 0) = k - 1
      /\ k - 1 - 1 + 1 = k - 1
  BY <1>1, <1>2, <1>3
<1>5. /\ SubSeq(t, 1, k - 1) \in Text
      /\ Len(SubSeq(t, 1, k - 1)) = IF 1 <= k - 1 THEN k - 1 - 1 + 1 ELSE 0
      /\ \A i \in 1 .. k - 1 - 1 + 1 : SubSeq(t, 1, k - 1)[i] = t[1 + i - 1]
  BY <1>4, Parts_
<1>6. \A i \in 1 .. k - 1 : SubSeq(t, 1, k - 1)[i] = t[i]
  <2> TAKE i \in 1 .. k - 1
  <2>1. 1 + i - 1 = i
    OBVIOUS
  <2> QED
    BY <1>4, <1>5, <2>1
<1> QED
  BY <1>1, <1>2, <1>3, <1>4, <1>5, <1>6 DEF WithoutLastChar

\* What is joined ends like its last part.
LEMMA EndOfJoined ==
    ASSUME NEW a \in Text, NEW b \in Text, Len(b) # 0
    PROVE  /\ a \o b \in Text /\ a \o b # ""
           /\ LastChar(a \o b) = LastChar(b)
           /\ WithoutLastChar(a \o b) = a \o WithoutLastChar(b)
<1>1. PICK m : m = Len(a)
  OBVIOUS
<1>2. PICK k : k = Len(b)
  OBVIOUS
<1>3. PICK t : t = a \o b
  OBVIOUS
<1>4. /\ t \in Text /\ m \in Nat /\ k \in Nat /\ Len(t) = m + k
      /\ \A i \in 1 .. m : t[i] = a[i]
      /\ \A i \in 1 .. k : t[m + i] = b[i]
  BY <1>1, <1>2, <1>3, Concat
<1>5. k # 0
  BY <1>2
<1>6. m + k # 0
  BY <1>4, <1>5
<1>7. t # ""
  BY <1>4, <1>6, EmptyText
<1>8. LastChar(t) = LastChar(b)
  <2>1. m + k \in 1 .. Len(t) /\ k \in 1 .. Len(b) /\ k \in 1 .. k
    BY <1>2, <1>4, <1>5
  <2>2. CharAt(t, m + k) \in Text /\ Len(CharAt(t, m + k)) = 1 /\ CharAt(t, m + k)[1] = t[m + k]
    BY <1>4, <2>1, CharOf
  <2>3. CharAt(b, k) \in Text /\ Len(CharAt(b, k)) = 1 /\ CharAt(b, k)[1] = b[k]
    BY <2>1, CharOf
  <2>4. t[m + k] = b[k]
    BY <1>4, <2>1
  <2>5. \A i \in 1 .. Len(CharAt(t, m + k)) : CharAt(t, m + k)[i] = CharAt(b, k)[i]
    BY <2>2, <2>3, <2>4
  <2>6. CharAt(t, m + k) = CharAt(b, k)
    BY <2>2, <2>3, <2>5, TextsEqual
  <2> QED
    BY <1>2, <1>4, <1>5, <1>7, <2>6, EmptyText DEF LastChar
<1>9. PICK w : w = WithoutLastChar(t)
  OBVIOUS
<1>10. PICK v : v = WithoutLastChar(b)
  OBVIOUS
<1>11. w \in Text /\ Len(w) = m + k - 1 /\ \A i \in 1 .. m + k - 1 : w[i] = t[i]
  BY <1>4, <1>6, <1>9, Shortened
<1>12. v \in Text /\ Len(v) = k - 1 /\ \A i \in 1 .. k - 1 : v[i] = b[i]
  BY <1>2, <1>10, Shortened
<1>13. /\ a \o v \in Text /\ Len(a \o v) = m + (k - 1)
       /\ \A i \in 1 .. m : (a \o v)[i] = a[i]
       /\ \A i \in 1 .. k - 1 : (a \o v)[m + i] = v[i]
  <2>1. /\ a \o v \in Text /\ Len(a \o v) = Len(a) + Len(v)
        /\ \A i \in 1 .. Len(a) : (a \o v)[i] = a[i]
        /\ \A i \in 1 .. Len(v) : (a \o v)[Len(a) + i] = v[i]
    BY <1>12, Concat
  <2> QED
    BY <1>1, <1>12, <2>1
<1>14. ASSUME NEW i \in 1 .. m + k - 1
       PROVE  w[i] = (a \o v)[i]
  <2>1. CASE i <= m
    <3>1. i \in 1 .. m
      BY <1>4, <2>1
    <3> QED
      BY <1>4, <1>11, <1>13, <3>1
  <2>2. CASE ~(i <= m)
    <3>1. i - m \in 1 .. k - 1 /\ i - m \in 1 .. k /\ m + (i - m) = i
      BY <1>4, <2>2
    <3>2. t[i] = b[i - m]
      BY <1>4, <3>1
    <3>3. (a \o v)[i] = v[i - m]
      BY <1>13, <3>1
    <3> QED
      BY <1>11, <1>12, <3>1, <3>2, <3>3
  <2> QED
    BY <2>1, <2>2
<1>15. m + (k - 1) = m + k - 1
  BY <1>4
<1>16. w = a \o v
  BY <1>11, <1>13, <1>14, <1>15, TextsEqual
<1> QED
  BY <1>3, <1>4, <1>7, <1>8, <1>9, <1>10, <1>16

LEMMA ExtendedText ==
    ASSUME NEW id \in Text, NEW name \in Text
    PROVE  /\ Extended(id, name) \in Text
           /\ name # "" => /\ Extended(id, name) # ""
                           /\ LastChar(Extended(id, name)) = LastChar(name)
                           /\ WithoutLastChar(name) \in Text
                           /\ WithoutLastChar(Extended(id, name)) = Extended(id, WithoutLastChar(name))
<1>0. name # "" => Len(name) # 0
  BY EmptyText
<1>1. name # "" => WithoutLastChar(name) \in Text
  BY <1>0, Shortened
<1>2. CASE id = ""
  BY <1>1, <1>2 DEF Extended
<1>3. CASE id # ""
  <2>1. id \o "/" \in Text
    BY SlashText, Concat
  <2>2. (id \o "/") \o name \in Text
    BY <2>1, Concat
  <2>3. name # "" => /\ (id \o "/") \o name # ""
                     /\ LastChar((id \o "/") \o name) = LastChar(name)
                     /\ WithoutLastChar((id \o "/") \o name) = (id \o "/") \o WithoutLastChar(name)
    BY <1>0, <2>1, EndOfJoined
  <2> QED
    BY <1>1, <1>3, <2>2, <2>3 DEF Extended
<1> QED
  BY <1>2, <1>3

-----------------------------------------------------------------------------
(* The page a page opens fits the path that goes on                        *)

LEMMA LongerPath ==
    ASSUME NEW path, IsSequence(path), NEW name
    PROVE  LET longer == Append(path, name) IN
           /\ IsSequence(longer) /\ longer # << >> /\ Len(path) \in Nat
           /\ Len(longer) = Len(path) + 1 /\ longer[Len(path) + 1] = name
           /\ path = << >> => Len(path) = 0 /\ longer[1] = name
<1> DEFINE longer == Append(path, name)
<1>1. /\ IsSequence(longer) /\ Len(path) \in Nat
      /\ Len(longer) = Len(path) + 1 /\ longer[Len(path) + 1] = name
  BY Appended
<1>2. path = << >> => Len(path) = 0
  OBVIOUS
<1> HIDE DEF longer
<1>3. path = << >> => longer[1] = name
  BY <1>1, <1>2
<1>4. longer # << >>
  <2> SUFFICES ASSUME longer = << >>
               PROVE  FALSE
    OBVIOUS
  <2>1. Len(longer) = 0
    OBVIOUS
  <2> QED
    BY <1>1, <2>1
<1> QED
  BY <1>1, <1>2, <1>3, <1>4 DEF longer

\* What was asked for on a path was asked for on a longer one.
LEMMA StillAsked ==
    ASSUME NEW path, IsSequence(path), path # << >>, NEW name
    PROVE  /\ \A docno : NamedByNumber(path, docno) => NamedByNumber(Append(path, name), docno)
           /\ \A id : NamedById(path, id) => NamedById(Append(path, name), id)
<1> DEFINE longer == Append(path, name)
<1>1. /\ Behind(path) \subseteq Behind(longer) /\ Behind(path) \subseteq 2 .. Len(path) + 1
      /\ \A first \in Nat \ {0}, last \in 0 .. Len(path) :
           PathId(longer, first, last) = PathId(path, first, last)
  BY PathAppended
<1>2. /\ Len(path) \in Nat /\ Len(longer) = Len(path) + 1
      /\ \A i \in 1 .. Len(path) : longer[i] = path[i]
  BY Appended
<1> HIDE DEF longer
<1>3. ASSUME NEW docno, NamedByNumber(path, docno)
      PROVE  NamedByNumber(longer, docno)
  <2>1. PICK first \in Behind(path) : \E i \in first .. Len(path) : path[i] = "_" \o ToString(docno)
    BY <1>3, Zenon DEF NamedByNumber
  <2>2. PICK i \in first .. Len(path) : path[i] = "_" \o ToString(docno)
    BY <2>1, Zenon
  <2>3. first \in 2 .. Len(path) + 1
    BY <1>1
  <2>4. i \in 1 .. Len(path) /\ i \in first .. Len(longer)
    BY ONLY <1>2, <2>3, i \in first .. Len(path)
  <2>5. longer[i] = "_" \o ToString(docno)
    BY <1>2, <2>2, <2>4, Zenon
  <2> QED
    BY <1>1, <2>4, <2>5, Zenon DEF NamedByNumber
<1>4. ASSUME NEW id, NamedById(path, id)
      PROVE  NamedById(longer, id)
  <2>1. PICK first \in Behind(path) : \E last \in first .. Len(path) : PathId(path, first, last) = id
    BY <1>4 DEF NamedById
  <2>2. PICK last \in first .. Len(path) : PathId(path, first, last) = id
    BY <2>1
  <2>3. first \in 2 .. Len(path) + 1
    BY <1>1
  <2>4. first \in Nat \ {0} /\ last \in 0 .. Len(path) /\ last \in first .. Len(longer)
    BY <1>2, <2>3
  <2>5. PathId(longer, first, last) = id
    BY <1>1, <2>2, <2>4
  <2> QED
    BY <1>1, <2>4, <2>5 DEF NamedById
<1> QED
  BY <1>3, <1>4 DEF longer

LEMMA OrdinaryFits ==
    ASSUME NEW st, NEW path, IsSequence(path), NEW p, PageFits(st, path, p), NEW name,
           NEW q, Ordinary(p, q)
    PROVE  PageFits(st, Append(path, name), q)
<1> DEFINE longer == Append(path, name)
<1>1. longer # << >>
  BY LongerPath
<1>2. OfDocument(st, path, p.docno)
  BY DEF PageFits
<1>3. OfDocument(st, longer, p.docno)
  <2>1. CASE p.docno = 0
    BY <1>2, <2>1 DEF OfDocument
  <2>2. CASE p.docno # 0
    <3>1. path # << >>
      BY <1>2, <2>2 DEF OfDocument
    <3>2. /\ \A docno : NamedByNumber(path, docno) => NamedByNumber(longer, docno)
          /\ \A id : NamedById(path, id) => NamedById(longer, id)
      BY <3>1, StillAsked
    <3> QED
      BY <1>1, <1>2, <2>2, <3>2 DEF OfDocument
  <2> QED
    BY <2>1, <2>2
<1>4. OfDocument(st, longer, 0)
  BY DEF OfDocument
<1>5. OfDocument(st, longer, q.docno)
  <2>1. q.docno = 0 \/ q.docno = p.docno
    BY DEF Ordinary
  <2> QED
    BY <1>3, <1>4, <2>1
<1> QED
  BY <1>5 DEF PageFits, Ordinary

LEMMA RootFits ==
    ASSUME NEW st, NEW root \in {"storage", "vstorage", "context"}
    PROVE  PageFits(st, << >>, PageOf(root))
<1>1. DOMAIN PageOf(root) = DOMAIN Blank /\ PageOf(root).kind = root /\ PageOf(root).docno = 0
  BY DEF PageOf, Blank
<1>2. OfDocument(st, << >>, 0)
  BY DEF OfDocument
<1> QED
  BY <1>1, <1>2 DEF PageFits

LEMMA TermFits ==
    ASSUME NEW st, NEW path, path # << >>, path[1] = "term", NEW type, NEW value
    PROVE  PageFits(st, path, TermPage(type, value))
<1>1. /\ DOMAIN TermPage(type, value) = DOMAIN Blank /\ TermPage(type, value).kind = "term"
      /\ TermPage(type, value).docno = 0
  BY DEF TermPage, Blank
<1>2. OfDocument(st, path, 0)
  BY DEF OfDocument
<1> QED
  BY <1>1, <1>2 DEF PageFits

LEMMA DocidFits ==
    ASSUME NEW st, NEW path, path # << >>, path[1] = "doc", NEW id \in Text, NEW complete \in BOOLEAN,
           id = PathId(path, 2, Len(path))
    PROVE  PageFits(st, path, DocidPage(id, complete))
<1> DEFINE q == DocidPage(id, complete)
<1>1. /\ DOMAIN q = DOMAIN Blank /\ q.kind = "docs" /\ q.docno = 0 /\ q.id = id /\ q.complete = complete
  BY DEF DocidPage, Blank
<1>2. OfDocument(st, path, 0)
  BY DEF OfDocument
<1> HIDE DEF q
<1> QED
  BY <1>1, <1>2 DEF PageFits, q

LEMMA DocumentFits ==
    ASSUME NEW st, NEW path, NEW id, NEW docno, OfDocument(st, path, docno)
    PROVE  PageFits(st, path, DocumentPage(id, docno))
<1> DEFINE q == DocumentPage(id, docno)
<1>1. DOMAIN q = DOMAIN Blank /\ q.kind = "document" /\ q.docno = docno
  BY DEF DocumentPage, Blank
<1> HIDE DEF q
<1> QED
  BY <1>1 DEF PageFits, q

LEMMA PostingsFit ==
    ASSUME NEW st, NEW path, NEW p, NEW id, NEW docno, OfDocument(st, path, docno),
           docno = 0 => /\ path # << >> /\ path[1] = "term" /\ id \in Text
                        /\ \E first \in Behind(path) : id = PathId(path, first, Len(path))
    PROVE  PageFits(st, path, TermPostingsPage(p, id, docno))
<1> DEFINE q == TermPostingsPage(p, id, docno)
<1>1. DOMAIN q = DOMAIN Blank /\ q.kind = "postings" /\ q.docno = docno /\ q.id = id
  BY DEF TermPostingsPage, Blank
<1> HIDE DEF q
<1> QED
  BY <1>1 DEF PageFits, q

LEMMA IncrementFits ==
    ASSUME NEW st, NEW path
    PROVE  PageFits(st, path, IncrementPage)
<1>1. /\ DOMAIN IncrementPage = DOMAIN Blank /\ IncrementPage.kind = "increment"
      /\ IncrementPage.docno = 0 /\ IncrementPage.items = InOrder(TimeStamps)
  BY DEF IncrementPage, Blank
<1>2. OfDocument(st, path, 0)
  BY DEF OfDocument
<1> QED
  BY <1>1, <1>2 DEF PageFits

LEMMA DocumentOfNumber ==
    ASSUME NEW path, IsSequence(path), path # << >>, NEW name \in Text,
           StartsWith(name, "_"), Docno(name) # 0, Behind(path) # {}
    PROVE  OfDocument(storage, Append(path, name), Docno(name))
<1> DEFINE longer == Append(path, name)
<1>1. Docno(name) \in Nat /\ name = "_" \o ToString(Docno(name))
  BY NumberNamed
<1>2. PICK first : first \in Behind(path)
  OBVIOUS
<1>3. /\ Behind(path) \subseteq Behind(longer) /\ Behind(path) \subseteq 2 .. Len(path) + 1
      /\ Len(longer) = Len(path) + 1 /\ longer[Len(path) + 1] = name /\ Len(path) \in Nat
      /\ longer # << >>
  BY PathAppended, LongerPath
<1> HIDE DEF longer
<1>4. first \in 2 .. Len(path) + 1
  BY <1>2, <1>3
<1>5. Len(path) + 1 \in first .. Len(longer)
  <2>1. Len(longer) = Len(path) + 1 /\ Len(path) \in Nat
    BY <1>3
  <2> QED
    BY ONLY <1>4, <2>1
<1>6. NamedByNumber(longer, Docno(name))
  BY <1>1, <1>2, <1>3, <1>5, Zenon DEF NamedByNumber
<1> QED
  BY <1>1, <1>3, <1>6, Zenon DEF OfDocument, longer

\* The document with the id the path spells.
LEMMA DocumentOfId ==
    ASSUME StorageInv, NEW path, IsSequence(path), path # << >>, NEW first \in Behind(path), NEW name,
           NEW id, id = PathId(Append(path, name), first, Len(path) + 1),
           DocumentNumber(storage, id) # 0
    PROVE  OfDocument(storage, Append(path, name), DocumentNumber(storage, id))
<1> DEFINE longer == Append(path, name)
<1>1. PICK n : n = DocumentNumber(storage, id)
  OBVIOUS
<1>2. /\ n \in DOMAIN storage.docs /\ storage.docs[n].id = id
      /\ n \in Nat \ {0} /\ n <= storage.last
  BY <1>1, NumberOfDocument
<1>3. /\ Behind(path) \subseteq Behind(longer) /\ Behind(path) \subseteq 2 .. Len(path) + 1
      /\ Len(longer) = Len(path) + 1 /\ Len(path) \in Nat /\ longer # << >>
  BY PathAppended, LongerPath
<1> HIDE DEF longer
<1>4. first \in 2 .. Len(path) + 1
  BY <1>3
<1>5. Len(path) + 1 \in first .. Len(longer)
  BY <1>3, <1>4
<1>6. NamedById(longer, id)
  BY <1>3, <1>5 DEF NamedById, longer
<1> QED
  BY <1>1, <1>2, <1>3, <1>6 DEF OfDocument, longer

-----------------------------------------------------------------------------
LEMMA StorageOpens ==
    ASSUME NEW st, NEW p, PageFits(st, << >>, p), NEW name,
           NEW q, q = OpenStorage(st, name), IsPage(q)
    PROVE  PageFits(st, Append(<< >>, name), q)
<1> DEFINE longer == Append(<< >>, name)
<1>0. IsSequence(<< >>)
  BY DEF IsSequence
<1>1. longer # << >> /\ longer[1] = name /\ Len(longer) = 1
  BY <1>0, LongerPath
<1>2. CASE Ordinary(p, q)
  BY <1>0, <1>2, OrdinaryFits
<1>3. CASE FirstTerm(name, q)
  BY <1>1, <1>3, TermFits DEF FirstTerm
<1>4. CASE FirstDoc(name, q)
  <2>1. PathId(longer, 2, 1) = ""
    <3>1. 2 \in Nat \ {0} /\ 1 \in Nat /\ 1 < 2
      OBVIOUS
    <3> QED
      BY <3>1, PathIdEmpty
  <2> QED
    BY <1>1, <1>4, <2>1, EmptyText, DocidFits DEF FirstDoc
<1> QED
  BY <1>2, <1>3, <1>4, OpenedStorage

LEMMA TermOpens ==
    ASSUME NEW st, NEW path, IsSequence(path), NEW p, PageFits(st, path, p), p.kind = "term", NEW name,
           NEW q, q = OpenTerm(st, p, name), IsPage(q)
    PROVE  PageFits(st, Append(path, name), q)
<1> DEFINE longer == Append(path, name)
<1>1. path # << >> /\ path[1] = "term"
  BY DEF PageFits
<1>2. /\ longer # << >> /\ longer[1] = "term" /\ Len(longer) = Len(path) + 1 /\ Len(path) \in Nat
      /\ name = "postings" => Len(path) + 2 \in Behind(longer)
  BY <1>1, LongerPath, PathAppended
<1>3. CASE Ordinary(p, q)
  BY <1>3, OrdinaryFits
<1>4. CASE \E type, value : q = TermPage(type, value)
  BY <1>2, <1>4, TermFits
<1>5. CASE name = "postings" /\ q = TermPostingsPage(p, "", 0)
  <2>1. PathId(longer, Len(path) + 2, Len(path) + 1) = ""
    <3>1. Len(path) + 2 \in Nat \ {0} /\ Len(path) + 1 \in Nat /\ Len(path) + 1 < Len(path) + 2
      BY <1>2
    <3> QED
      BY <3>1, PathIdEmpty
  <2>2. OfDocument(st, longer, 0)
    BY DEF OfDocument
  <2>3. "" \in Text
    BY EmptyText
  <2>4. \E first \in Behind(longer) : "" = PathId(longer, first, Len(longer))
    BY <1>2, <1>5, <2>1
  <2> HIDE DEF longer
  <2>5. PageFits(st, longer, TermPostingsPage(p, "", 0))
    BY <1>2, <2>2, <2>3, <2>4, PostingsFit
  <2> QED
    BY <1>5, <2>5 DEF longer
<1> QED
  BY <1>3, <1>4, <1>5, OpenedTerm

LEMMA PostingsOpen ==
    ASSUME StorageInv, NEW path, IsSequence(path), NEW p, PageFits(storage, path, p), p.kind = "postings",
           NEW name \in Text, NEW q, q = OpenTermPostings(storage, p, name), IsPage(q)
    PROVE  PageFits(storage, Append(path, name), q)
<1> DEFINE longer == Append(path, name)
           id     == Extended(p.id, name)
           docno  == DocumentNumber(storage, id)
<1>1. CASE Ordinary(p, q)
  BY <1>1, OrdinaryFits
<1>2. CASE p.docno = 0
  <2>1. PICK first \in Behind(path) : p.id = PathId(path, first, Len(path))
    BY <1>2 DEF PageFits
  <2>2. path # << >> /\ path[1] = "term" /\ p.id \in Text
    BY <1>2 DEF PageFits
  <2>3. /\ longer # << >> /\ longer[1] = "term" /\ Len(longer) = Len(path) + 1
        /\ Spelled(longer, Len(path) + 1) = name /\ first \in Behind(longer)
    BY <2>2, LongerPath, PathAppended
  <2>4. CASE /\ StartsWith(name, "_") /\ Docno(name) # 0
             /\ q = TermPostingsPage(p, GetDocidFromDocno(storage, Docno(name)), Docno(name))
    <3>1. OfDocument(storage, longer, Docno(name))
      BY <2>2, <2>4, DocumentOfNumber
    <3> QED
      BY <2>4, <3>1, PostingsFit
  <2>5. CASE q = TermPostingsPage(p, id, docno)
    <3>1. id = PathId(longer, first, Len(path) + 1)
      BY <2>1, <2>2, <2>3, ExtendedPath
    <3>2. id \in Text
      BY <2>2, ExtendedText
    <3> HIDE DEF id, longer
    <3>3. OfDocument(storage, longer, docno)
      <4>1. CASE docno = 0
        BY <4>1 DEF OfDocument
      <4>2. CASE docno # 0
        BY <2>2, <3>1, <4>2, DocumentOfId DEF longer
      <4> QED
        BY <4>1, <4>2
    <3>4. PageFits(storage, longer, TermPostingsPage(p, id, docno))
      BY <2>3, <3>1, <3>2, <3>3, PostingsFit
    <3> QED
      BY <2>5, <3>4 DEF longer
  <2> QED
    BY <1>1, <2>4, <2>5, OpenedPostings
<1> QED
  BY <1>1, <1>2, OpenedPostings

LEMMA DocidOpens ==
    ASSUME StorageInv, NEW path, IsSequence(path), NEW p, PageFits(storage, path, p), p.kind = "docs",
           NEW name \in Text, NEW q, q = OpenDocid(storage, p, name), IsPage(q)
    PROVE  PageFits(storage, Append(path, name), q)
<1> DEFINE longer == Append(path, name)
           id     == Extended(p.id, name)
           docno  == DocumentNumber(storage, id)
<1>1. /\ path # << >> /\ path[1] = "doc" /\ p.id \in Text
      /\ p.id = PathId(path, 2, Len(path)) /\ Behind(path) = {2}
  BY DEF PageFits, Behind
<1>2. /\ longer # << >> /\ longer[1] = "doc" /\ Len(longer) = Len(path) + 1
      /\ Spelled(longer, Len(path) + 1) = IF LastChar(name) = "*" THEN WithoutLastChar(name) ELSE name
  BY <1>1, LongerPath, PathAppended
<1>3. name # ""
  BY OpenedDocid
<1>4. /\ id \in Text /\ LastChar(id) = LastChar(name) /\ WithoutLastChar(name) \in Text
      /\ WithoutLastChar(id) = Extended(p.id, WithoutLastChar(name))
  BY <1>1, <1>3, ExtendedText
<1>5. CASE ByNumber(storage, name, q)
  <2>1. /\ StartsWith(name, "_") /\ Docno(name) # 0
        /\ q = DocumentPage(GetDocidFromDocno(storage, Docno(name)), Docno(name))
    BY <1>5 DEF ByNumber
  <2>2. OfDocument(storage, longer, Docno(name))
    BY <1>1, <2>1, DocumentOfNumber
  <2> QED
    BY <2>1, <2>2, DocumentFits
<1>6. CASE ByPrefix(id, q)
  <2>0. LastChar(id) = "*" /\ q = DocidPage(WithoutLastChar(id), FALSE)
    BY <1>6 DEF ByPrefix
  <2>1. Spelled(longer, Len(path) + 1) = WithoutLastChar(name)
    BY <1>2, <1>4, <2>0
  <2>2. WithoutLastChar(id) = PathId(longer, 2, Len(path) + 1)
    BY <1>1, <1>4, <2>1, ExtendedPath
  <2>3. WithoutLastChar(id) \in Text
    BY <1>1, <1>4, ExtendedText
  <2> HIDE DEF id, longer
  <2>4. PageFits(storage, longer, DocidPage(WithoutLastChar(id), FALSE))
    BY <1>2, <2>2, <2>3, DocidFits
  <2> QED
    BY <2>0, <2>4 DEF longer
<1>7. CASE ById(storage, id, q)
  <2>0. LastChar(id) # "*" /\ ((docno # 0 /\ q = DocumentPage(id, docno)) \/ q = DocidPage(id, TRUE))
    BY <1>7 DEF ById
  <2>1. Spelled(longer, Len(path) + 1) = name
    BY <1>2, <1>4, <2>0
  <2>2. id = PathId(longer, 2, Len(path) + 1)
    BY <1>1, <2>1, ExtendedPath
  <2> HIDE DEF id, longer
  <2>3. CASE docno # 0 /\ q = DocumentPage(id, docno)
    <3>1. OfDocument(storage, longer, docno)
      BY <1>1, <2>2, <2>3, DocumentOfId DEF longer
    <3>2. PageFits(storage, longer, DocumentPage(id, docno))
      BY <3>1, DocumentFits
    <3> QED
      BY <2>3, <3>2 DEF longer
  <2>4. CASE q = DocidPage(id, TRUE)
    <3>1. PageFits(storage, longer, DocidPage(id, TRUE))
      BY <1>2, <1>4, <2>2, DocidFits
    <3> QED
      BY <2>4, <3>1 DEF longer
  <2> QED
    BY <2>0, <2>3, <2>4
<1> QED
  BY <1>5, <1>6, <1>7, OpenedDocid

LEMMA PageOpened ==
    ASSUME StorageInv, NEW path, IsSequence(path), NEW p, PageFits(storage, path, p),
           NEW name, p.kind \in {"docs", "postings"} => name \in Text,
           NEW q, q = OpenPage(storage, p, name), IsPage(q)
    PROVE  PageFits(storage, Append(path, name), q)
<1>1. DOMAIN p = DOMAIN Blank
  BY DEF PageFits
<1>2. CASE Ordinary(p, q)
  BY <1>2, OrdinaryFits
<1>3. CASE p.kind = "storage" /\ q = OpenStorage(storage, name)
  <2>1. path = << >>
    BY <1>3 DEF PageFits
  <2> QED
    BY <1>3, <2>1, StorageOpens
<1>4. CASE p.kind = "statistics" /\ q = OpenStatistics(name)
  BY <1>2, <1>4, OpenedStatistics, IncrementFits
<1>5. CASE p.kind = "term" /\ q = OpenTerm(storage, p, name)
  BY <1>5, TermOpens
<1>6. CASE p.kind = "postings" /\ q = OpenTermPostings(storage, p, name)
  BY <1>6, PostingsOpen
<1>7. CASE p.kind = "docs" /\ q = OpenDocid(storage, p, name)
  BY <1>7, DocidOpens
<1> QED
  BY <1>1, <1>2, <1>3, <1>4, <1>5, <1>6, <1>7, OpenedPage

-----------------------------------------------------------------------------
(* Requests                                                                *)

RequestInv ==
    /\ IsSequence(request.path)
    /\ IsPage(request.page) => PageFits(storage, request.path, request.page)

LEMMA RequestInit ==
    ASSUME Init
    PROVE  RequestInv
<1>1. request.path = << >> /\ request.page = Null
  BY DEF Init, NoRequest
<1>2. IsSequence(<< >>)
  BY DEF IsSequence
<1> QED
  BY <1>1, <1>2, NoPages DEF RequestInv

\* A page still fits its path when the storage changed.
LEMMA StillFits ==
    ASSUME StorageInv, [Next]_vars, NEW path, NEW p, PageFits(storage, path, p)
    PROVE  PageFits(storage', path, p)
<1>1. OfDocument(storage, path, p.docno)
  BY DEF PageFits
<1>2. /\ StorageInv' /\ storage.last <= storage'.last
      /\ \A d \in DOMAIN storage'.docs :
            \/ d \in DOMAIN storage.docs /\ storage'.docs[d] = storage.docs[d]
            \/ storage.last < d
  BY DocsAfter
<1>3. storage.last \in Nat /\ storage'.last \in Nat
  BY <1>2, BoundAssumption DEF StorageInv
<1>4. OfDocument(storage', path, p.docno)
  <2>1. CASE p.docno = 0
    BY <2>1 DEF OfDocument
  <2>2. CASE p.docno # 0 /\ NamedByNumber(path, p.docno)
    BY <1>1, <2>2 DEF OfDocument
  <2>3. CASE p.docno # 0 /\ ~NamedByNumber(path, p.docno)
    <3>1. PICK d : d = p.docno
      OBVIOUS
    <3>2. /\ d \in Nat /\ d # 0 /\ path # << >> /\ d <= storage.last
          /\ d \in DOMAIN storage.docs => NamedById(path, storage.docs[d].id)
      BY <1>1, <2>3, <3>1 DEF OfDocument
    <3>3. d <= storage'.last /\ ~(storage.last < d)
      BY <1>2, <1>3, <3>2
    <3>4. d \in DOMAIN storage'.docs => NamedById(path, storage'.docs[d].id)
      BY <1>2, <3>2, <3>3
    <3> QED
      BY <3>1, <3>2, <3>3, <3>4 DEF OfDocument
  <2> QED
    BY <2>1, <2>2, <2>3
<1> QED
  BY <1>4 DEF PageFits

\* The names asked of a page of ids are texts.
LEMMA NamesAreTexts ==
    ASSUME StorageInv, NEW path, NEW p, PageFits(storage, path, p), p.kind \in {"docs", "postings"},
           NEW name \in Shown(storage, p) \cup OtherNames
    PROVE  name \in Text
<1>1. CASE name \in OtherNames
  BY <1>1, TextAssumption DEF Text
<1>2. CASE name \in Shown(storage, p)
  <2>1. CASE p.kind = "postings"
    <3>1. ListPage(storage, p) = << >>
      BY <2>1 DEF ListPage
    <3> QED
      BY <1>2, <3>1 DEF Shown
  <2>2. CASE p.kind = "docs"
    <3> DEFINE ids   == Docids(storage)
               names == FetchDirectory(ids, p.id, p.complete)
               N     == NamesBelow(ids, DirectoryContext(p.id, p.complete), p.complete)
    <3>1. ListPage(storage, p) = Links(FALSE, names)
      BY <2>2 DEF ListPage, ListDocid
    <3>2. p.id \in Text /\ p.complete \in BOOLEAN
      BY <2>2 DEF PageFits
    <3>3. names \in Seq(N)
      BY <3>2, IdsOfTheStorage, DirectoryListed
    <3> HIDE DEF names, N
    <3>4. PICK i \in DOMAIN names : name = names[i]
      BY <1>2, <3>1 DEF Shown, Links
    <3>5. name \in N
      BY <3>3, <3>4, ElementOfSeq
    <3> QED
      BY <3>5 DEF N, NamesBelow
  <2> QED
    BY <2>1, <2>2
<1> QED
  BY <1>1, <1>2

LEMMA RequestStep ==
    ASSUME StorageInv, RequestInv, [Next]_vars
    PROVE  RequestInv'
<1>1. CASE UNCHANGED request
  BY <1>1, StillFits DEF RequestInv
<1>2. ASSUME NEW root \in {"storage", "vstorage", "context"}, Ask(root)
      PROVE  RequestInv'
  <2>1. request'.path = << >> /\ request'.page = PageOf(root)
    BY <1>2 DEF Ask
  <2>2. PageFits(storage', << >>, PageOf(root))
    BY RootFits
  <2>3. IsSequence(<< >>)
    BY DEF IsSequence
  <2> QED
    BY <2>1, <2>2, <2>3 DEF RequestInv
<1>3. ASSUME NEW status, NEW content, End(status, content)
      PROVE  RequestInv'
  <2>1. request'.path = << >> /\ request'.page = Null
    BY <1>3 DEF End, NoRequest
  <2>2. IsSequence(<< >>)
    BY DEF IsSequence
  <2> QED
    BY <2>1, <2>2, NoPages DEF RequestInv
<1>4. ASSUME NEW name \in Shown(storage, request.page) \cup OtherNames,
             IsPage(request.page), Step(name)
      PROVE  RequestInv'
  <2> DEFINE q == OpenPage(storage, request.page, name)
  <2>1. CASE /\ IsPage(q) /\ storage' = storage
             /\ request' = [path |-> Append(request.path, name), page |-> q]
    <3>1. IsSequence(request.path) /\ PageFits(storage, request.path, request.page)
      BY <1>4 DEF RequestInv
    <3>2. request.page.kind \in {"docs", "postings"} => name \in Text
      BY <3>1, NamesAreTexts
    <3>3. PageFits(storage, Append(request.path, name), q)
      BY <2>1, <3>1, <3>2, PageOpened
    <3>4. IsSequence(Append(request.path, name))
      BY <3>1, Appended
    <3> HIDE DEF q
    <3>5. request'.path = Append(request.path, name) /\ request'.page = q
      BY <2>1
    <3> QED
      BY <2>1, <3>3, <3>4, <3>5 DEF RequestInv
  <2>2. CASE \E status : End(status, << >>)
    BY <1>3, <2>2
  <2> QED
    BY <1>4, <2>1, <2>2 DEF Step
<1>5. CASE Serialize
  BY <1>3, <1>5 DEF Serialize
<1>6. CASE Open_
  BY <1>4, <1>6 DEF Open_
<1>7. CASE UNCHANGED vars
  BY <1>1, <1>7 DEF vars
<1>8. CASE \E c \in Contents : InsertDoc(c) \/ DeleteDoc(c.id)
  BY <1>1, <1>8 DEF InsertDoc, DeleteDoc
<1> QED
  BY <1>2, <1>5, <1>6, <1>7, <1>8 DEF Next

\* The page of a request fits the path to it, whatever happened to the storage meanwhile.
THEOREM RequestInvariant == Spec => [](StorageInv /\ RequestInv)
<1>1. Init => StorageInv /\ RequestInv
  BY StorageInit, RequestInit
<1>2. StorageInv /\ RequestInv /\ [Next]_vars => (StorageInv /\ RequestInv)'
  BY DocsAfter, RequestStep
<1> QED
  BY <1>1, <1>2, PTL DEF Spec

\* A page of a document is of the document that was asked for.
THEOREM PagesAreOfDocumentsAsked == Spec => []PageIsOfDocumentAsked
<1>1. StorageInv /\ RequestInv => PageIsOfDocumentAsked
  <2> SUFFICES ASSUME StorageInv, RequestInv, IsPage(request.page),
                      request.page.docno \in DOMAIN storage.docs
               PROVE  \/ NamedByNumber(request.path, request.page.docno)
                      \/ NamedById(request.path, storage.docs[request.page.docno].id)
    BY DEF PageIsOfDocumentAsked
  <2>1. OfDocument(storage, request.path, request.page.docno)
    BY DEF RequestInv, PageFits
  <2>2. request.page.docno # 0
    <3>1. request.page.docno \in 1 .. storage.last /\ storage.last \in Nat
      BY BoundAssumption DEF StorageInv
    <3> QED
      BY <3>1
  <2> QED
    BY <2>1, <2>2 DEF OfDocument
<1> QED
  BY <1>1, RequestInvariant, PTL

-----------------------------------------------------------------------------
(* Links                                                                   *)

LEMMA ArePages ==
    /\ \A id, docno : IsPage(DocumentPage(id, docno))
    /\ \A id, complete : IsPage(DocidPage(id, complete))
    /\ \A type, value : IsPage(TermPage(type, value))
    /\ \A x : IsPage(FeatureValuePage(x)) /\ IsPage(FeatureTypeListPage(x)) /\ IsPage(StructurePage(x))
    /\ \A p, x : IsPage(OpenFunction(p, x))
<1>1. \A id, docno : IsPage(DocumentPage(id, docno))
  BY DEF DocumentPage, IsPage, Blank
<1>2. \A id, complete : IsPage(DocidPage(id, complete))
  BY DEF DocidPage, IsPage, Blank
<1>3. \A type, value : IsPage(TermPage(type, value))
  BY DEF TermPage, IsPage, Blank
<1>4. \A x : IsPage(FeatureValuePage(x)) /\ IsPage(FeatureTypeListPage(x)) /\ IsPage(StructurePage(x))
  BY DEF FeatureValuePage, FeatureTypeListPage, StructurePage, IsPage, Blank
<1>5. \A p, x : IsPage(OpenFunction(p, x))
  BY DEF OpenFunction, IsPage, Blank
<1> QED
  BY <1>1, <1>2, <1>3, <1>4, <1>5

LEMMA PrefixOf ==
    ASSUME NEW c \in Text, NEW a \in Text, NEW b \in Text, StartsWith(c, a \o b)
    PROVE  /\ StartsWith(c, a)
           /\ Len(a) + Len(b) <= Len(c)
           /\ \A i \in 1 .. Len(b) : c[Len(a) + i] = b[i]
<1>1. /\ a \o b \in Text /\ Len(a) \in Nat /\ Len(b) \in Nat /\ Len(a \o b) = Len(a) + Len(b)
      /\ \A i \in 1 .. Len(a) : (a \o b)[i] = a[i]
      /\ \A i \in 1 .. Len(b) : (a \o b)[Len(a) + i] = b[i]
  BY Concat
<1>2. Len(a) + Len(b) <= Len(c) /\ \A j \in 1 .. Len(a) + Len(b) : c[j] = (a \o b)[j]
  BY <1>1, StartsWithMeans DEF Text
<1>3. Len(c) \in Nat
  BY DEF Text
<1>4. Len(a) <= Len(c)
  BY ONLY <1>1, <1>2, <1>3
<1>5. \A j \in 1 .. Len(a) : c[j] = a[j]
  <2> TAKE j \in 1 .. Len(a)
  <2>1. j \in 1 .. Len(a) + Len(b)
    BY <1>1
  <2> QED
    BY <1>1, <1>2, <2>1
<1>6. \A i \in 1 .. Len(b) : c[Len(a) + i] = b[i]
  <2> TAKE i \in 1 .. Len(b)
  <2>1. Len(a) + i \in 1 .. Len(a) + Len(b)
    BY <1>1
  <2> QED
    BY <1>1, <1>2, <2>1
<1>7. StartsWith(c, a)
  BY <1>4, <1>5, StartsWithMeans DEF Text
<1> QED
  BY <1>2, <1>6, <1>7

\* No plain id has an empty directory or an empty name.
LEMMA NoEmptyName ==
    ASSUME NEW c \in Text, PlainId(c), NEW dir \in Text
    PROVE  ~StartsWith(c, "/") /\ ~StartsWith(c, (dir \o "/") \o "/") /\ c # dir \o "/"
<1>0. /\ Len("/") = 1 /\ "/" \in Text
      /\ \A i \in 1 .. Len(c) : c[i] = "/"[1] => i # 1 /\ i # Len(c) /\ i + 1 \notin Slashes(c)
  BY SlashText, SlashesMeans DEF PlainId
<1>1. ASSUME StartsWith(c, "/")
      PROVE  FALSE
  <2>1. Len("/") <= Len(c) /\ c[1] = "/"[1]
    BY <1>0, <1>1, StartsWithMeans DEF Text
  <2>2. 1 \in 1 .. Len(c)
    BY <1>0, <2>1 DEF Text
  <2> QED
    BY <1>0, <2>1, <2>2
<1> DEFINE d == dir \o "/"
           m == Len(dir) + 1
<1>2. d \in Text /\ Len(d) = m /\ d[m] = "/"[1] /\ m \in Nat \ {0}
  <2>1. /\ d \in Text /\ Len(dir) \in Nat /\ Len(d) = Len(dir) + Len("/")
        /\ \A i \in 1 .. Len("/") : d[Len(dir) + i] = "/"[i]
    BY <1>0, Concat
  <2>2. 1 \in 1 .. Len("/")
    BY <1>0
  <2> HIDE DEF d
  <2> QED
    BY <1>0, <2>1, <2>2
<1> HIDE DEF d, m
<1>3. ASSUME c = d
      PROVE  FALSE
  BY <1>0, <1>2, <1>3
<1>4. ASSUME StartsWith(c, d \o "/")
      PROVE  FALSE
  <2>1. StartsWith(c, d) /\ m + 1 <= Len(c) /\ c[m + 1] = "/"[1]
    BY <1>0, <1>2, <1>4, PrefixOf
  <2>2. c[m] = d[m]
    BY <1>2, <2>1, StartsWithMeans DEF Text
  <2>3. m \in 1 .. Len(c) /\ m + 1 \in 1 .. Len(c)
    <3>1. Len(c) \in Nat
      BY DEF Text
    <3>2. m + 1 <= Len(c)
      BY <2>1
    <3>3. m \in Nat \ {0}
      BY <1>2
    <3> QED
      BY ONLY <3>1, <3>2, <3>3
  <2>4. m + 1 \in Slashes(c)
    BY <2>1, <2>3, SlashesMeans
  <2> QED
    BY <1>0, <1>2, <2>2, <2>3, <2>4
<1> QED
  BY <1>1, <1>3, <1>4 DEF d

\* A name a directory lists can be told from the name of a prefix and from a number.
LEMMA ListedNames ==
    ASSUME NEW ids, \A c \in ids : c \in Text /\ PlainId(c),
           NEW id \in Text, NEW name \in Text, Leads(ids, DirectoryPrefix(id, TRUE), name)
    PROVE  /\ name # "" /\ (id = "" => ~StartsWith(name, "_"))
           /\ \/ Extended(id, name) \in ids
              \/ \E c \in ids : StartsWith(c, Extended(id, name) \o "/")
<1> DEFINE ctx == DirectoryPrefix(id, TRUE)
<1>1. PICK c \in ids : c = ctx \o name \/ StartsWith(c, (ctx \o name) \o "/")
  BY DEF Leads
<1>2. c \in Text /\ PlainId(c)
  BY <1>1
<1>3. CASE id = ""
  <2>1. ctx \o name = name /\ Extended(id, name) = name
    BY <1>3, EmptyText DEF DirectoryPrefix, Extended
  <2> HIDE DEF ctx
  <2>2. c = name \/ StartsWith(c, name \o "/")
    BY <1>1, <2>1
  <2>3. ASSUME name = ""
        PROVE  FALSE
    <3>1. c = "" \/ StartsWith(c, "/")
      BY <2>2, <2>3, SlashText, EmptyText
    <3> QED
      BY <1>2, <3>1, EmptyText, NoEmptyName DEF PlainId
  <2>4. ASSUME StartsWith(name, "_")
        PROVE  FALSE
    <3>1. StartsWith(c, name) \/ c = name
      BY <1>2, <2>2, SlashText, PrefixOf
    <3>2. CASE c = name
      BY <1>2, <2>4, <3>2 DEF PlainId
    <3>3. CASE StartsWith(c, name)
      <4>1. "_" \o After(name, 1) = name /\ After(name, 1) \in Text
        BY <2>4, SlashText, PrefixAndRest, RestOfText
      <4>2. StartsWith(c, "_" \o After(name, 1))
        BY <3>3, <4>1
      <4>3. StartsWith(c, "_")
        BY <1>2, <4>1, <4>2, SlashText, PrefixOf
      <4> QED
        BY <1>2, <4>3 DEF PlainId
    <3> QED
      BY <3>1, <3>2, <3>3
  <2> QED
    BY <1>1, <2>1, <2>2, <2>3, <2>4
<1>4. CASE id # ""
  <2>1. ctx = id \o "/" /\ Extended(id, name) = (id \o "/") \o name
    BY <1>4 DEF DirectoryPrefix, Extended
  <2> HIDE DEF ctx
  <2>2. c = (id \o "/") \o name \/ StartsWith(c, ((id \o "/") \o name) \o "/")
    BY <1>1, <2>1
  <2>3. ASSUME name = ""
        PROVE  FALSE
    <3>1. id \o "/" \in Text
      BY SlashText, Concat
    <3>2. (id \o "/") \o name = id \o "/"
      BY <2>3, <3>1, EmptyText
    <3> QED
      BY <1>2, <2>2, <3>2, NoEmptyName
  <2> QED
    BY <1>1, <1>4, <2>1, <2>2, <2>3
<1> QED
  BY <1>3, <1>4

\* What a directory lists opens.
LEMMA ListedDocidOpens ==
    ASSUME StorageInv, PlainIds, NEW p, p.id \in Text, NEW name \in Text,
           Leads(Docids(storage), DirectoryPrefix(p.id, TRUE), name)
    PROVE  IsPage(OpenDocid(storage, p, name))
<1> DEFINE ids == Docids(storage)
           id  == Extended(p.id, name)
<1>1. \A c \in ids : c \in Text /\ PlainId(c)
  <2>1. \A c \in ids : c \in Text
    BY IdsOfTheStorage DEF IsText, Text
  <2>2. \A c \in ids : PlainId(c)
    BY DEF StorageInv, PlainIds, Docids
  <2> QED
    BY <2>1, <2>2
<1>2. /\ name # "" /\ (p.id = "" => ~StartsWith(name, "_"))
      /\ id \in ids \/ \E c \in ids : StartsWith(c, id \o "/")
  BY <1>1, ListedNames
<1>3. id \in Text /\ id # ""
  BY <1>2, ExtendedText
<1> HIDE DEF id
<1>4. PICK c \in ids : c = id \/ StartsWith(c, id \o "/")
  BY <1>2
<1>5. c \in Text
  BY <1>1
<1>6. StartsWith(c, id)
  <2>1. CASE c = id
    <3>1. id \o "" = id
      BY <1>3, EmptyText
    <3> QED
      BY <1>3, <2>1, <3>1, EmptyText, StartsWithPrefix
  <2>2. CASE StartsWith(c, id \o "/")
    BY <1>3, <1>5, <2>2, SlashText, PrefixOf
  <2> QED
    BY <1>4, <2>1, <2>2
<1>7. CASE LastChar(id) = "*"
  <2>1. PICK w : w = WithoutLastChar(id)
    OBVIOUS
  <2>2. Len(id) # 0
    BY <1>3, EmptyText
  <2>3. /\ w \in Text /\ Len(id) \in Nat \ {0} /\ Len(w) = Len(id) - 1
        /\ \A i \in 1 .. Len(id) - 1 : w[i] = id[i]
    BY <1>3, <2>1, <2>2, Shortened
  <2>4. Len(id) <= Len(c) /\ \A j \in 1 .. Len(id) : c[j] = id[j]
    BY <1>3, <1>5, <1>6, StartsWithMeans DEF Text
  <2>5. Len(w) <= Len(c)
    <3>1. Len(c) \in Nat
      BY <1>5 DEF Text
    <3> QED
      BY <2>3, <2>4, <3>1
  <2>6. \A j \in 1 .. Len(w) : c[j] = w[j]
    BY <2>3, <2>4
  <2>7. StartsWith(c, w)
    BY <1>5, <2>3, <2>5, <2>6, StartsWithMeans DEF Text
  <2>8. IsValidDocumentIdPrefix(storage, WithoutLastChar(id))
    BY <1>4, <2>1, <2>7 DEF IsValidDocumentIdPrefix, SkippedPrefix
  <2> QED
    BY <1>2, <1>7, <2>8, ArePages DEF OpenDocid, id
<1>8. CASE LastChar(id) # "*"
  <2>1. CASE DocumentNumber(storage, id) # 0
    BY <1>2, <1>8, <2>1, ArePages DEF OpenDocid, id
  <2>2. CASE DocumentNumber(storage, id) = 0
    <3>1. c # id
      <4> SUFFICES ASSUME c = id
                   PROVE  FALSE
        OBVIOUS
      <4> DEFINE found == {d \in DOMAIN storage.docs : storage.docs[d].id = id}
      <4>1. found # {}
        BY <1>4 DEF Docids
      <4>2. DocumentNumber(storage, id) \in found
        BY <4>1 DEF DocumentNumber
      <4>3. 0 \in DOMAIN storage.docs
        BY <2>2, <4>2
      <4> QED
        BY <4>3, StorageDocuments
    <3>2. IsValidDocumentIdPrefix(storage, id \o "/")
      BY <1>4, <3>1 DEF IsValidDocumentIdPrefix, SkippedPrefix
    <3> QED
      BY <1>2, <1>8, <2>2, <3>2, ArePages DEF OpenDocid, id
  <2> QED
    BY <2>1, <2>2
<1> QED
  BY <1>7, <1>8

LEMMA LinksMean ==
    ASSUME NEW autoexpand, NEW names
    PROVE  /\ DOMAIN Links(autoexpand, names) = DOMAIN names
           /\ \A i \in DOMAIN names : /\ Links(autoexpand, names)[i].autoexpand = autoexpand
                                      /\ Links(autoexpand, names)[i].name = names[i]
BY DEF Links

\* The links of a list of pages.
LinksOf(list) == {list[i].name : i \in {j \in DOMAIN list : ~list[j].autoexpand}}

LEMMA NoLinks ==
    ASSUME NEW names
    PROVE  LinksOf(Links(TRUE, names)) = {}
BY LinksMean DEF LinksOf

LEMMA AllLinks ==
    ASSUME NEW names, NEW S, names \in Seq(S)
    PROVE  LinksOf(Links(FALSE, names)) \subseteq S
<1>1. \A i \in DOMAIN names : names[i] \in S
  BY ElementOfSeq
<1>2. ASSUME NEW x \in LinksOf(Links(FALSE, names))
      PROVE  x \in S
  <2>1. PICK i \in DOMAIN Links(FALSE, names) : x = Links(FALSE, names)[i].name
    BY DEF LinksOf
  <2>2. i \in DOMAIN names /\ x = names[i]
    BY <2>1 DEF Links
  <2> QED
    BY <1>1, <2>2
<1> QED
  BY <1>2

LEMMA SortedNames ==
    ASSUME NEW S, IsFiniteSet(S), \A t \in S : IsText(t)
    PROVE  InOrder(S) \in Seq(S)
<1>1. IsOrder(S, KeyOrder(S))
  BY KeysInOrder
<1> QED
  BY <1>1, Sorted DEF InOrder

LEMMA StorageLinks ==
    ASSUME NEW name \in LinksOf(StorageMembers)
    PROVE  IsPage(OpenStorage(storage, name))
<1> DEFINE first == <<Expanded("config"), Link("diskusage"), Link("blockstats"), Expanded("nofdocs"),
                      Expanded("maxdocno"), Expanded("user"), Expanded("termtype"), Link("termvalue"),
                      Link("attribute"), Link("metadata"), Link("term"), Link("doc")>>
           second == IF TimeStamps = {} THEN << >> ELSE <<Link("statistics")>>
           Kinds == {"diskusage", "blockstats", "termvalue", "attribute", "metadata", "term", "doc"}
           L     == {Link(k) : k \in Kinds}
           A     == L \cup {Expanded(k) : k \in {"config", "nofdocs", "maxdocno", "user", "termtype"}}
           B     == IF TimeStamps = {} THEN {} ELSE {Link("statistics")}
<1>1. first \in Seq(A \cup B)
  OBVIOUS
<1>2. second \in Seq(A \cup B)
  OBVIOUS
<1>3. StorageMembers = first \o second
  BY DEF StorageMembers
<1> HIDE DEF first, second
<1>4. StorageMembers \in Seq(A \cup B)
  BY <1>1, <1>2, <1>3, ConcatProperties
<1> HIDE DEF A, B
<1>5. PICK i \in DOMAIN StorageMembers : ~StorageMembers[i].autoexpand /\ name = StorageMembers[i].name
  BY DEF LinksOf
<1>6. StorageMembers[i] \in A \cup B
  BY <1>4, <1>5, ElementOfSeq
<1>7. name \in Kinds \/ (TimeStamps # {} /\ name = "statistics")
  BY <1>5, <1>6 DEF A, B, Link, Expanded
<1>8. CASE name \in {"diskusage", "blockstats"}
  BY <1>8 DEF OpenStorage, AtomicPage, IsPage, Blank
<1>9. CASE name \in {"termvalue", "metadata"}
  BY <1>9 DEF OpenStorage, ValuesPage, PageOf, IsPage, Blank
<1>10. CASE name = "attribute"
  BY <1>10 DEF OpenStorage, StructurePage, IsPage, Blank
<1>11. CASE name \in {"term", "doc"}
  BY <1>11, ArePages DEF OpenStorage
<1>12. CASE TimeStamps # {} /\ name = "statistics"
  BY <1>12 DEF OpenStorage, PageOf, IsPage, Blank
<1> QED
  BY <1>7, <1>8, <1>9, <1>10, <1>11, <1>12

LEMMA VectorStorageLinks ==
    ASSUME NEW name \in LinksOf(VectorStorageMembers)
    PROVE  IsPage(OpenVectorStorage(name))
<1> DEFINE list == Links(TRUE, <<"config", "noftypes", "noffeats">>)
<1>1. DOMAIN list = 1 .. 3 /\ \A i \in 1 .. 3 : list[i].autoexpand
  BY DEF Links
<1>2. IsSequence(list)
  <2>1. list = [i \in 1 .. 3 |-> list[i]]
    BY DEF Links
  <2>2. list \in Seq({list[i] : i \in 1 .. 3})
    <3> HIDE DEF list
    <3> QED
      BY <2>1
  <2> QED
    BY <2>2 DEF IsSequence
<1> HIDE DEF list
<1>3. /\ DOMAIN VectorStorageMembers = 1 .. 4
      /\ \A i \in 1 .. 3 : VectorStorageMembers[i] = list[i]
      /\ VectorStorageMembers[4] = Link("feature")
  <2>1. VectorStorageMembers = Append(list, Link("feature"))
    BY DEF VectorStorageMembers, list
  <2>2. Len(list) = 3
    BY <1>1, <1>2 DEF IsSequence
  <2>3. /\ DOMAIN Append(list, Link("feature")) = 1 .. Len(list) + 1
        /\ \A i \in 1 .. Len(list) : Append(list, Link("feature"))[i] = list[i]
        /\ Append(list, Link("feature"))[Len(list) + 1] = Link("feature")
    BY <1>2, Appended
  <2> QED
    BY <2>1, <2>2, <2>3
<1>4. PICK i \in 1 .. 4 : ~VectorStorageMembers[i].autoexpand /\ name = VectorStorageMembers[i].name
  BY <1>3 DEF LinksOf
<1>5. i = 4
  BY <1>1, <1>3, <1>4
<1>6. name = "feature"
  BY <1>3, <1>4, <1>5 DEF Link
<1> QED
  BY <1>6, ArePages DEF OpenVectorStorage

LEMMA StatisticsLinks ==
    ASSUME NEW name \in LinksOf(<<Link("increment"), Link("snapshot")>>)
    PROVE  IsPage(OpenStatistics(name))
<1>1. name \in {"increment", "snapshot"}
  BY DEF LinksOf, Link
<1>2. IsPage(IncrementPage)
  BY DEF IncrementPage, IsPage, Blank
<1> QED
  BY <1>1, <1>2, ArePages DEF OpenStatistics

LEMMA TermLinks ==
    ASSUME NEW p, NEW name \in LinksOf(ListTerm(storage, p))
    PROVE  IsPage(OpenTerm(storage, p, name))
<1>1. CASE p.type = "" \/ p.value = ""
  <2>1. \E type, value : OpenTerm(storage, p, name) = TermPage(type, value)
    BY <1>1, Zenon DEF OpenTerm
  <2> QED
    BY <2>1, ArePages
<1>2. CASE ~(p.type = "" \/ p.value = "")
  <2>1. ListTerm(storage, p) = <<Expanded("df"), Expanded("postings")>>
    BY <1>2 DEF ListTerm
  <2> QED
    BY <2>1 DEF LinksOf, Expanded
<1> QED
  BY <1>1, <1>2

LEMMA DocidLinks ==
    ASSUME StorageInv, PlainIds, NEW p, p.id \in Text, p.complete = TRUE,
           NEW name \in LinksOf(ListDocid(storage, p))
    PROVE  IsPage(OpenDocid(storage, p, name))
<1> DEFINE names == FetchDirectory(Docids(storage), p.id, p.complete)
           N     == NamesBelow(Docids(storage), DirectoryContext(p.id, p.complete), p.complete)
<1>1. names \in Seq(N)
  BY IdsOfTheStorage, DirectoryListed
<1>2. name \in N
  <2> HIDE DEF names, N
  <2>1. LinksOf(Links(FALSE, names)) \subseteq N
    BY <1>1, AllLinks
  <2> QED
    BY <2>1 DEF ListDocid, names
<1>3. name \in Text /\ Leads(Docids(storage), DirectoryPrefix(p.id, TRUE), name)
  BY <1>2 DEF NamesBelow, DirectoryContext
<1> QED
  BY <1>3, ListedDocidOpens

LEMMA IncrementLinks ==
    ASSUME NEW p, p.items = InOrder(TimeStamps), NEW name \in LinksOf(Links(FALSE, p.items))
    PROVE  IsPage(OpenIncrement(name))
<1>1. InOrder(TimeStamps) \in Seq(TimeStamps)
  BY TextAssumption, BoundAssumption, SortedNames
<1>2. name \in TimeStamps
  BY <1>1, AllLinks
<1> QED
  BY <1>2, ArePages DEF OpenIncrement

LEMMA FeatureLinks ==
    ASSUME NEW p, p.id = "", NEW name \in LinksOf(ListFeatureValues(p))
    PROVE  IsPage(OpenFeatureValue(p, name))
<1> DEFINE F     == DOMAIN Features
           S     == SkippedPrefix(F, p.id)
           names == FetchValues(S, MaxListSizeDeepExpansion)
<1>1. S \subseteq F /\ IsFiniteSet(F) /\ \A t \in F : IsText(t)
  BY TextAssumption, BoundAssumption DEF SkippedPrefix
<1> HIDE DEF S, F
<1>2. names \in Seq(S)
  BY <1>1, BoundAssumption, FS_Subset, Fetched
<1>3. name \in S
  <2> HIDE DEF names
  <2>1. LinksOf(Links(FALSE, names)) \subseteq S
    BY <1>2, AllLinks
  <2> QED
    BY <2>1 DEF ListFeatureValues, names, S, F
<1>4. name \in F /\ name \in Text
  BY <1>1, <1>3 DEF IsText, Text
<1>5. CASE LastChar(name) = "*"
  <2>1. StartsWith(name, WithoutLastChar(name))
    <3>1. CASE Len(name) = 0
      <4>1. name = ""
        BY <1>4, <3>1, EmptyText
      <4>2. LastChar("") = ""
        BY DEF LastChar
      <4> QED
        BY <1>5, <4>1, <4>2
    <3>2. CASE Len(name) # 0
      <4>1. PICK w : w = WithoutLastChar(name)
        OBVIOUS
      <4>2. /\ w \in Text /\ Len(name) \in Nat \ {0} /\ Len(w) = Len(name) - 1
            /\ \A i \in 1 .. Len(name) - 1 : w[i] = name[i]
        BY <1>4, <3>2, <4>1, Shortened
      <4>3. Len(w) <= Len(name) /\ \A i \in 1 .. Len(w) : name[i] = w[i]
        BY ONLY <4>2
      <4> QED
        BY <1>4, <4>1, <4>2, <4>3, StartsWithMeans DEF Text
    <3> QED
      BY <3>1, <3>2
  <2>2. IsValidFeatureValuePrefix(WithoutLastChar(name))
    BY <1>4, <2>1 DEF IsValidFeatureValuePrefix, SkippedPrefix, F
  <2> QED
    BY <1>5, <2>2, ArePages DEF OpenFeatureValue
<1>6. CASE LastChar(name) # "*"
  BY <1>4, <1>6, ArePages DEF OpenFeatureValue, F
<1> QED
  BY <1>5, <1>6

LEMMA FeatureTypeLinks ==
    ASSUME NEW p, NEW name \in LinksOf(Links(FALSE, p.items))
    PROVE  IsPage(OpenFeatureType(p, name))
<1>1. \E i \in DOMAIN p.items : p.items[i] = name
  <2>1. PICK i \in DOMAIN Links(FALSE, p.items) : name = Links(FALSE, p.items)[i].name
    BY DEF LinksOf
  <2> QED
    BY <2>1 DEF Links
<1> QED
  BY <1>1, ArePages DEF OpenFeatureType

\* What list offers, open takes, if ids are plain.
LEMMA LinksOfAPage ==
    ASSUME StorageInv, PlainIds, NEW path, NEW p, PageFits(storage, path, p), ~IsPrefixPage(p),
           NEW name \in LinksOf(ListPage(storage, p))
    PROVE  IsPage(OpenPage(storage, p, name))
<1>1. CASE p.kind \in {"context", "config", "keyvalues", "metatable", "document", "attributes", "metadata",
                       "env", "textproc", "queryproc"}
  <2>1. \E names : ListPage(storage, p) = Links(TRUE, names)
    <3>1. CASE p.kind \in {"context", "config", "keyvalues"}
      BY <3>1, Zenon DEF ListPage, ContextMembers
    <3>2. CASE p.kind \in {"metatable", "document", "attributes", "metadata"}
      BY <3>2 DEF ListPage, DocumentMembers
    <3>3. CASE p.kind \in {"env", "textproc", "queryproc"}
      BY <3>3 DEF ListPage, EnvironmentMembers
    <3> QED
      BY <1>1, <3>1, <3>2, <3>3
  <2> QED
    BY <2>1, NoLinks
<1>2. CASE p.kind = "storage"
  BY <1>2, StorageLinks DEF ListPage, OpenPage
<1>3. CASE p.kind = "vstorage"
  BY <1>3, VectorStorageLinks DEF ListPage, OpenPage
<1>4. CASE p.kind = "term"
  BY <1>4, TermLinks DEF ListPage, OpenPage
<1>5. CASE p.kind = "docs"
  <2>1. p.id \in Text /\ p.complete = TRUE
    BY <1>5 DEF PageFits, IsPrefixPage
  <2>2. name \in LinksOf(ListDocid(storage, p))
    BY <1>5 DEF ListPage
  <2>3. IsPage(OpenDocid(storage, p, name))
    BY <2>1, <2>2, DocidLinks
  <2> QED
    BY <1>5, <2>3 DEF OpenPage
<1>6. CASE p.kind = "statistics"
  BY <1>6, StatisticsLinks DEF ListPage, OpenPage
<1>7. CASE p.kind = "increment"
  <2>1. p.items = InOrder(TimeStamps)
    BY <1>7 DEF PageFits
  <2>2. name \in LinksOf(Links(FALSE, p.items))
    BY <1>7 DEF ListPage
  <2> QED
    BY <1>7, <2>1, <2>2, IncrementLinks DEF OpenPage
<1>8. CASE p.kind = "functions"
  BY <1>8, ArePages DEF OpenPage
<1>9. CASE p.kind = "features"
  <2>1. p.id = ""
    BY <1>9 DEF IsPrefixPage
  <2>2. name \in LinksOf(ListFeatureValues(p))
    BY <1>9 DEF ListPage
  <2> QED
    BY <1>9, <2>1, <2>2, FeatureLinks DEF OpenPage
<1>10. CASE p.kind = "feature"
  BY <1>10, FeatureTypeLinks DEF ListPage, OpenPage
<1>11. CASE p.kind \notin {"context", "config", "keyvalues", "metatable", "document", "attributes", "metadata",
                           "env", "textproc", "queryproc", "storage", "vstorage", "term", "docs",
                           "statistics", "increment", "functions", "features", "feature"}
  <2>1. ListPage(storage, p) = << >>
    BY <1>11 DEF ListPage
  <2> QED
    BY <2>1 DEF LinksOf
<1> QED
  BY <1>1, <1>2, <1>3, <1>4, <1>5, <1>6, <1>7, <1>8, <1>9, <1>10, <1>11

\* Every link leads to a page, when no id looks like the number of a document and none has an
\* empty directory.
THEOREM LinksAlwaysOpen ==
    ASSUME PlainIds
    PROVE  Spec => []LinksOpen
<1>1. StorageInv /\ RequestInv => LinksOpen
  <2> SUFFICES ASSUME StorageInv, RequestInv, IsPage(request.page), ~IsPrefixPage(request.page),
                      NEW i \in DOMAIN ListPage(storage, request.page),
                      ~ListPage(storage, request.page)[i].autoexpand
               PROVE  IsPage(OpenPage(storage, request.page, ListPage(storage, request.page)[i].name))
    BY DEF LinksOpen
  <2>1. PageFits(storage, request.path, request.page)
    BY DEF RequestInv
  <2>2. ListPage(storage, request.page)[i].name \in LinksOf(ListPage(storage, request.page))
    BY DEF LinksOf
  <2> QED
    BY <2>1, <2>2, LinksOfAPage
<1> QED
  BY <1>1, RequestInvariant, PTL

-----------------------------------------------------------------------------
(* The segments of an id                                                   *)

\* The m segments of an id end before the numbers ends.
EndsOf(id, ends, m) ==
    /\ m \in Nat \ {0} /\ IsSequence(Segments(id)) /\ Len(Segments(id)) = m
    /\ \A k \in 1 .. m : /\ ends[k] \in 1 .. Len(id) + 1
                         /\ Segments(id)[k] = SubSeq(id, IF k = 1 THEN 1 ELSE ends[k - 1] + 1, ends[k] - 1)
    /\ \A k \in 1 .. m : k # m => ends[k] \in Slashes(id)
    /\ \A k \in 2 .. m : ends[k - 1] < ends[k]
    /\ ends[m] = Len(id) + 1

LEMMA NumbersAscend ==
    ASSUME NEW S \in SUBSET Nat, IsFiniteSet(S)
    PROVE  LET list == Ascending(S) IN
           /\ list \in Seq(S) /\ Len(list) \in Nat /\ Len(list) = Cardinality(S)
           /\ DOMAIN list = 1 .. Len(list)
           /\ \A i \in 1 .. Len(list) : list[i] \in S
           /\ \A x \in S : \E i \in 1 .. Len(list) : list[i] = x
           /\ \A i, j \in 1 .. Len(list) : i < j => list[i] < list[j]
<1> DEFINE before == {p \in S \X S : p[1] < p[2]}
           list   == SortedBy(S, before)
<1>1. IsOrder(S, before)
  BY NumbersInOrder
<1>2. \A x, y \in S : <<x, y>> \in before <=> x < y
  OBVIOUS
<1> HIDE DEF before
<1>3. /\ list \in Seq(S) /\ Len(list) = Cardinality(S) /\ Cardinality(S) \in Nat
      /\ DOMAIN list = 1 .. Len(list)
      /\ \A i \in 1 .. Len(list) : list[i] \in S /\ Rank(S, before, list[i]) = i - 1
      /\ \A x \in S : \E i \in 1 .. Len(list) : list[i] = x
  BY <1>1, Sorted
<1>4. Ascending(S) = list
  BY DEF Ascending, before
<1> HIDE DEF list
<1>5. ASSUME NEW i \in 1 .. Len(list), NEW j \in 1 .. Len(list), i < j
      PROVE  list[i] < list[j]
  <2>1. /\ list[i] \in S /\ list[j] \in S
        /\ Rank(S, before, list[i]) = i - 1 /\ Rank(S, before, list[j]) = j - 1
    BY <1>3
  <2>2. ~(list[i] = list[j])
    BY <1>5, <2>1
  <2>3. ~(list[j] < list[i])
    <3> SUFFICES ASSUME list[j] < list[i]
                 PROVE  FALSE
      OBVIOUS
    <3>1. <<list[j], list[i]>> \in before
      BY <1>2, <2>1
    <3>2. Rank(S, before, list[j]) < Rank(S, before, list[i])
      BY <1>1, <2>1, <3>1, RankOrder
    <3> QED
      BY <1>5, <2>1, <3>2
  <2>4. list[i] \in Nat /\ list[j] \in Nat
    BY <2>1
  <2> QED
    BY ONLY <2>2, <2>3, <2>4
<1> QED
  BY <1>3, <1>4, <1>5

LEMMA SegmentsEnd ==
    ASSUME NEW id \in Text
    PROVE  \E ends, m : EndsOf(id, ends, m)
<1> DEFINE S    == Slashes(id) \cup {Len(id) + 1}
           ends == Ascending(S)
           m    == Len(ends)
<1>0. Len(id) \in Nat
  BY DEF Text
<1>1. S \in SUBSET (1 .. Len(id) + 1) /\ Slashes(id) \subseteq 1 .. Len(id)
  BY <1>0 DEF Slashes
<1>2. S \in SUBSET Nat /\ IsFiniteSet(S)
  <2>1. IsFiniteSet(1 .. Len(id) + 1)
    BY <1>0, FS_Interval
  <2> QED
    BY <1>1, <2>1, FS_Subset
<1>3. Len(id) + 1 \in S /\ \A x \in S : x # Len(id) + 1 => x \in Slashes(id)
  OBVIOUS
<1> HIDE DEF S
<1>4. /\ m \in Nat /\ DOMAIN ends = 1 .. m
      /\ \A i \in 1 .. m : ends[i] \in S
      /\ \A x \in S : \E i \in 1 .. m : ends[i] = x
      /\ \A i, j \in 1 .. m : i < j => ends[i] < ends[j]
  BY <1>2, NumbersAscend
<1>5. Segments(id) = [i \in 1 .. m |-> SubSeq(id, IF i = 1 THEN 1 ELSE ends[i - 1] + 1, ends[i] - 1)]
  BY <1>4 DEF Segments, S
<1> HIDE DEF ends, m
<1>6. PICK j \in 1 .. m : ends[j] = Len(id) + 1
  BY <1>3, <1>4
<1>7. \A i \in 1 .. m : ends[i] \in 1 .. Len(id) + 1
  BY <1>1, <1>4
<1>8. j = m
  <2> SUFFICES ASSUME j # m
               PROVE  FALSE
    OBVIOUS
  <2>1. m \in 1 .. m /\ j < m
    BY <1>4, <1>6
  <2>2. ends[j] < ends[m] /\ ends[m] \in 1 .. Len(id) + 1
    BY <1>4, <1>7, <2>1
  <2> QED
    BY <1>0, <1>6, <2>2
<1>9. \A k \in 1 .. m : k # m => ends[k] \in Slashes(id)
  <2> SUFFICES ASSUME NEW k \in 1 .. m, k # m
               PROVE  ends[k] \in Slashes(id)
    OBVIOUS
  <2>1. m \in 1 .. m /\ k < m
    BY <1>4
  <2>2. ends[k] < ends[m] /\ ends[m] = Len(id) + 1 /\ ends[k] \in 1 .. Len(id) + 1
    BY <1>4, <1>6, <1>7, <1>8, <2>1
  <2>3. ends[k] # Len(id) + 1
    BY <1>0, <2>2
  <2> QED
    BY <1>3, <1>4, <2>3
<1>10. \A k \in 2 .. m : ends[k - 1] < ends[k]
  <2> TAKE k \in 2 .. m
  <2>1. k - 1 \in 1 .. m /\ k \in 1 .. m /\ k - 1 < k
    BY <1>4
  <2> QED
    BY <1>4, <2>1
<1>11. IsSequence(Segments(id)) /\ Len(Segments(id)) = m
  <2>1. \A f : f = [i \in 1 .. m |-> f[i]] => f \in Seq({f[i] : i \in 1 .. m}) /\ Len(f) = m
    BY <1>4
  <2>2. Segments(id) = [i \in 1 .. m |-> Segments(id)[i]]
    BY <1>5
  <2>3. Segments(id) \in Seq({Segments(id)[i] : i \in 1 .. m}) /\ Len(Segments(id)) = m
    BY <2>1, <2>2
  <2> QED
    BY <2>3 DEF IsSequence
<1>12. m \in Nat \ {0}
  BY <1>4, <1>6
<1>13. EndsOf(id, ends, m)
  BY <1>5, <1>6, <1>7, <1>8, <1>9, <1>10, <1>11, <1>12 DEF EndsOf
<1> QED
  BY <1>13

\* The id up to the end of its k-th segment.
Upto(id, ends, k) == IF k = 0 THEN "" ELSE SubSeq(id, 1, ends[k] - 1)

LEMMA UptoIsPrefix ==
    ASSUME NEW id \in Text, NEW ends, NEW m, EndsOf(id, ends, m), NEW k \in 1 .. m
    PROVE  /\ Upto(id, ends, k) \in Text /\ Len(Upto(id, ends, k)) = ends[k] - 1
           /\ ends[k] \in Nat /\ ends[k] - 1 <= Len(id)
           /\ \A i \in 1 .. ends[k] - 1 : Upto(id, ends, k)[i] = id[i]
           /\ StartsWith(id, Upto(id, ends, k))
           /\ k = m => Upto(id, ends, k) = id
<1>0. Len(id) \in Nat /\ m \in Nat \ {0}
  BY DEF Text, EndsOf
<1>1. PICK e : e = ends[k]
  OBVIOUS
<1>2. e \in 1 .. Len(id) + 1 /\ (k = m => e = Len(id) + 1)
  BY <1>1 DEF EndsOf
<1>3. PICK u : u = SubSeq(id, 1, e - 1)
  OBVIOUS
<1>4. 1 \in Nat \ {0} /\ e - 1 \in Int /\ e - 1 <= Len(id) /\ e \in Nat
  BY <1>0, <1>2
<1>5. /\ u \in Text /\ Len(u) = IF 1 <= e - 1 THEN e - 1 - 1 + 1 ELSE 0
      /\ \A i \in 1 .. e - 1 - 1 + 1 : u[i] = id[1 + i - 1]
  BY <1>3, <1>4, Parts_
<1>6. Len(u) = e - 1
  <2>1. (IF 1 <= e - 1 THEN e - 1 - 1 + 1 ELSE 0) = e - 1
    BY <1>0, <1>2
  <2> QED
    BY <1>5, <2>1
<1>7. \A i \in 1 .. e - 1 : u[i] = id[i]
  <2> TAKE i \in 1 .. e - 1
  <2>1. i \in 1 .. e - 1 - 1 + 1 /\ 1 + i - 1 = i
    BY <1>4
  <2> QED
    BY <1>5, <2>1
<1>8. Upto(id, ends, k) = u
  <2>1. k # 0
    BY <1>0
  <2> QED
    BY <1>1, <1>3, <2>1 DEF Upto
<1>9. StartsWith(id, u)
  BY <1>4, <1>5, <1>6, <1>7, StartsWithMeans DEF Text
<1>10. k = m => u = id
  <2> SUFFICES ASSUME k = m
               PROVE  u = id
    OBVIOUS
  <2>1. e - 1 = Len(id)
    BY <1>0, <1>2
  <2> QED
    BY <1>3, <2>1, Whole
<1> QED
  BY <1>1, <1>4, <1>5, <1>6, <1>7, <1>8, <1>9, <1>10

LEMMA CharOfPrefix ==
    ASSUME NEW id \in Text, NEW e \in Text, StartsWith(id, e), NEW i \in 1 .. Len(e)
    PROVE  i \in 1 .. Len(id) /\ CharAt(e, i) = CharAt(id, i)
<1>1. Len(e) <= Len(id) /\ Len(e) \in Nat /\ Len(id) \in Nat /\ id[i] = e[i]
  BY StartsWithMeans DEF Text
<1>2. i \in 1 .. Len(id)
  BY <1>1
<1>3. /\ CharAt(e, i) \in Text /\ Len(CharAt(e, i)) = 1 /\ CharAt(e, i)[1] = e[i]
      /\ CharAt(id, i) \in Text /\ Len(CharAt(id, i)) = 1 /\ CharAt(id, i)[1] = id[i]
  BY <1>2, CharOf
<1>4. \A j \in 1 .. Len(CharAt(e, i)) : CharAt(e, i)[j] = CharAt(id, i)[j]
  BY <1>1, <1>3
<1>5. CharAt(e, i) = CharAt(id, i)
  BY <1>3, <1>4, TextsEqual
<1> QED
  BY <1>2, <1>5

\* The end of a segment: a slash follows, or the id ends; there is something before it, and no star.
LEMMA SegmentEnds ==
    ASSUME NEW id \in Text, PlainId(id), StarlessId(id), NEW ends, NEW m, EndsOf(id, ends, m),
           NEW k \in 1 .. m
    PROVE  /\ ends[k] \in Nat /\ ends[k] > 1
           /\ LastChar(Upto(id, ends, k)) # "*"
           /\ k # m => StartsWith(id, Upto(id, ends, k) \o "/")
<1>0. Len(id) \in Nat \ {0} /\ m \in Nat \ {0}
  <2>1. Len(id) # 0
    BY EmptyText DEF PlainId
  <2>2. Len(id) \in Nat
    BY DEF Text
  <2> QED
    BY <2>1, <2>2 DEF EndsOf
<1>1. PICK e : e = ends[k]
  OBVIOUS
<1>2. PICK u : u = Upto(id, ends, k)
  OBVIOUS
<1>3. /\ u \in Text /\ Len(u) = e - 1 /\ e \in Nat /\ e - 1 <= Len(id)
      /\ StartsWith(id, u) /\ \A i \in 1 .. e - 1 : u[i] = id[i]
  BY <1>1, <1>2, UptoIsPrefix
<1>4. IF k = m THEN e = Len(id) + 1 ELSE e \in Slashes(id)
  BY <1>1 DEF EndsOf
<1>5. e > 1
  <2>1. CASE k = m
    BY <1>0, <1>4, <2>1
  <2>2. CASE k # m
    <3>1. e \in 1 .. Len(id)
      BY <1>4, <2>2 DEF Slashes
    <3>2. e # 1
      BY <1>4, <2>2 DEF PlainId
    <3> QED
      BY ONLY <3>1, <3>2
  <2> QED
    BY <2>1, <2>2
<1>6. LastChar(u) # "*"
  <2>1. e - 1 \in 1 .. Len(u)
    BY <1>3, <1>5
  <2>2. LastChar(u) = CharAt(u, e - 1)
    <3>1. Len(u) # 0
      BY <2>1
    <3>2. u # ""
      BY <1>3, <3>1, EmptyText
    <3> QED
      BY <1>3, <3>2 DEF LastChar
  <2>3. e - 1 \in 1 .. Len(id) /\ CharAt(u, e - 1) = CharAt(id, e - 1)
    BY <1>3, <2>1, CharOfPrefix
  <2>4. e - 1 = Len(id) \/ (e - 1) + 1 \in Slashes(id)
    <3>1. (e - 1) + 1 = e
      BY <1>3
    <3>2. e = Len(id) + 1 => e - 1 = Len(id)
      BY <1>0, <1>3
    <3> QED
      BY <1>4, <3>1, <3>2
  <2>5. CharAt(id, e - 1) # "*"
    BY <2>3, <2>4 DEF StarlessId
  <2> QED
    BY <2>2, <2>3, <2>5
<1>7. k # m => StartsWith(id, u \o "/")
  <2> SUFFICES ASSUME k # m
               PROVE  StartsWith(id, u \o "/")
    OBVIOUS
  <2>1. e \in 1 .. Len(id) /\ id[e] = "/"[1]
    <3>1. e \in 1 .. Len(id) /\ e \in Slashes(id)
      BY <1>4 DEF Slashes
    <3> QED
      BY <3>1, SlashesMeans
  <2>2. /\ u \o "/" \in Text /\ Len(u \o "/") = Len(u) + Len("/")
        /\ \A i \in 1 .. Len(u) : (u \o "/")[i] = u[i]
        /\ \A i \in 1 .. Len("/") : (u \o "/")[Len(u) + i] = "/"[i]
    BY <1>3, SlashText, Concat
  <2>3. PICK v : v = u \o "/"
    OBVIOUS
  <2>8. Len("/") = 1
    BY SlashText
  <2>4. 1 \in 1 .. Len("/") /\ Len("/") = 1
    BY <2>8
  <2>5. v \in Text /\ Len(v) = e /\ v[e] = "/"[1] /\ \A i \in 1 .. e - 1 : v[i] = u[i]
    <3>1. Len(u) + 1 = e
      BY <1>3
    <3> QED
      BY <1>3, <2>2, <2>3, <2>4, <3>1
  <2>6. \A i \in 1 .. Len(v) : id[i] = v[i]
    <3> TAKE i \in 1 .. Len(v)
    <3>1. i = e \/ i \in 1 .. e - 1
      BY <1>3, <2>5
    <3> QED
      BY <1>3, <2>1, <2>5, <3>1
  <2>7. Len(v) <= Len(id)
    BY <1>0, <2>1, <2>5
  <2> QED
    BY <2>3, <2>5, <2>6, <2>7, StartsWithMeans DEF Text
<1> QED
  BY <1>1, <1>2, <1>3, <1>5, <1>6, <1>7

-----------------------------------------------------------------------------
(* What is on the way to a document, from both sides                       *)

\* A storage that has no two documents with the same id, and no type without a name.
IdsDiffer ==
    /\ \A d, e \in DOMAIN storage.docs : storage.docs[d].id = storage.docs[e].id => d = e
    /\ \A t \in storage.types : t # ""

LEMMA IdsDifferInit ==
    ASSUME Init
    PROVE  IdsDiffer
<1>1. storage.docs = << >> /\ storage.types = {}
  BY DEF Init
<1>2. DOMAIN << >> = {}
  OBVIOUS
<1> QED
  BY <1>1, <1>2 DEF IdsDiffer

LEMMA IdsDifferAfter ==
    ASSUME StorageInv, NamedTerms, IdsDiffer, [Next]_vars
    PROVE  IdsDiffer'
<1>1. CASE UNCHANGED storage
  BY <1>1 DEF IdsDiffer
<1>2. ASSUME NEW c \in Contents, Inserted(c)
      PROVE  IdsDiffer'
  <2> DEFINE docno == storage.last + 1
  <2>1. /\ storage'.docs = [d \in Remaining(c.id) \cup {docno} |->
                              IF d = docno THEN c ELSE storage.docs[d]]
        /\ storage'.types = storage.types \cup {t.type : t \in c.search \cup c.forward}
    BY <1>2 DEF Inserted
  <2>2. Remaining(c.id) \subseteq DOMAIN storage.docs
        /\ \A d \in Remaining(c.id) : storage.docs[d].id # c.id
    BY DEF Remaining
  <2> HIDE DEF docno
  <2>3. DOMAIN storage'.docs = Remaining(c.id) \cup {docno} /\ storage'.docs[docno] = c
    BY <2>1
  <2>4. \A d \in DOMAIN storage'.docs : d # docno =>
          d \in Remaining(c.id) /\ storage'.docs[d] = storage.docs[d]
    BY <2>1, <2>3
  <2>5. \A t \in c.search \cup c.forward : t.type # ""
    BY DEF NamedTerms
  <2>6. \A t \in storage'.types : t # ""
    BY <2>1, <2>5 DEF IdsDiffer
  <2>7. ASSUME NEW d \in DOMAIN storage'.docs, NEW e \in DOMAIN storage'.docs,
               storage'.docs[d].id = storage'.docs[e].id
        PROVE  d = e
    <3>1. CASE d = docno \/ e = docno
      BY <2>2, <2>3, <2>4, <2>7, <3>1
    <3>2. CASE d # docno /\ e # docno
      BY <2>2, <2>4, <2>7, <3>2 DEF IdsDiffer
    <3> QED
      BY <3>1, <3>2
  <2> QED
    BY <2>6, <2>7 DEF IdsDiffer
<1>3. ASSUME NEW c \in Contents, Deleted(c.id)
      PROVE  IdsDiffer'
  <2>1. /\ storage'.docs = [d \in Remaining(c.id) |-> storage.docs[d]]
        /\ storage'.types = storage.types
    BY <1>3 DEF Deleted, StorageInv
  <2>2. Remaining(c.id) \subseteq DOMAIN storage.docs
    BY DEF Remaining
  <2>3. DOMAIN storage'.docs \subseteq DOMAIN storage.docs
        /\ \A d \in DOMAIN storage'.docs : storage'.docs[d] = storage.docs[d]
    BY <2>1, <2>2
  <2>4. \A t \in storage'.types : t # ""
    BY <2>1 DEF IdsDiffer
  <2>5. \A d, e \in DOMAIN storage'.docs : storage'.docs[d].id = storage'.docs[e].id => d = e
    BY <2>3 DEF IdsDiffer
  <2> QED
    BY <2>4, <2>5 DEF IdsDiffer
<1> QED
  BY <1>1, <1>2, <1>3, StorageSteps

LEMMA FoundById ==
    ASSUME IdsDiffer, NEW d \in DOMAIN storage.docs
    PROVE  DocumentNumber(storage, storage.docs[d].id) = d
<1> DEFINE found == {e \in DOMAIN storage.docs : storage.docs[e].id = storage.docs[d].id}
<1>1. found = {d}
  BY DEF IdsDiffer
<1> QED
  BY <1>1 DEF DocumentNumber

LEMMA NotFoundById ==
    ASSUME NEW id, \A e \in DOMAIN storage.docs : storage.docs[e].id # id
    PROVE  DocumentNumber(storage, id) = 0
BY DEF DocumentNumber

LEMMA ValidPrefix ==
    ASSUME NEW d \in DOMAIN storage.docs, NEW prefix, StartsWith(storage.docs[d].id, prefix)
    PROVE  IsValidDocumentIdPrefix(storage, prefix)
BY DEF IsValidDocumentIdPrefix, SkippedPrefix, Docids

\* One name down from a directory of documents.
LEMMA DownDocs ==
    ASSUME NEW st, NEW u, NEW name, name # "", ~(u = "" /\ StartsWith(name, "_")),
           NEW e, e = Extended(u, name), LastChar(e) # "*"
    PROVE  /\ DocumentNumber(st, e) = 0 /\ IsValidDocumentIdPrefix(st, e \o "/")
                => OpenPage(st, DocidPage(u, TRUE), name) = DocidPage(e, TRUE)
           /\ DocumentNumber(st, e) # 0
                => OpenPage(st, DocidPage(u, TRUE), name) = DocumentPage(e, DocumentNumber(st, e))
<1> DEFINE p == DocidPage(u, TRUE)
<1>1. p.kind = "docs" /\ p.id = u
  BY DEF DocidPage, Blank
<1> HIDE DEF p
<1>2. OpenPage(st, p, name) = OpenDocid(st, p, name)
  BY <1>1 DEF OpenPage
<1>3. Extended(p.id, name) = e
  BY <1>1
<1>4. /\ DocumentNumber(st, e) = 0 /\ IsValidDocumentIdPrefix(st, e \o "/")
           => OpenDocid(st, p, name) = DocidPage(e, TRUE)
      /\ DocumentNumber(st, e) # 0
           => OpenDocid(st, p, name) = DocumentPage(e, DocumentNumber(st, e))
  BY <1>1, <1>3, Zenon DEF OpenDocid
<1> QED
  BY <1>2, <1>4 DEF p

\* One name down from the postings of a term.
LEMMA DownPostings ==
    ASSUME NEW st, NEW p, p.kind = "postings", p.docno = 0,
           NEW name, ~(p.id = "" /\ StartsWith(name, "_")), NEW e, e = Extended(p.id, name),
           DocumentNumber(st, e) # 0 \/ IsValidDocumentIdPrefix(st, e)
    PROVE  OpenPage(st, p, name) = TermPostingsPage(p, e, DocumentNumber(st, e))
<1>1. OpenPage(st, p, name) = OpenTermPostings(st, p, name)
  BY DEF OpenPage
<1>2. OpenTermPostings(st, p, name) = OpenPostingsBelow(st, p, name)
  BY DEF OpenTermPostings
<1>3. OpenPostingsBelow(st, p, name) = TermPostingsPage(p, e, DocumentNumber(st, e))
  BY Zenon DEF OpenPostingsBelow
<1> QED
  BY <1>1, <1>2, <1>3

\* From the storage to the documents, and from a document to the positions of a term.
LEMMA DownDocument ==
    ASSUME NEW st
    PROVE  /\ OpenPage(st, PageOf("storage"), "doc") = DocidPage("", TRUE)
           /\ \A id, d : OpenPage(st, DocumentPage(id, d), "sindex") = SearchIndexPage(d, "")
           /\ \A d, type : OpenPage(st, SearchIndexPage(d, ""), type) = SearchIndexPage(d, type)
           /\ \A d, type, value : type # "" =>
                OpenPage(st, SearchIndexPage(d, type), value) = DocumentPostingsPage(d, type, value, 0)
<1>1. OpenPage(st, PageOf("storage"), "doc") = DocidPage("", TRUE)
  <2>1. PageOf("storage").kind = "storage"
    BY DEF PageOf, Blank
  <2> QED
    BY <2>1 DEF OpenPage, OpenStorage
<1>2. ASSUME NEW id, NEW d
      PROVE  OpenPage(st, DocumentPage(id, d), "sindex") = SearchIndexPage(d, "")
  <2>1. DocumentPage(id, d).kind = "document" /\ DocumentPage(id, d).docno = d
    BY DEF DocumentPage, Blank
  <2> QED
    BY <2>1 DEF OpenPage, OpenDocument
<1>3. ASSUME NEW d, NEW type
      PROVE  OpenPage(st, SearchIndexPage(d, ""), type) = SearchIndexPage(d, type)
  <2>1. SearchIndexPage(d, "").kind = "sindex" /\ SearchIndexPage(d, "").docno = d /\ SearchIndexPage(d, "").type = ""
    BY DEF SearchIndexPage, Blank
  <2> QED
    BY <2>1 DEF OpenPage, OpenSearchIndex
<1>4. ASSUME NEW d, NEW type, NEW value, type # ""
      PROVE  OpenPage(st, SearchIndexPage(d, type), value) = DocumentPostingsPage(d, type, value, 0)
  <2>1. SearchIndexPage(d, type).kind = "sindex" /\ SearchIndexPage(d, type).docno = d /\ SearchIndexPage(d, type).type = type
    BY DEF SearchIndexPage, Blank
  <2> QED
    BY <1>4, <2>1 DEF OpenPage, OpenSearchIndex
<1> QED
  BY <1>1, <1>2, <1>3, <1>4

\* The page of the postings of a term in a document, or in the directory of one.
PostingsOf(type, value, id, docno) == TermPostingsPage(TermPage(type, value), id, docno)

LEMMA PostingsPages ==
    ASSUME NEW type, NEW value, NEW id, NEW docno
    PROVE  LET p == PostingsOf(type, value, id, docno) IN
           /\ p.kind = "postings" /\ p.type = type /\ p.value = value /\ p.id = id /\ p.docno = docno
           /\ IsPage(p)
           /\ \A i, d : TermPostingsPage(p, i, d) = PostingsOf(type, value, i, d)
BY DEF PostingsOf, TermPostingsPage, TermPage, Blank, IsPage

LEMMA AsksTheTerm ==
    ASSUME NEW st, NEW p, p.kind = "term", NEW name
    PROVE  OpenPage(st, p, name) = OpenTerm(st, p, name)
BY DEF OpenPage

\* From the storage to the postings of a term, and from those in a document to their positions.
LEMMA DownTerm ==
    ASSUME NEW st, NEW type, type # "", NEW value, value # ""
    PROVE  /\ OpenPage(st, PageOf("storage"), "term") = TermPage("", "")
           /\ OpenPage(st, TermPage("", ""), type) = TermPage(type, "")
           /\ OpenPage(st, TermPage(type, ""), value) = TermPage(type, value)
           /\ OpenPage(st, TermPage(type, value), "postings") = PostingsOf(type, value, "", 0)
<1>0. \A t, v : TermPage(t, v).kind = "term" /\ TermPage(t, v).type = t /\ TermPage(t, v).value = v
  BY DEF TermPage, Blank
<1>1. OpenPage(st, PageOf("storage"), "term") = TermPage("", "")
  <2>1. PageOf("storage").kind = "storage"
    BY DEF PageOf, Blank
  <2> QED
    BY <2>1 DEF OpenPage, OpenStorage
<1>2. OpenPage(st, TermPage("", ""), type) = TermPage(type, "")
  <2>1. PICK p : p = TermPage("", "")
    OBVIOUS
  <2>2. p.kind = "term" /\ p.type = ""
    BY <1>0, <2>1
  <2>3. OpenPage(st, p, type) = OpenTerm(st, p, type)
    BY <2>2, AsksTheTerm
  <2>4. OpenTerm(st, p, type) = TermPage(type, "")
    BY <2>2, Zenon DEF OpenTerm
  <2> QED
    BY <2>1, <2>3, <2>4
<1>3. OpenPage(st, TermPage(type, ""), value) = TermPage(type, value)
  <2>1. PICK p : p = TermPage(type, "")
    OBVIOUS
  <2>2. p.kind = "term" /\ p.type = type /\ p.value = ""
    BY <1>0, <2>1
  <2>3. OpenPage(st, p, value) = OpenTerm(st, p, value)
    BY <2>2, AsksTheTerm
  <2>4. OpenTerm(st, p, value) = TermPage(type, value)
    BY <2>2, Zenon DEF OpenTerm
  <2> QED
    BY <2>1, <2>3, <2>4
<1>4. OpenPage(st, TermPage(type, value), "postings") = PostingsOf(type, value, "", 0)
  <2>1. PICK p : p = TermPage(type, value)
    OBVIOUS
  <2>2. p.kind = "term" /\ p.type # "" /\ p.value # ""
    BY <1>0, <2>1
  <2>3. OpenPage(st, p, "postings") = OpenTerm(st, p, "postings")
    BY <2>2, AsksTheTerm
  <2>4. OpenTerm(st, p, "postings") = TermPostingsPage(p, "", 0)
    BY <2>2 DEF OpenTerm
  <2> QED
    BY <2>1, <2>3, <2>4 DEF PostingsOf
<1> QED
  BY <1>1, <1>2, <1>3, <1>4

PositionsOf(st, d, type, value) == StructurePage(Numerals(Positions(st, d, type, value)))

LEMMA DownPositions ==
    ASSUME NEW st, NEW type, NEW value, NEW id, NEW d, d # 0
    PROVE  OpenPage(st, PostingsOf(type, value, id, d), "pos") = PositionsOf(st, d, type, value)
<1> DEFINE p == PostingsOf(type, value, id, d)
<1>1. p.kind = "postings" /\ p.type = type /\ p.value = value /\ p.docno = d
  BY PostingsPages DEF PostingsOf, TermPostingsPage, TermPage, Blank
<1> HIDE DEF p
<1>2. OpenPage(st, p, "pos") = OpenTermPostings(st, p, "pos")
  BY <1>1 DEF OpenPage
<1>3. OpenTermPostings(st, p, "pos") = OpenPostingsOf(st, p, "pos")
  BY <1>1 DEF OpenTermPostings
<1>4. OpenPostingsOf(st, p, "pos") = PositionsOf(st, p.docno, p.type, p.value)
  BY DEF OpenPostingsOf, PositionsOf
<1> QED
  BY <1>1, <1>2, <1>3, <1>4 DEF p

\* What both sides show in the end.
LEMMA ShownPositions ==
    ASSUME NEW st, NEW d, NEW type, NEW value,
           \A t \in Document(st, d).search : t.pos \in Nat
    PROVE  Content(st, DocumentPostingsPage(d, type, value, 0))
             = Content(st, PositionsOf(st, d, type, value))
<1> DEFINE p == DocumentPostingsPage(d, type, value, 0)
           q == PositionsOf(st, d, type, value)
<1>1. p.kind = "docpostings" /\ p.docno = d /\ p.type = type /\ p.value = value /\ p.pos = 0
  BY DEF DocumentPostingsPage, Blank
<1>2. q.kind = "structure" /\ q.items = Numerals(Positions(st, d, type, value))
  BY DEF PositionsOf, StructurePage, Blank
<1> HIDE DEF p, q
<1>3. Content(st, p) = SerializeDocumentPostings(st, p)
  BY <1>1 DEF Content, Serialized
<1>4. Content(st, q) = q.items
  BY <1>2, Zenon DEF Content, Serialized
<1>5. {n \in Positions(st, d, type, value) : n >= 0} = Positions(st, d, type, value)
  BY DEF Positions
<1>6. SerializeDocumentPostings(st, p) = Numerals(Positions(st, d, type, value))
  BY <1>1, <1>5, Zenon DEF SerializeDocumentPostings
<1> QED
  BY <1>2, <1>3, <1>4, <1>6 DEF p, q

-----------------------------------------------------------------------------
(* The names of a path, one after the other                                *)

LEMMA StartsTwice ==
    ASSUME NEW a \in Text, NEW b \in Text, NEW c \in Text, StartsWith(a, b), StartsWith(b, c)
    PROVE  StartsWith(a, c)
<1>1. /\ Len(a) \in Nat /\ Len(b) \in Nat /\ Len(c) \in Nat
      /\ Len(b) <= Len(a) /\ \A i \in 1 .. Len(b) : a[i] = b[i]
      /\ Len(c) <= Len(b) /\ \A i \in 1 .. Len(c) : b[i] = c[i]
  BY StartsWithMeans DEF Text
<1>2. Len(c) <= Len(a) /\ \A i \in 1 .. Len(c) : a[i] = c[i]
  BY <1>1
<1> QED
  BY <1>2, StartsWithMeans DEF Text

\* The k-th segment is the name that leads from the directory before it to the one it ends.
IsSegment(name, u, e, k) ==
    /\ name \in Text /\ Len(name) # 0 /\ Extended(u, name) = e
    /\ k = 1 => ~StartsWith(name, "_")
    /\ k # 1 => u # ""

LEMMA SegmentName ==
    ASSUME NEW id \in Text, PlainId(id), StarlessId(id), NEW ends, NEW m, EndsOf(id, ends, m),
           NEW k \in 1 .. m
    PROVE  IsSegment(Segments(id)[k], Upto(id, ends, k - 1), Upto(id, ends, k), k)
<1>0. /\ Len(id) \in Nat /\ m \in Nat \ {0} /\ ends[k] \in Nat /\ ends[k] > 1
      /\ ends[k] - 1 <= Len(id)
  <2>1. ends[k] \in Nat /\ ends[k] > 1
    BY SegmentEnds
  <2>2. ends[k] - 1 <= Len(id)
    BY UptoIsPrefix
  <2> QED
    BY <2>1, <2>2 DEF Text, EndsOf
<1>1. PICK e : e = ends[k]
  OBVIOUS
<1>2. PICK name : name = Segments(id)[k]
  OBVIOUS
<1>3. PICK up : up = Upto(id, ends, k)
  OBVIOUS
<1>4. up = SubSeq(id, 1, e - 1)
  <2>1. k # 0
    BY <1>0
  <2> QED
    BY <1>1, <1>3, <2>1 DEF Upto
<1>5. CASE k = 1
  <2>1. name = SubSeq(id, 1, e - 1)
    BY <1>1, <1>2, <1>5 DEF EndsOf
  <2>2. name = up
    BY <1>4, <2>1
  <2>3. name \in Text /\ Len(name) = e - 1 /\ StartsWith(id, name)
    BY <1>1, <1>3, <2>2, UptoIsPrefix
  <2>4. Upto(id, ends, k - 1) = ""
    BY <1>5 DEF Upto
  <2>5. Extended("", name) = name
    BY DEF Extended
  <2>6. Len(name) # 0
    BY <1>0, <1>1, <2>3
  <2>7. ASSUME StartsWith(name, "_")
        PROVE  FALSE
    <3>1. "_" \in Text
      BY SlashText
    <3>2. StartsWith(id, "_")
      BY <2>3, <2>7, <3>1, StartsTwice
    <3> QED
      BY <3>2 DEF PlainId
  <2> QED
    BY <1>2, <1>3, <1>5, <2>2, <2>3, <2>4, <2>5, <2>6, <2>7 DEF IsSegment
<1>6. CASE k # 1
  <2>1. k - 1 \in 1 .. m /\ k \in 2 .. m /\ k - 1 # m
    BY <1>0, <1>6
  <2>2. PICK a : a = ends[k - 1]
    OBVIOUS
  <2>3. a \in Slashes(id) /\ a < e /\ a \in Nat /\ a > 1 /\ a - 1 <= Len(id)
    <3>1. a \in Slashes(id) /\ a < e
      BY <1>1, <2>1, <2>2 DEF EndsOf
    <3>2. a \in Nat /\ a > 1
      BY <2>1, <2>2, SegmentEnds
    <3>3. a - 1 <= Len(id)
      BY <2>1, <2>2, UptoIsPrefix
    <3> QED
      BY <3>1, <3>2, <3>3
  <2>4. a \in 1 .. Len(id) /\ CharAt(id, a) = "/" /\ a # Len(id) /\ a + 1 \notin Slashes(id)
    BY <2>3 DEF Slashes, PlainId
  <2>5. IF k = m THEN e = Len(id) + 1 ELSE e \in Slashes(id)
    BY <1>1 DEF EndsOf
  <2>6. a + 1 # e
    <3>1. CASE k = m
      BY <1>0, <2>4, <2>5, <3>1
    <3>2. CASE k # m
      BY <2>4, <2>5, <3>2
    <3> QED
      BY <3>1, <3>2
  <2>7. name = SubSeq(id, a + 1, e - 1)
    BY <1>1, <1>2, <1>6, <2>2 DEF EndsOf
  <2>8. /\ a + 1 \in Nat \ {0} /\ e - 1 \in Int /\ e - 1 <= Len(id) /\ a + 1 <= e - 1
        /\ (e - 1) - (a + 1) + 1 # 0
    BY <1>0, <1>1, <2>3, <2>6
  <2>9. name \in Text /\ Len(name) # 0
    <3>1. name \in Text /\ Len(name) = IF a + 1 <= e - 1 THEN (e - 1) - (a + 1) + 1 ELSE 0
      BY <2>7, <2>8, Parts_
    <3> QED
      BY <2>8, <3>1
  <2>10. PICK u : u = Upto(id, ends, k - 1)
    OBVIOUS
  <2>11. u = SubSeq(id, 1, a - 1)
    <3>1. k - 1 # 0
      BY <2>1
    <3> QED
      BY <2>2, <2>10, <3>1 DEF Upto
  <2>12. u \in Text /\ Len(u) = a - 1
    BY <2>1, <2>2, <2>10, UptoIsPrefix
  <2>13. u # ""
    <3>1. Len(u) # 0
      BY <2>3, <2>12
    <3> QED
      BY <2>12, <3>1, EmptyText
  <2>14. SubSeq(id, 1, a - 1) \o SubSeq(id, a, a) = SubSeq(id, 1, a)
    <3>1. /\ 1 \in Nat \ {0} /\ a - 1 \in Nat /\ a \in Nat /\ 1 - 1 <= a - 1 /\ a - 1 <= a /\ a <= Len(id)
          /\ (a - 1) + 1 = a
      BY <1>0, <2>3, <2>4
    <3>2. SubSeq(id, 1, a - 1) \o SubSeq(id, (a - 1) + 1, a) = SubSeq(id, 1, a)
      BY <3>1, PartsJoined
    <3> QED
      BY <3>1, <3>2
  <2>15. SubSeq(id, 1, a) \o SubSeq(id, a + 1, e - 1) = SubSeq(id, 1, e - 1)
    <3>1. /\ 1 \in Nat \ {0} /\ a \in Nat /\ e - 1 \in Nat /\ 1 - 1 <= a /\ a <= e - 1 /\ e - 1 <= Len(id)
      BY <1>0, <1>1, <2>3
    <3> QED
      BY <3>1, PartsJoined
  <2>16. SubSeq(id, a, a) = "/"
    BY <2>4 DEF CharAt
  <2>17. (u \o "/") \o name = up
    BY <1>4, <2>7, <2>11, <2>14, <2>15, <2>16
  <2>18. Extended(u, name) = up
    BY <2>13, <2>17 DEF Extended
  <2> QED
    BY <1>2, <1>3, <1>6, <2>9, <2>10, <2>13, <2>18 DEF IsSegment
<1> QED
  BY <1>5, <1>6

\* What holds where a name leads from a directory of a document's id to what is below it.
OnTheWay(u, name, e) ==
    /\ name # "" /\ ~(u = "" /\ StartsWith(name, "_"))
    /\ e = Extended(u, name) /\ LastChar(e) # "*"
\* A directory that is no document, and the document.
IsDirectory(e) ==
    /\ DocumentNumber(storage, e) = 0
    /\ IsValidDocumentIdPrefix(storage, e \o "/") /\ IsValidDocumentIdPrefix(storage, e)

\* A document that can be reached by its id, and the ends of the segments of the id.
ReachedById(d, id, ends, m) ==
    /\ StorageInv /\ IdsDiffer /\ d \in Reachable(storage) /\ id = storage.docs[d].id
    /\ PlainId(id) /\ StarlessId(id) /\ EndsOf(id, ends, m)

LEMMA WayToDocument ==
    ASSUME NEW d, NEW id, NEW ends, NEW m, ReachedById(d, id, ends, m), NEW k \in 1 .. m
    PROVE  /\ OnTheWay(Upto(id, ends, k - 1), Segments(id)[k], Upto(id, ends, k))
           /\ k # m => IsDirectory(Upto(id, ends, k))
           /\ k = m => Upto(id, ends, k) = id /\ DocumentNumber(storage, id) = d
<1> USE DEF ReachedById
<1>0. /\ d \in DOMAIN storage.docs /\ id \in Text
      /\ \A e \in DOMAIN storage.docs : ~StartsWith(id, storage.docs[e].id \o "/")
  <2>1. d \in DOMAIN storage.docs
    BY DEF Reachable
  <2>2. IsText(id)
    BY <2>1, StorageDocuments
  <2> QED
    BY <2>1, <2>2 DEF Reachable, Docids, IsText, Text
<1>1. PICK e : e = Upto(id, ends, k)
  OBVIOUS
<1>2. PICK u : u = Upto(id, ends, k - 1)
  OBVIOUS
<1>3. PICK name : name = Segments(id)[k]
  OBVIOUS
<1>4. /\ name \in Text /\ Len(name) # 0 /\ Extended(u, name) = e
      /\ (k = 1 => ~StartsWith(name, "_")) /\ (k # 1 => u # "")
  <2>1. IsSegment(Segments(id)[k], Upto(id, ends, k - 1), Upto(id, ends, k), k)
    BY <1>0, SegmentName
  <2>2. IsSegment(name, u, e, k)
    BY <1>1, <1>2, <1>3, <2>1
  <2> QED
    BY <2>2 DEF IsSegment
<1>5. LastChar(e) # "*" /\ (k # m => StartsWith(id, e \o "/"))
  BY <1>0, <1>1, SegmentEnds
<1>6. StartsWith(id, e) /\ (k = m => e = id)
  BY <1>0, <1>1, UptoIsPrefix
<1>7. name # ""
  BY <1>4, EmptyText
<1>8. OnTheWay(u, name, e)
  BY <1>4, <1>5, <1>7 DEF OnTheWay
<1>9. ASSUME k # m
      PROVE  IsDirectory(e)
  <2>1. StartsWith(id, e \o "/")
    BY <1>5, <1>9
  <2>2. \A n \in DOMAIN storage.docs : storage.docs[n].id # e
    BY <1>0, <2>1
  <2>3. DocumentNumber(storage, e) = 0
    BY <2>2, NotFoundById
  <2>4. IsValidDocumentIdPrefix(storage, e \o "/") /\ IsValidDocumentIdPrefix(storage, e)
    BY <1>0, <1>6, <2>1, ValidPrefix
  <2> QED
    BY <2>3, <2>4 DEF IsDirectory
<1>10. DocumentNumber(storage, id) = d
  BY <1>0, FoundById
<1> QED
  BY <1>1, <1>2, <1>3, <1>6, <1>8, <1>9, <1>10

\* The pages of a path, name by name.
Opens(f, st, root, path, n) ==
    f = [i \in 0 .. n |-> IF i = 0 THEN PageOf(root)
                          ELSE IF IsPage(f[i - 1]) THEN OpenPage(st, f[i - 1], path[i]) ELSE f[i - 1]]

LEMMA OpensFollow ==
    ASSUME NEW st, NEW root, NEW path, Len(path) \in Nat
    PROVE  \E f : Opens(f, st, root, path, Len(path)) /\ OpenPath(st, root, path) = f[Len(path)]
<1> DEFINE S == {n \in Nat : \E f : Opens(f, st, root, path, n)}
<1>1. 0 \in S
  <2>1. PICK f : f = [i \in 0 .. 0 |-> PageOf(root)]
    OBVIOUS
  <2>2. Opens(f, st, root, path, 0)
    BY <2>1 DEF Opens
  <2> QED
    BY <2>2
<1>2. ASSUME NEW n \in Nat, n \in S
      PROVE  n + 1 \in S
  <2>1. PICK f : Opens(f, st, root, path, n)
    BY <1>2
  <2>2. PICK v : v = IF IsPage(f[n]) THEN OpenPage(st, f[n], path[n + 1]) ELSE f[n]
    OBVIOUS
  <2>3. PICK g : g = [i \in 0 .. n + 1 |-> IF i = n + 1 THEN v ELSE f[i]]
    OBVIOUS
  <2>4. \A i \in 0 .. n + 1 :
          g[i] = IF i = 0 THEN PageOf(root) ELSE IF IsPage(g[i - 1]) THEN OpenPage(st, g[i - 1], path[i]) ELSE g[i - 1]
    <3> TAKE i \in 0 .. n + 1
    <3>1. CASE i = n + 1
      <4>1. g[i] = v /\ g[i - 1] = f[n] /\ i # 0
        BY <2>3, <3>1
      <4> QED
        BY <2>2, <3>1, <4>1
    <3>2. CASE i = 0
      BY <2>1, <2>3, <3>2 DEF Opens
    <3>3. CASE i \in 1 .. n
      <4>1. g[i] = f[i] /\ g[i - 1] = f[i - 1] /\ i # 0 /\ i \in 0 .. n
        BY <2>3, <3>3
      <4>2. f[i] = IF IsPage(f[i - 1]) THEN OpenPage(st, f[i - 1], path[i]) ELSE f[i - 1]
        BY <2>1, <4>1 DEF Opens
      <4> QED
        BY <4>1, <4>2
    <3> QED
      BY <3>1, <3>2, <3>3
  <2>5. Opens(g, st, root, path, n + 1)
    BY <2>3, <2>4 DEF Opens
  <2> QED
    BY <2>5
<1> HIDE DEF S
<1>3. Len(path) \in S
  BY <1>1, <1>2, Induction
<1>4. \E f : Opens(f, st, root, path, Len(path))
  BY <1>3 DEF S
<1> DEFINE after == CHOOSE f : Opens(f, st, root, path, Len(path))
<1>5. Opens(after, st, root, path, Len(path))
  BY <1>4
<1>6. OpenPath(st, root, path) = after[Len(path)]
  BY Zenon DEF OpenPath, Opens
<1> QED
  BY <1>5, <1>6

LEMMA NextPage ==
    ASSUME NEW f, NEW st, NEW root, NEW path, NEW n \in Nat, Opens(f, st, root, path, n),
           NEW i \in Nat, i + 1 <= n, IsPage(f[i])
    PROVE  f[i + 1] = OpenPage(st, f[i], path[i + 1])
<1>1. i + 1 \in 0 .. n /\ i + 1 # 0 /\ (i + 1) - 1 = i
  OBVIOUS
<1> QED
  BY <1>1 DEF Opens

LEMMA FirstPage ==
    ASSUME NEW f, NEW st, NEW root, NEW path, NEW n \in Nat, Opens(f, st, root, path, n)
    PROVE  f[0] = PageOf(root)
<1>1. 0 \in 0 .. n
  OBVIOUS
<1> QED
  BY <1>1 DEF Opens

-----------------------------------------------------------------------------
(* The two sides of the search index                                       *)

LEMMA ThreeParts ==
    ASSUME NEW S, NEW a \in Seq(S), NEW b \in Seq(S), NEW c \in Seq(S)
    PROVE  LET path == a \o b \o c IN
           /\ Len(a) \in Nat /\ Len(b) \in Nat /\ Len(c) \in Nat
           /\ Len(path) = Len(a) + Len(b) + Len(c)
           /\ \A i \in 1 .. Len(a) : path[i] = a[i]
           /\ \A i \in 1 .. Len(b) : path[Len(a) + i] = b[i]
           /\ \A i \in 1 .. Len(c) : path[Len(a) + Len(b) + i] = c[i]
<1>1. PICK ab : ab = a \o b
  OBVIOUS
<1>2. PICK path : path = ab \o c
  OBVIOUS
<1>3. Len(a) \in Nat /\ Len(b) \in Nat /\ Len(c) \in Nat
  OBVIOUS
<1>4. /\ ab \in Seq(S) /\ Len(ab) = Len(a) + Len(b)
      /\ \A i \in 1 .. Len(a) + Len(b) : ab[i] = IF i <= Len(a) THEN a[i] ELSE b[i - Len(a)]
  BY <1>1, ConcatProperties
<1>5. /\ Len(path) = Len(ab) + Len(c)
      /\ \A i \in 1 .. Len(ab) + Len(c) : path[i] = IF i <= Len(ab) THEN ab[i] ELSE c[i - Len(ab)]
  <2>1. /\ Len(ab \o c) = Len(ab) + Len(c)
        /\ \A i \in 1 .. Len(ab) + Len(c) : (ab \o c)[i] = IF i <= Len(ab) THEN ab[i] ELSE c[i - Len(ab)]
    <3>1. ab \in Seq(S) /\ c \in Seq(S)
      BY <1>4
    <3> QED
      BY <3>1, ConcatProperties
  <2> QED
    BY <1>2, <2>1
<1>6. ASSUME NEW i \in 1 .. Len(a)
      PROVE  path[i] = a[i]
  <2>1. i \in 1 .. Len(a) + Len(b) /\ i \in 1 .. Len(ab) + Len(c) /\ i <= Len(ab) /\ i <= Len(a)
    BY <1>3, <1>4
  <2> QED
    BY <1>4, <1>5, <2>1
<1>7. ASSUME NEW i \in 1 .. Len(b)
      PROVE  path[Len(a) + i] = b[i]
  <2>1. /\ Len(a) + i \in 1 .. Len(a) + Len(b) /\ Len(a) + i \in 1 .. Len(ab) + Len(c)
        /\ Len(a) + i <= Len(ab) /\ ~(Len(a) + i <= Len(a)) /\ (Len(a) + i) - Len(a) = i
    BY <1>3, <1>4
  <2> QED
    BY <1>4, <1>5, <2>1
<1>8. ASSUME NEW i \in 1 .. Len(c)
      PROVE  path[Len(a) + Len(b) + i] = c[i]
  <2>1. /\ Len(a) + Len(b) + i \in 1 .. Len(ab) + Len(c)
        /\ ~(Len(a) + Len(b) + i <= Len(ab)) /\ (Len(a) + Len(b) + i) - Len(ab) = i
    BY <1>3, <1>4
  <2> QED
    BY <1>5, <2>1
<1>9. Len(path) = Len(a) + Len(b) + Len(c)
  BY <1>4, <1>5
<1> QED
  BY <1>1, <1>2, <1>3, <1>6, <1>7, <1>8, <1>9

\* The names of a path from each side.
DocumentNames(path, segments, m, type, value) ==
    /\ Len(path) = m + 4
    /\ path[1] = "doc"
    /\ \A k \in 1 .. m : path[1 + k] = segments[k]
    /\ path[m + 2] = "sindex" /\ path[m + 3] = type /\ path[m + 4] = value
TermNames(path, segments, m, type, value) ==
    /\ Len(path) = m + 5
    /\ path[1] = "term" /\ path[2] = type /\ path[3] = value /\ path[4] = "postings"
    /\ \A k \in 1 .. m : path[4 + k] = segments[k]
    /\ path[m + 5] = "pos"

LEMMA DocumentPathNames ==
    ASSUME NEW segments, IsSequence(segments), NEW m, m = Len(segments), NEW type, NEW value
    PROVE  DocumentNames(<<"doc">> \o segments \o <<"sindex", type, value>>, segments, m, type, value)
<1>1. PICK T : segments \in Seq(T)
  BY DEF IsSequence
<1>2. PICK S : S = T \cup {"doc", "sindex", type, value}
  OBVIOUS
<1>3. segments \in Seq(S)
  BY <1>1, <1>2, SeqMonotonic
<1>4. PICK a : a = <<"doc">>
  OBVIOUS
<1>5. PICK c : c = <<"sindex", type, value>>
  OBVIOUS
<1>6. a \in Seq(S) /\ Len(a) = 1 /\ a[1] = "doc"
  BY <1>2, <1>4
<1>7. c \in Seq(S) /\ Len(c) = 3 /\ c[1] = "sindex" /\ c[2] = type /\ c[3] = value
  BY <1>2, <1>5
<1>8. PICK path : path = a \o segments \o c
  OBVIOUS
<1>9. /\ m \in Nat
      /\ Len(path) = Len(a) + m + Len(c)
      /\ \A i \in 1 .. Len(a) : path[i] = a[i]
      /\ \A i \in 1 .. m : path[Len(a) + i] = segments[i]
      /\ \A i \in 1 .. Len(c) : path[Len(a) + m + i] = c[i]
  <2>1. LET joined == a \o segments \o c IN
        /\ Len(segments) \in Nat
        /\ Len(joined) = Len(a) + Len(segments) + Len(c)
        /\ \A i \in 1 .. Len(a) : joined[i] = a[i]
        /\ \A i \in 1 .. Len(segments) : joined[Len(a) + i] = segments[i]
        /\ \A i \in 1 .. Len(c) : joined[Len(a) + Len(segments) + i] = c[i]
    <3>1. a \in Seq(S) /\ segments \in Seq(S) /\ c \in Seq(S)
      BY <1>3, <1>6, <1>7
    <3> QED
      BY <3>1, ThreeParts
  <2> QED
    BY <1>8, <2>1
<1>10. Len(a) = 1 /\ Len(c) = 3
  BY <1>6, <1>7
<1>11. /\ Len(path) = m + 4 /\ path[1] = a[1]
       /\ \A k \in 1 .. m : path[1 + k] = segments[k]
  BY ONLY <1>9, <1>10
<1>12. path[m + 2] = c[1] /\ path[m + 3] = c[2] /\ path[m + 4] = c[3]
  <2>1. 1 \in 1 .. Len(c) /\ 2 \in 1 .. Len(c) /\ 3 \in 1 .. Len(c)
    BY ONLY <1>10
  <2>2. Len(a) + m + 1 = m + 2 /\ Len(a) + m + 2 = m + 3 /\ Len(a) + m + 3 = m + 4
    BY ONLY <1>9, <1>10
  <2>3. path[Len(a) + m + 1] = c[1] /\ path[Len(a) + m + 2] = c[2] /\ path[Len(a) + m + 3] = c[3]
    BY ONLY <1>9, <2>1
  <2> QED
    BY ONLY <2>2, <2>3
<1>13. DocumentNames(path, segments, m, type, value)
  BY <1>6, <1>7, <1>11, <1>12, Zenon DEF DocumentNames
<1> QED
  BY <1>4, <1>5, <1>8, <1>13, Zenon

LEMMA TermPathNames ==
    ASSUME NEW segments, IsSequence(segments), NEW m, m = Len(segments), NEW type, NEW value
    PROVE  TermNames(<<"term", type, value, "postings">> \o segments \o <<"pos">>, segments, m, type, value)
<1>1. PICK T : segments \in Seq(T)
  BY DEF IsSequence
<1>2. PICK S : S = T \cup {"term", "postings", "pos", type, value}
  OBVIOUS
<1>3. segments \in Seq(S)
  BY <1>1, <1>2, SeqMonotonic
<1>4. PICK a : a = <<"term", type, value, "postings">>
  OBVIOUS
<1>5. PICK c : c = <<"pos">>
  OBVIOUS
<1>6. a \in Seq(S) /\ Len(a) = 4 /\ a[1] = "term" /\ a[2] = type /\ a[3] = value /\ a[4] = "postings"
  BY <1>2, <1>4
<1>7. c \in Seq(S) /\ Len(c) = 1 /\ c[1] = "pos"
  BY <1>2, <1>5
<1>8. PICK path : path = a \o segments \o c
  OBVIOUS
<1>9. /\ m \in Nat
      /\ Len(path) = Len(a) + m + Len(c)
      /\ \A i \in 1 .. Len(a) : path[i] = a[i]
      /\ \A i \in 1 .. m : path[Len(a) + i] = segments[i]
      /\ \A i \in 1 .. Len(c) : path[Len(a) + m + i] = c[i]
  <2>1. LET joined == a \o segments \o c IN
        /\ Len(segments) \in Nat
        /\ Len(joined) = Len(a) + Len(segments) + Len(c)
        /\ \A i \in 1 .. Len(a) : joined[i] = a[i]
        /\ \A i \in 1 .. Len(segments) : joined[Len(a) + i] = segments[i]
        /\ \A i \in 1 .. Len(c) : joined[Len(a) + Len(segments) + i] = c[i]
    <3>1. a \in Seq(S) /\ segments \in Seq(S) /\ c \in Seq(S)
      BY <1>3, <1>6, <1>7
    <3> QED
      BY <3>1, ThreeParts
  <2> QED
    BY <1>8, <2>1
<1>10. Len(a) = 4 /\ Len(c) = 1
  BY <1>6, <1>7
<1>11. /\ Len(path) = m + 5 /\ path[1] = a[1] /\ path[2] = a[2] /\ path[3] = a[3] /\ path[4] = a[4]
       /\ \A k \in 1 .. m : path[4 + k] = segments[k]
  BY ONLY <1>9, <1>10
<1>12. path[m + 5] = c[1]
  <2>1. 1 \in 1 .. Len(c) /\ Len(a) + m + 1 = m + 5
    BY ONLY <1>9, <1>10
  <2> QED
    BY ONLY <1>9, <2>1
<1>13. TermNames(path, segments, m, type, value)
  BY <1>6, <1>7, <1>11, <1>12, Zenon DEF TermNames
<1> QED
  BY <1>4, <1>5, <1>8, <1>13, Zenon

LEMMA PagesOnTheWay ==
    /\ IsPage(PageOf("storage"))
    /\ \A id, complete : IsPage(DocidPage(id, complete))
    /\ \A id, d : IsPage(DocumentPage(id, d))
    /\ \A d, type : IsPage(SearchIndexPage(d, type))
    /\ \A type, value : IsPage(TermPage(type, value))
    /\ \A type, value, id, d : IsPage(PostingsOf(type, value, id, d))
<1>1. IsPage(PageOf("storage"))
  BY DEF PageOf, IsPage, Blank
<1>2. \A d, type : IsPage(SearchIndexPage(d, type))
  BY DEF SearchIndexPage, IsPage, Blank
<1>3. \A type, value, id, d : IsPage(PostingsOf(type, value, id, d))
  BY PostingsPages
<1> QED
  BY <1>1, <1>2, <1>3, ArePages

\* What the two sides are proved from: a document that can be reached by its id, the ends of
\* the segments of its id, and a term.
Reached(d, id, ends, m, type, value) ==
    /\ ReachedById(d, id, ends, m)
    /\ type # "" /\ value # ""

LEMMA ReachedMeans ==
    ASSUME NEW d, NEW id, NEW ends, NEW m, ReachedById(d, id, ends, m)
    PROVE  /\ m \in Nat \ {0} /\ IsSequence(Segments(id)) /\ m = Len(Segments(id))
           /\ d # 0 /\ d \in DOMAIN storage.docs
           /\ \A k \in 1 .. m :
                /\ OnTheWay(Upto(id, ends, k - 1), Segments(id)[k], Upto(id, ends, k))
                /\ k # m => IsDirectory(Upto(id, ends, k))
                /\ k = m => Upto(id, ends, k) = id /\ DocumentNumber(storage, id) = d
<1>1. m \in Nat \ {0} /\ IsSequence(Segments(id)) /\ m = Len(Segments(id))
  BY DEF ReachedById, EndsOf
<1>2. d \in DOMAIN storage.docs
  BY DEF ReachedById, Reachable
<1>3. d # 0
  <2>1. d \in Nat \ {0}
    BY <1>2, StorageDocuments DEF ReachedById
  <2> QED
    BY <2>1
<1> QED
  BY <1>1, <1>2, <1>3, WayToDocument

LEMMA BelowDocs ==
    ASSUME NEW u, NEW name, NEW e, OnTheWay(u, name, e)
    PROVE  /\ IsDirectory(e) => OpenPage(storage, DocidPage(u, TRUE), name) = DocidPage(e, TRUE)
           /\ DocumentNumber(storage, e) # 0
                => OpenPage(storage, DocidPage(u, TRUE), name) = DocumentPage(e, DocumentNumber(storage, e))
<1>1. name # "" /\ ~(u = "" /\ StartsWith(name, "_")) /\ e = Extended(u, name) /\ LastChar(e) # "*"
  BY DEF OnTheWay
<1>2. /\ DocumentNumber(storage, e) = 0 /\ IsValidDocumentIdPrefix(storage, e \o "/")
           => OpenPage(storage, DocidPage(u, TRUE), name) = DocidPage(e, TRUE)
      /\ DocumentNumber(storage, e) # 0
           => OpenPage(storage, DocidPage(u, TRUE), name) = DocumentPage(e, DocumentNumber(storage, e))
  BY ONLY <1>1, DownDocs
<1> QED
  BY <1>2, Zenon DEF IsDirectory

LEMMA BelowPostings ==
    ASSUME NEW type, NEW value, NEW u, NEW name, NEW e, OnTheWay(u, name, e),
           IsDirectory(e) \/ DocumentNumber(storage, e) # 0
    PROVE  OpenPage(storage, PostingsOf(type, value, u, 0), name)
             = PostingsOf(type, value, e, DocumentNumber(storage, e))
<1> DEFINE p == PostingsOf(type, value, u, 0)
<1>1. p.kind = "postings" /\ p.docno = 0 /\ p.id = u
  BY PostingsPages
<1>2. \A i, d : TermPostingsPage(p, i, d) = PostingsOf(type, value, i, d)
  BY PostingsPages
<1> HIDE DEF p
<1>3. ~(p.id = "" /\ StartsWith(name, "_")) /\ e = Extended(p.id, name)
  BY <1>1 DEF OnTheWay
<1>4. DocumentNumber(storage, e) # 0 \/ IsValidDocumentIdPrefix(storage, e)
  BY DEF IsDirectory
<1>5. p.kind = "postings" /\ p.docno = 0
  BY <1>1
<1>6. OpenPage(storage, p, name) = TermPostingsPage(p, e, DocumentNumber(storage, e))
  BY ONLY <1>3, <1>4, <1>5, DownPostings
<1> QED
  BY <1>2, <1>6 DEF p

LeadsTo(path, page) == OpenPath(storage, "storage", path) = page

\* Through the documents, the names of an id and a term lead to the positions of the term in the document.
LEMMA DocumentSide ==
    ASSUME NEW d, NEW id, NEW ends, NEW m, NEW type, NEW value, Reached(d, id, ends, m, type, value),
           NEW path, DocumentNames(path, Segments(id), m, type, value)
    PROVE  LeadsTo(path, DocumentPostingsPage(d, type, value, 0))
<1>0. ReachedById(d, id, ends, m) /\ type # ""
  BY DEF Reached
<1>1. /\ m \in Nat \ {0} /\ d # 0
      /\ \A k \in 1 .. m :
           /\ OnTheWay(Upto(id, ends, k - 1), Segments(id)[k], Upto(id, ends, k))
           /\ k # m => IsDirectory(Upto(id, ends, k))
           /\ k = m => Upto(id, ends, k) = id /\ DocumentNumber(storage, id) = d
  BY <1>0, ReachedMeans
<1>2. PICK n : n = m + 4
  OBVIOUS
<1>3. n \in Nat /\ Len(path) = n
  BY <1>1, <1>2 DEF DocumentNames
<1>4. PICK f : Opens(f, storage, "storage", path, Len(path)) /\ OpenPath(storage, "storage", path) = f[Len(path)]
  BY <1>3, OpensFollow
<1>5. /\ f[0] = PageOf("storage")
      /\ \A i \in Nat : i + 1 <= n /\ IsPage(f[i]) => f[i + 1] = OpenPage(storage, f[i], path[i + 1])
  BY <1>3, <1>4, FirstPage, NextPage
<1>6. f[1] = DocidPage("", TRUE)
  <2>1. 0 \in Nat /\ 0 + 1 <= n /\ 0 + 1 = 1
    BY <1>1, <1>2
  <2>2. f[1] = OpenPage(storage, f[0], path[1])
    BY <1>5, <2>1, PagesOnTheWay
  <2> QED
    BY <1>5, <2>2, DownDocument DEF DocumentNames
<1> DEFINE Found(k) == f[k + 1] = DocidPage(Upto(id, ends, k), TRUE)
           S        == {k \in Nat : k < m => Found(k)}
<1>7. 0 \in S
  <2>1. Upto(id, ends, 0) = ""
    BY DEF Upto
  <2>2. 0 + 1 = 1
    OBVIOUS
  <2> QED
    BY <1>6, <2>1, <2>2 DEF Found
<1>8. ASSUME NEW k \in Nat, k + 1 <= m, f[k + 1] = DocidPage(Upto(id, ends, k), TRUE)
      PROVE  /\ f[k + 2] = OpenPage(storage, DocidPage(Upto(id, ends, k), TRUE), Segments(id)[k + 1])
             /\ OnTheWay(Upto(id, ends, k), Segments(id)[k + 1], Upto(id, ends, k + 1))
  <2>1. /\ k + 1 \in Nat /\ (k + 1) + 1 <= n /\ (k + 1) + 1 = k + 2
        /\ k + 1 \in 1 .. m /\ 1 + (k + 1) = k + 2 /\ (k + 1) - 1 = k
    BY <1>1, <1>2, <1>8
  <2>2. IsPage(f[k + 1])
    BY <1>8, PagesOnTheWay
  <2>3. f[k + 2] = OpenPage(storage, f[k + 1], path[k + 2])
    BY <1>5, <2>1, <2>2
  <2>4. path[k + 2] = Segments(id)[k + 1]
    BY <2>1 DEF DocumentNames
  <2>5. OnTheWay(Upto(id, ends, k), Segments(id)[k + 1], Upto(id, ends, k + 1))
    BY <1>1, <2>1
  <2> QED
    BY <1>8, <2>3, <2>4, <2>5
<1>9. ASSUME NEW k \in Nat, k \in S
      PROVE  k + 1 \in S
  <2>1. ASSUME k + 1 < m
        PROVE  Found(k + 1)
    <3>1. k < m /\ k + 1 <= m /\ k + 1 \in 1 .. m /\ k + 1 # m /\ (k + 1) + 1 = k + 2
      BY <1>1, <2>1
    <3>2. f[k + 1] = DocidPage(Upto(id, ends, k), TRUE)
      BY <1>9, <3>1
    <3>3. IsDirectory(Upto(id, ends, k + 1))
      BY <1>1, <3>1
    <3> QED
      BY <1>8, <3>1, <3>2, <3>3, BelowDocs
  <2> HIDE DEF Found
  <2>2. k + 1 \in Nat
    OBVIOUS
  <2> QED
    BY <2>1, <2>2
<1> HIDE DEF S
<1>10. m - 1 \in S
  <2>1. m - 1 \in Nat
    BY <1>1
  <2> QED
    BY <1>7, <1>9, <2>1, Induction
<1>11. PICK k : k = m - 1
  OBVIOUS
<1>12. k \in Nat /\ k < m /\ k + 1 <= m /\ k + 1 = m /\ m \in 1 .. m /\ k + 2 = m + 1
  BY <1>1, <1>11
<1>13. f[k + 1] = DocidPage(Upto(id, ends, k), TRUE)
  BY <1>10, <1>11, <1>12 DEF S
<1>14. f[m + 1] = DocumentPage(id, d)
  <2>1. /\ f[k + 2] = OpenPage(storage, DocidPage(Upto(id, ends, k), TRUE), Segments(id)[k + 1])
        /\ OnTheWay(Upto(id, ends, k), Segments(id)[k + 1], Upto(id, ends, k + 1))
    BY <1>8, <1>12, <1>13
  <2>2. Upto(id, ends, k + 1) = id /\ DocumentNumber(storage, id) = d
    BY <1>1, <1>12
  <2>3. OpenPage(storage, DocidPage(Upto(id, ends, k), TRUE), Segments(id)[k + 1]) = DocumentPage(id, d)
    BY <1>1, <2>1, <2>2, BelowDocs
  <2> QED
    BY <1>12, <2>1, <2>3
<1>15. /\ m + 1 \in Nat /\ (m + 1) + 1 = m + 2 /\ m + 2 <= n
       /\ m + 2 \in Nat /\ (m + 2) + 1 = m + 3 /\ m + 3 <= n
       /\ m + 3 \in Nat /\ (m + 3) + 1 = m + 4 /\ m + 4 <= n
  BY <1>1, <1>2
<1>16. f[m + 2] = SearchIndexPage(d, "")
  <2>1. f[m + 2] = OpenPage(storage, f[m + 1], path[m + 2])
    BY <1>5, <1>14, <1>15, PagesOnTheWay
  <2>2. path[m + 2] = "sindex"
    BY DEF DocumentNames
  <2> QED
    <3>1. OpenPage(storage, DocumentPage(id, d), "sindex") = SearchIndexPage(d, "")
      BY DownDocument, Zenon
    <3> QED
      BY <1>14, <2>1, <2>2, <3>1
<1>17. f[m + 3] = SearchIndexPage(d, type)
  <2>1. f[m + 3] = OpenPage(storage, f[m + 2], path[m + 3])
    BY <1>5, <1>15, <1>16, PagesOnTheWay
  <2>2. path[m + 3] = type
    BY DEF DocumentNames
  <2> QED
    <3>1. OpenPage(storage, SearchIndexPage(d, ""), type) = SearchIndexPage(d, type)
      BY DownDocument, Zenon
    <3> QED
      BY <1>16, <2>1, <2>2, <3>1
<1>18. f[m + 4] = DocumentPostingsPage(d, type, value, 0)
  <2>1. f[m + 4] = OpenPage(storage, f[m + 3], path[m + 4])
    BY <1>5, <1>15, <1>17, PagesOnTheWay
  <2>2. path[m + 4] = value
    BY DEF DocumentNames
  <2> QED
    <3>1. OpenPage(storage, SearchIndexPage(d, type), value) = DocumentPostingsPage(d, type, value, 0)
      BY <1>0, DownDocument, Zenon
    <3> QED
      BY <1>17, <2>1, <2>2, <3>1
<1> QED
  BY <1>2, <1>3, <1>4, <1>18 DEF LeadsTo

\* Through the terms, a term and the names of an id lead to the same positions.
LEMMA TermSide ==
    ASSUME NEW d, NEW id, NEW ends, NEW m, NEW type, NEW value, Reached(d, id, ends, m, type, value),
           NEW path, TermNames(path, Segments(id), m, type, value)
    PROVE  LeadsTo(path, PositionsOf(storage, d, type, value))
<1>0. ReachedById(d, id, ends, m) /\ type # "" /\ value # ""
  BY DEF Reached
<1>1. /\ m \in Nat \ {0} /\ d # 0
      /\ \A k \in 1 .. m :
           /\ OnTheWay(Upto(id, ends, k - 1), Segments(id)[k], Upto(id, ends, k))
           /\ k # m => IsDirectory(Upto(id, ends, k))
           /\ k = m => Upto(id, ends, k) = id /\ DocumentNumber(storage, id) = d
  BY <1>0, ReachedMeans
<1>2. PICK n : n = m + 5
  OBVIOUS
<1>3. n \in Nat /\ Len(path) = n
  BY <1>1, <1>2 DEF TermNames
<1>4. PICK f : Opens(f, storage, "storage", path, Len(path)) /\ OpenPath(storage, "storage", path) = f[Len(path)]
  BY <1>3, OpensFollow
<1>5. /\ f[0] = PageOf("storage")
      /\ \A i \in Nat : i + 1 <= n /\ IsPage(f[i]) => f[i + 1] = OpenPage(storage, f[i], path[i + 1])
  BY <1>3, <1>4, FirstPage, NextPage
<1>6. f[4] = PostingsOf(type, value, "", 0)
  <2>1. /\ 0 \in Nat /\ 0 + 1 <= n /\ 0 + 1 = 1 /\ 1 \in Nat /\ 1 + 1 <= n /\ 1 + 1 = 2
        /\ 2 \in Nat /\ 2 + 1 <= n /\ 2 + 1 = 3 /\ 3 \in Nat /\ 3 + 1 <= n /\ 3 + 1 = 4
    BY <1>1, <1>2
  <2>2. path[1] = "term" /\ path[2] = type /\ path[3] = value /\ path[4] = "postings"
    BY DEF TermNames
  <2>3. f[1] = OpenPage(storage, f[0], path[1])
    BY <1>5, <2>1, PagesOnTheWay
  <2>4. OpenPage(storage, PageOf("storage"), "term") = TermPage("", "")
    BY <1>0, DownTerm, Zenon
  <2>5. f[1] = TermPage("", "")
    BY <1>5, <2>2, <2>3, <2>4
  <2>6. f[2] = OpenPage(storage, f[1], path[2])
    BY <1>5, <2>1, <2>5, PagesOnTheWay
  <2>7. OpenPage(storage, TermPage("", ""), type) = TermPage(type, "")
    BY <1>0, DownTerm, Zenon
  <2>8. f[2] = TermPage(type, "")
    BY <2>2, <2>5, <2>6, <2>7
  <2>9. f[3] = OpenPage(storage, f[2], path[3])
    BY <1>5, <2>1, <2>8, PagesOnTheWay
  <2>10. OpenPage(storage, TermPage(type, ""), value) = TermPage(type, value)
    BY <1>0, DownTerm, Zenon
  <2>11. f[3] = TermPage(type, value)
    BY <2>2, <2>8, <2>9, <2>10
  <2>12. f[4] = OpenPage(storage, f[3], path[4])
    BY <1>5, <2>1, <2>11, PagesOnTheWay
  <2>13. OpenPage(storage, TermPage(type, value), "postings") = PostingsOf(type, value, "", 0)
    BY <1>0, DownTerm, Zenon
  <2> QED
    BY <2>2, <2>11, <2>12, <2>13
<1> DEFINE Found(k) == f[k + 4] = PostingsOf(type, value, Upto(id, ends, k), 0)
           S        == {k \in Nat : k < m => Found(k)}
<1>7. 0 \in S
  <2>1. Upto(id, ends, 0) = ""
    BY DEF Upto
  <2>2. 0 + 4 = 4
    OBVIOUS
  <2>3. Found(0)
    BY <1>6, <2>1, <2>2
  <2> HIDE DEF Found
  <2> QED
    BY <2>3
<1>8. ASSUME NEW k \in Nat, k + 1 <= m, f[k + 4] = PostingsOf(type, value, Upto(id, ends, k), 0)
      PROVE  /\ f[k + 5] = OpenPage(storage, PostingsOf(type, value, Upto(id, ends, k), 0), Segments(id)[k + 1])
             /\ OnTheWay(Upto(id, ends, k), Segments(id)[k + 1], Upto(id, ends, k + 1))
  <2>1. /\ k + 4 \in Nat /\ (k + 4) + 1 <= n /\ (k + 4) + 1 = k + 5
        /\ k + 1 \in 1 .. m /\ 4 + (k + 1) = k + 5 /\ (k + 1) - 1 = k
    BY <1>1, <1>2, <1>8
  <2>2. IsPage(f[k + 4])
    BY <1>8, PagesOnTheWay
  <2>3. f[k + 5] = OpenPage(storage, f[k + 4], path[k + 5])
    BY <1>5, <2>1, <2>2
  <2>4. path[k + 5] = Segments(id)[k + 1]
    BY <2>1 DEF TermNames
  <2>5. OnTheWay(Upto(id, ends, k), Segments(id)[k + 1], Upto(id, ends, k + 1))
    BY <1>1, <2>1
  <2> QED
    BY <1>8, <2>3, <2>4, <2>5
<1>9. ASSUME NEW k \in Nat, k \in S
      PROVE  k + 1 \in S
  <2>1. ASSUME k + 1 < m
        PROVE  Found(k + 1)
    <3>1. k < m /\ k + 1 <= m /\ k + 1 \in 1 .. m /\ k + 1 # m /\ (k + 1) + 4 = k + 5
      BY <1>1, <2>1
    <3>2. f[k + 4] = PostingsOf(type, value, Upto(id, ends, k), 0)
      BY <1>9, <3>1
    <3>3. IsDirectory(Upto(id, ends, k + 1)) /\ DocumentNumber(storage, Upto(id, ends, k + 1)) = 0
      BY <1>1, <3>1 DEF IsDirectory
    <3> QED
      BY <1>8, <3>1, <3>2, <3>3, BelowPostings
  <2> HIDE DEF Found
  <2>2. k + 1 \in Nat
    OBVIOUS
  <2> QED
    BY <2>1, <2>2
<1> HIDE DEF S
<1>10. m - 1 \in S
  <2>1. m - 1 \in Nat
    BY <1>1
  <2> QED
    BY <1>7, <1>9, <2>1, Induction
<1>11. PICK k : k = m - 1
  OBVIOUS
<1>12. k \in Nat /\ k < m /\ k + 1 <= m /\ k + 1 = m /\ m \in 1 .. m /\ k + 5 = m + 4
  BY <1>1, <1>11
<1>13. f[k + 4] = PostingsOf(type, value, Upto(id, ends, k), 0)
  BY <1>10, <1>11, <1>12 DEF S
<1>14. f[m + 4] = PostingsOf(type, value, id, d)
  <2>1. /\ f[k + 5] = OpenPage(storage, PostingsOf(type, value, Upto(id, ends, k), 0), Segments(id)[k + 1])
        /\ OnTheWay(Upto(id, ends, k), Segments(id)[k + 1], Upto(id, ends, k + 1))
    BY <1>8, <1>12, <1>13
  <2>2. Upto(id, ends, k + 1) = id /\ DocumentNumber(storage, id) = d
    BY <1>1, <1>12
  <2>3. OpenPage(storage, PostingsOf(type, value, Upto(id, ends, k), 0), Segments(id)[k + 1])
          = PostingsOf(type, value, id, d)
    BY <1>1, <2>1, <2>2, BelowPostings
  <2> QED
    BY <1>12, <2>1, <2>3
<1>15. f[m + 5] = PositionsOf(storage, d, type, value)
  <2>1. m + 4 \in Nat /\ (m + 4) + 1 = m + 5 /\ m + 5 <= n
    BY <1>1, <1>2
  <2>2. f[m + 5] = OpenPage(storage, f[m + 4], path[m + 5])
    BY <1>5, <1>14, <2>1, PagesOnTheWay
  <2>3. path[m + 5] = "pos"
    BY DEF TermNames
  <2>4. OpenPage(storage, PostingsOf(type, value, id, d), "pos")
          = PositionsOf(storage, d, type, value)
    <3>1. d # 0
      BY <1>1
    <3> QED
      BY <3>1, DownPositions
  <2> QED
    BY <1>14, <2>2, <2>3, <2>4
<1> QED
  BY <1>2, <1>3, <1>4, <1>15 DEF LeadsTo

LEMMA SidesOfADocument ==
    ASSUME StorageInv, IdsDiffer, NEW d \in Reachable(storage),
           PlainId(storage.docs[d].id), StarlessId(storage.docs[d].id),
           NEW type, type # "", NEW value, value # ""
    PROVE  FromDocument(storage, d, type, value) = FromTerm(storage, d, type, value)
<1>1. d \in DOMAIN storage.docs
  BY DEF Reachable
<1>2. PICK id : id = storage.docs[d].id
  OBVIOUS
<1>3. id \in Text
  BY <1>1, <1>2, StorageDocuments DEF IsText, Text
<1>4. PICK ends, m : EndsOf(id, ends, m)
  BY <1>3, SegmentsEnd
<1>5. ReachedById(d, id, ends, m)
  BY <1>2, <1>4 DEF ReachedById
<1>6. Reached(d, id, ends, m, type, value)
  BY <1>5 DEF Reached
<1>7. IsSequence(Segments(id)) /\ m = Len(Segments(id))
  BY <1>5, ReachedMeans
<1>8. PICK path : path = <<"doc">> \o Segments(id) \o <<"sindex", type, value>>
  OBVIOUS
<1>9. DocumentNames(path, Segments(id), m, type, value)
  BY <1>7, <1>8, DocumentPathNames
<1>10. LeadsTo(path, DocumentPostingsPage(d, type, value, 0))
  BY <1>6, <1>9, DocumentSide
<1>11. PICK other : other = <<"term", type, value, "postings">> \o Segments(id) \o <<"pos">>
  OBVIOUS
<1>12. TermNames(other, Segments(id), m, type, value)
  BY <1>7, <1>11, TermPathNames
<1>13. LeadsTo(other, PositionsOf(storage, d, type, value))
  BY <1>6, <1>12, TermSide
<1>14. \A t \in Document(storage, d).search : t.pos \in Nat
  BY <1>1, StorageDocuments, ContentAssumption
<1>15. Content(storage, DocumentPostingsPage(d, type, value, 0))
         = Content(storage, PositionsOf(storage, d, type, value))
  BY <1>14, ShownPositions
<1>16. FromDocument(storage, d, type, value) = Content(storage, OpenPath(storage, "storage", path))
  BY <1>2, <1>8 DEF FromDocument
<1>17. FromTerm(storage, d, type, value) = Content(storage, OpenPath(storage, "storage", other))
  BY <1>2, <1>11 DEF FromTerm
<1> QED
  BY <1>10, <1>13, <1>15, <1>16, <1>17 DEF LeadsTo

\* Whatever is inserted and deleted, the positions shown for a term below a document are those
\* shown for the document below the term, when ids are plain, no part of an id ends like a prefix
\* and every term has a type and a value.
THEOREM SidesAlwaysAgree ==
    ASSUME PlainIds, StarlessIds, NamedTerms
    PROVE  Spec => []SidesAgree
<1>1. Init => IdsDiffer
  BY IdsDifferInit
<1>2. StorageInv /\ IdsDiffer /\ [Next]_vars => IdsDiffer'
  BY IdsDifferAfter
<1>3. StorageInv /\ IdsDiffer => SidesAgree
  <2> SUFFICES ASSUME StorageInv, IdsDiffer, NEW d \in Reachable(storage),
                      NEW type \in storage.types, NEW value \in TermValues(storage)
               PROVE  FromDocument(storage, d, type, value) = FromTerm(storage, d, type, value)
    BY DEF SidesAgree
  <2>1. d \in DOMAIN storage.docs
    BY DEF Reachable
  <2>2. PlainId(storage.docs[d].id) /\ StarlessId(storage.docs[d].id)
    BY <2>1, StorageDocuments DEF PlainIds, StarlessIds
  <2>3. type # ""
    BY DEF IdsDiffer
  <2>4. value # ""
    <3>1. PICK e \in DOMAIN storage.docs : \E t \in storage.docs[e].search : t.value = value
      BY DEF TermValues
    <3>2. storage.docs[e] \in Contents
      BY <3>1, StorageDocuments
    <3> QED
      BY <3>1, <3>2 DEF NamedTerms
  <2> QED
    BY <2>2, <2>3, <2>4, SidesOfADocument
<1> QED
  BY <1>1, <1>2, <1>3, StorageInvariant, PTL DEF Spec

=============================================================================
