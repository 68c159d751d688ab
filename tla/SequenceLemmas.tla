--------------------------- MODULE SequenceLemmas ---------------------------
(***************************************************************************)
(* Facts about sequences and finite sets that the proofs of several        *)
(* modules need: how often the elements of a set occur in a sequence, and  *)
(* what the operators for taking out, putting in and turning round do to   *)
(* that.                                                                   *)
(***************************************************************************)
EXTENDS Integers, SequencesExt, FiniteSetTheorems, FunctionTheorems,
        SequenceTheorems, WellFoundedInduction, TLAPS

\* Where the elements of X stand in s, and how many there are.
Places(s, X) == {i \in DOMAIN s : s[i] \in X}
Occurs(s, X) == Cardinality(Places(s, X))

-----------------------------------------------------------------------------
(* Finite sets.                                                            *)

\* Sets with a bijection between them have as many elements.
LEMMA BijectionCounts ==
  ASSUME NEW S, NEW T, IsFiniteSet(S), NEW f \in [S -> T],
         \A a, b \in S : f[a] = f[b] => a = b,
         \A t \in T : \E s \in S : f[s] = t
  PROVE  IsFiniteSet(T) /\ Cardinality(T) = Cardinality(S)
<1>1. f \in Bijection(S, T)
  BY Fun_IsBij
<1>2. ExistsBijection(S, T)
  BY <1>1 DEF ExistsBijection
<1> QED
  BY <1>2, FS_Bijection

\* Sets without a common element add up.
LEMMA DisjointUnion ==
  ASSUME NEW S, NEW T, IsFiniteSet(S), IsFiniteSet(T), S \cap T = {}
  PROVE  /\ IsFiniteSet(S \cup T)
         /\ Cardinality(S \cup T) = Cardinality(S) + Cardinality(T)
<1>1. /\ IsFiniteSet(S \cup T)
      /\ Cardinality(S \cup T) = Cardinality(S) + Cardinality(T) - Cardinality(S \cap T)
  BY FS_Union
<1>2. Cardinality(S \cap T) = 0
  BY FS_EmptySet
<1>3. Cardinality(S) \in Nat /\ Cardinality(T) \in Nat
  BY FS_CardinalityType
<1> QED
  BY <1>1, <1>2, <1>3

\* A set of natural numbers that has an element has a least one.
LEMMA LeastNatural ==
  ASSUME NEW S \in SUBSET Nat, S # {}
  PROVE  \E x \in S : \A y \in S : x <= y
<1>1. \E x \in S : \A y \in S : <<y, x>> \notin OpToRel(<, Nat)
  BY NatLessThanWellFounded, WFMin
<1>2. PICK x \in S : \A y \in S : <<y, x>> \notin OpToRel(<, Nat)
  BY <1>1
<1>3. ASSUME NEW y \in S PROVE x <= y
  <2>1. x \in Nat /\ y \in Nat
    BY <1>2
  <2>2. ~(y < x)
    BY <1>2, <2>1 DEF OpToRel
  <2> QED
    BY <2>1, <2>2
<1> QED
  BY <1>2, <1>3

\* So does Min.
LEMMA MinProperties ==
  ASSUME NEW S \in SUBSET Nat, S # {}
  PROVE  Min(S) \in S /\ \A y \in S : Min(S) <= y
  BY LeastNatural DEF Min

\* And Max, where the numbers have a bound.
LEMMA MaxProperties ==
  ASSUME NEW S \in SUBSET Nat, S # {}, NEW b \in Nat, \A x \in S : x <= b
  PROVE  Max(S) \in S /\ \A y \in S : y <= Max(S)
<1>1. {b - x : x \in S} \in SUBSET Nat /\ {b - x : x \in S} # {}
  <2>1. ASSUME NEW x \in S PROVE b - x \in Nat
    BY x \in Nat /\ x <= b
  <2>2. PICK x \in S : TRUE
    OBVIOUS
  <2> QED
    BY <2>1, <2>2
<1>2. PICK z \in {b - x : x \in S} : \A y \in {b - x : x \in S} : z <= y
  BY <1>1, LeastNatural
<1>3. PICK x \in S : z = b - x
  OBVIOUS
<1>4. ASSUME NEW y \in S PROVE x >= y
  <2>1. b - x <= b - y
    BY <1>2, <1>3
  <2> QED
    BY <2>1
<1>5. Max(S) \in S /\ \A y \in S : Max(S) >= y
  BY <1>4 DEF Max
<1> QED
  BY <1>5

-----------------------------------------------------------------------------
(* Occurrences.                                                            *)

\* A sequence has finitely many places.
LEMMA PlacesFinite ==
  ASSUME NEW S, NEW s \in Seq(S), NEW X
  PROVE  /\ IsFiniteSet(Places(s, X))
         /\ Occurs(s, X) \in Nat
         /\ Occurs(s, X) = 0 <=> \A i \in DOMAIN s : s[i] \notin X
<1>1. DOMAIN s = 1 .. Len(s) /\ Len(s) \in Nat
  OBVIOUS
<1>2. IsFiniteSet(1 .. Len(s))
  BY <1>1, FS_Interval
<1>3. Places(s, X) \in SUBSET (1 .. Len(s))
  BY <1>1 DEF Places
<1>4. IsFiniteSet(Places(s, X))
  BY <1>2, <1>3, FS_Subset
<1> QED
  BY <1>4, FS_CardinalityType, FS_EmptySet DEF Occurs, Places

\* Nothing occurs in the empty sequence.
LEMMA OccursNowhere ==
  ASSUME NEW X
  PROVE  Occurs(<<>>, X) = 0
<1>1. Places(<<>>, X) = {}
  BY DEF Places
<1> QED
  BY <1>1, FS_EmptySet DEF Occurs

\* A sequence of one element.
LEMMA OccursOnce ==
  ASSUME NEW X, NEW y
  PROVE  Occurs(<<y>>, X) = IF y \in X THEN 1 ELSE 0
<1>1. Places(<<y>>, X) = IF y \in X THEN {1} ELSE {}
  BY DEF Places
<1> QED
  BY <1>1, FS_EmptySet, FS_Singleton DEF Occurs

\* What occurs in s \o t occurs in one of both.
LEMMA OccursConcat ==
  ASSUME NEW S, NEW s \in Seq(S), NEW t \in Seq(S), NEW X
  PROVE  Occurs(s \o t, X) = Occurs(s, X) + Occurs(t, X)
<1> DEFINE n == Len(s)
           moved == {i \in n + 1 .. n + Len(t) : t[i - n] \in X}
           f == [i \in Places(t, X) |-> i + n]
<1>1. /\ s \o t \in Seq(S) /\ Len(s \o t) = n + Len(t)
      /\ \A i \in 1 .. n + Len(t) : (s \o t)[i] = IF i <= n THEN s[i] ELSE t[i - n]
  BY ConcatProperties
<1>2. n \in Nat /\ Len(t) \in Nat /\ DOMAIN s = 1 .. n /\ DOMAIN t = 1 .. Len(t)
      /\ DOMAIN (s \o t) = 1 .. n + Len(t)
  BY <1>1, LenProperties
<1>3. Places(s \o t, X) = Places(s, X) \cup moved
  BY <1>1, <1>2 DEF Places
<1>4. Places(s, X) \cap moved = {}
  BY <1>2 DEF Places
<1>5. IsFiniteSet(Places(s, X)) /\ IsFiniteSet(Places(t, X))
  BY PlacesFinite
<1>6. IsFiniteSet(moved) /\ Cardinality(moved) = Cardinality(Places(t, X))
  <2>1. f \in [Places(t, X) -> moved]
    BY <1>2 DEF Places
  <2>2. \A a, b \in Places(t, X) : f[a] = f[b] => a = b
    BY <1>2 DEF Places
  <2>3. ASSUME NEW m \in moved PROVE \E i \in Places(t, X) : f[i] = m
    <3>1. m - n \in Places(t, X) /\ f[m - n] = m
      BY <1>2, <2>3 DEF Places
    <3> QED
      BY <3>1
  <2> HIDE DEF moved, f
  <2> QED
    BY <1>5, <2>1, <2>2, <2>3, BijectionCounts
<1> HIDE DEF moved
<1>7. Cardinality(Places(s, X) \cup moved) = Cardinality(Places(s, X)) + Cardinality(moved)
  BY <1>4, <1>5, <1>6, DisjointUnion
<1> QED
  BY <1>3, <1>6, <1>7 DEF Occurs

\* What occurs in a sequence is its head, or occurs in its tail.
LEMMA OccursHeadTail ==
  ASSUME NEW S, NEW s \in Seq(S), s # <<>>, NEW X
  PROVE  /\ Occurs(s, X) = (IF Head(s) \in X THEN 1 ELSE 0) + Occurs(Tail(s), X)
         /\ Occurs(Tail(s), X) \in Nat
<1>1. /\ Len(s) \in Nat \ {0} /\ Head(s) \in S /\ Tail(s) \in Seq(S)
      /\ Len(Tail(s)) = Len(s) - 1 /\ \A i \in 1 .. Len(Tail(s)) : Tail(s)[i] = s[i + 1]
      /\ Head(s) = s[1]
  OBVIOUS
<1>2. <<Head(s)>> \in Seq(S) /\ Len(<<Head(s)>>) = 1 /\ <<Head(s)>>[1] = s[1]
  BY <1>1
<1>3. s = <<Head(s)>> \o Tail(s)
  <2>1. /\ <<Head(s)>> \o Tail(s) \in Seq(S)
        /\ Len(<<Head(s)>> \o Tail(s)) = Len(<<Head(s)>>) + Len(Tail(s))
        /\ \A i \in 1 .. Len(<<Head(s)>>) + Len(Tail(s)) : (<<Head(s)>> \o Tail(s))[i] =
              IF i <= Len(<<Head(s)>>) THEN <<Head(s)>>[i] ELSE Tail(s)[i - Len(<<Head(s)>>)]
    BY <1>1, <1>2, ConcatProperties
  <2>2. Len(s) = Len(<<Head(s)>> \o Tail(s))
    BY <1>1, <1>2, <2>1
  <2>3. ASSUME NEW i \in 1 .. Len(s) PROVE s[i] = (<<Head(s)>> \o Tail(s))[i]
    <3>1. CASE i = 1
      BY <1>1, <1>2, <2>1, <3>1
    <3>2. CASE i # 1
      <4>1. i - 1 \in 1 .. Len(Tail(s)) /\ (i - 1) + 1 = i /\ ~(i <= 1)
        BY <1>1, <3>2
      <4>2. Tail(s)[i - 1] = s[i]
        BY <1>1, <4>1
      <4> QED
        BY <1>1, <1>2, <2>1, <4>1, <4>2
    <3> QED
      BY <3>1, <3>2
  <2> QED
    BY <2>1, <2>2, <2>3, SeqEqual
<1>4. Occurs(<<Head(s)>> \o Tail(s), X) = Occurs(<<Head(s)>>, X) + Occurs(Tail(s), X)
  BY <1>1, <1>2, OccursConcat, ZenonT(30)
<1>5. Occurs(<<Head(s)>>, X) = IF Head(s) \in X THEN 1 ELSE 0
  BY OccursOnce
<1>6. Occurs(Tail(s), X) \in Nat
  BY <1>1, PlacesFinite
<1> QED
  BY <1>3, <1>4, <1>5, <1>6

\* Turning a sequence round keeps how often everything occurs.
LEMMA OccursReverse ==
  ASSUME NEW S, NEW s \in Seq(S), NEW X
  PROVE  /\ Reverse(s) \in Seq(S) /\ Len(Reverse(s)) = Len(s)
         /\ Occurs(Reverse(s), X) = Occurs(s, X)
<1> DEFINE n == Len(s)
           f == [i \in Places(s, X) |-> n - i + 1]
<1>1. n \in Nat /\ DOMAIN s = 1 .. n /\ \A i \in 1 .. n : s[i] \in S
  OBVIOUS
<1>2. /\ Reverse(s) \in Seq(S) /\ Len(Reverse(s)) = n
      /\ \A i \in 1 .. n : Reverse(s)[i] = s[n - i + 1]
  <2>1. Reverse(s) \in [1 .. n -> S]
    BY <1>1 DEF Reverse
  <2> QED
    BY <1>1, <2>1 DEF Reverse
<1>3. f \in [Places(s, X) -> Places(Reverse(s), X)]
  BY <1>1, <1>2 DEF Places
<1>4. \A a, b \in Places(s, X) : f[a] = f[b] => a = b
  BY <1>1 DEF Places
<1>5. ASSUME NEW m \in Places(Reverse(s), X) PROVE \E i \in Places(s, X) : f[i] = m
  <2>1. n - m + 1 \in Places(s, X) /\ f[n - m + 1] = m
    BY <1>1, <1>2, <1>5 DEF Places
  <2> QED
    BY <2>1
<1>6. IsFiniteSet(Places(s, X))
  BY PlacesFinite
<1> HIDE DEF f
<1> QED
  BY <1>2, <1>3, <1>4, <1>5, <1>6, BijectionCounts DEF Occurs

\* The parts of a sequence before and from place p.
LEMMA SplitAt ==
  ASSUME NEW S, NEW s \in Seq(S), NEW p \in 1 .. Len(s) + 1
  PROVE  /\ SubSeq(s, 1, p - 1) \in Seq(S) /\ SubSeq(s, p, Len(s)) \in Seq(S)
         /\ Len(SubSeq(s, 1, p - 1)) = p - 1
         /\ Len(SubSeq(s, p, Len(s))) = Len(s) - p + 1
         /\ s = SubSeq(s, 1, p - 1) \o SubSeq(s, p, Len(s))
<1>1. Len(s) \in Nat /\ p \in Int /\ 1 <= p /\ p <= Len(s) + 1
  OBVIOUS
<1>2. SubSeq(s, 1, p - 1) \o SubSeq(s, (p - 1) + 1, Len(s)) = SubSeq(s, 1, Len(s))
  <2>1. /\ 1 \in 1 .. Len(s) + 1
        /\ p - 1 \in 1 - 1 .. Len(s)
        /\ Len(s) \in p - 1 .. Len(s)
    BY <1>1
  <2> QED
    BY <2>1, ConcatAdjacentSubSeq
<1>3. SubSeq(s, 1, Len(s)) = s
  BY SubSeqFull
<1>4. /\ SubSeq(s, 1, p - 1) \in Seq(S)
      /\ Len(SubSeq(s, 1, p - 1)) = IF 1 <= p - 1 THEN p - 1 - 1 + 1 ELSE 0
  BY <1>1, SubSeqProperties, \A i \in 1 .. p - 1 : s[i] \in S
<1>5. /\ SubSeq(s, p, Len(s)) \in Seq(S)
      /\ Len(SubSeq(s, p, Len(s))) = IF p <= Len(s) THEN Len(s) - p + 1 ELSE 0
  BY <1>1, SubSeqProperties, \A i \in p .. Len(s) : s[i] \in S
<1>6. (p - 1) + 1 = p
  BY <1>1
<1>7. Len(SubSeq(s, 1, p - 1)) = p - 1
  BY <1>1, <1>4
<1>8. Len(SubSeq(s, p, Len(s))) = Len(s) - p + 1
  BY <1>1, <1>5
<1>9. s = SubSeq(s, 1, p - 1) \o SubSeq(s, p, Len(s))
  BY <1>2, <1>3, <1>6
<1> QED
  BY <1>4, <1>5, <1>7, <1>8, <1>9

\* What InsertAt puts where.
LEMMA InsertAtProperties ==
  ASSUME NEW S, NEW s \in Seq(S), NEW p \in 1 .. Len(s) + 1, NEW y \in S
  PROVE  /\ InsertAt(s, p, y) \in Seq(S)
         /\ Len(InsertAt(s, p, y)) = Len(s) + 1
         /\ InsertAt(s, p, y)[p] = y
         /\ \A i \in 1 .. p - 1 : InsertAt(s, p, y)[i] = s[i]
         /\ \A i \in p .. Len(s) : InsertAt(s, p, y)[i + 1] = s[i]
<1> DEFINE a == SubSeq(s, 1, p - 1)
           b == SubSeq(s, p, Len(s))
<1>1. /\ a \in Seq(S) /\ b \in Seq(S) /\ Len(a) = p - 1 /\ Len(b) = Len(s) - p + 1
      /\ s = a \o b
  BY SplitAt
<1>2. <<y>> \in Seq(S) /\ Len(<<y>>) = 1 /\ <<y>>[1] = y
  OBVIOUS
<1>3. InsertAt(s, p, y) = (a \o <<y>>) \o b
  BY DEF InsertAt
<1>4. /\ a \o <<y>> \in Seq(S) /\ Len(a \o <<y>>) = p
      /\ \A i \in 1 .. p : (a \o <<y>>)[i] = IF i <= p - 1 THEN a[i] ELSE <<y>>[i - (p - 1)]
  <2>1. /\ a \o <<y>> \in Seq(S) /\ Len(a \o <<y>>) = Len(a) + Len(<<y>>)
        /\ \A i \in 1 .. Len(a) + Len(<<y>>) :
              (a \o <<y>>)[i] = IF i <= Len(a) THEN a[i] ELSE <<y>>[i - Len(a)]
    BY <1>1, <1>2, ConcatProperties
  <2>2. Len(a) + Len(<<y>>) = p
    BY <1>1, <1>2
  <2> HIDE DEF a
  <2> QED
    BY <2>1, <2>2, <1>1
<1>5. /\ (a \o <<y>>) \o b \in Seq(S) /\ Len((a \o <<y>>) \o b) = Len(s) + 1
      /\ \A i \in 1 .. Len(s) + 1 :
            ((a \o <<y>>) \o b)[i] = IF i <= p THEN (a \o <<y>>)[i] ELSE b[i - p]
  <2>1. /\ (a \o <<y>>) \o b \in Seq(S)
        /\ Len((a \o <<y>>) \o b) = Len(a \o <<y>>) + Len(b)
        /\ \A i \in 1 .. Len(a \o <<y>>) + Len(b) :
              ((a \o <<y>>) \o b)[i] =
                 IF i <= Len(a \o <<y>>) THEN (a \o <<y>>)[i] ELSE b[i - Len(a \o <<y>>)]
    BY <1>1, <1>4, ConcatProperties
  <2>2. Len(a \o <<y>>) + Len(b) = Len(s) + 1
    BY <1>1, <1>4
  <2> QED
    BY <2>1, <2>2, <1>4
<1>6. \A i \in 1 .. Len(s) : s[i] = IF i <= p - 1 THEN a[i] ELSE b[i - (p - 1)]
  <2>1. \A i \in 1 .. Len(a) + Len(b) : (a \o b)[i] = IF i <= Len(a) THEN a[i] ELSE b[i - Len(a)]
    BY <1>1, ConcatProperties
  <2>2. Len(a) + Len(b) = Len(s)
    BY <1>1
  <2> QED
    BY <2>1, <2>2, <1>1
<1>8. Len(s) \in Nat /\ p \in 1 .. Len(s) + 1
  OBVIOUS
<1> HIDE DEF a, b
<1>9. ((a \o <<y>>) \o b)[p] = y
  <2>1. p \in 1 .. p /\ p <= p /\ ~(p <= p - 1) /\ p - (p - 1) = 1
    BY <1>8
  <2> QED
    BY <2>1, <1>2, <1>4, <1>5
<1>10. ASSUME NEW i \in 1 .. p - 1 PROVE ((a \o <<y>>) \o b)[i] = s[i]
  <2>1. i \in 1 .. p /\ i <= p /\ i <= p - 1 /\ i \in 1 .. Len(s) /\ i \in 1 .. Len(s) + 1
    BY <1>8
  <2> QED
    BY <2>1, <1>4, <1>5, <1>6
<1>11. ASSUME NEW i \in p .. Len(s) PROVE ((a \o <<y>>) \o b)[i + 1] = s[i]
  <2>1. /\ i \in 1 .. Len(s) /\ ~(i <= p - 1) /\ i - (p - 1) = (i + 1) - p
        /\ ~(i + 1 <= p) /\ i + 1 \in 1 .. Len(s) + 1
    BY <1>8
  <2> QED
    BY <2>1, <1>5, <1>6
<1> QED
  BY <1>3, <1>5, <1>9, <1>10, <1>11

\* The same for one place.
LEMMA InsertAtPlace ==
  ASSUME NEW S, NEW s \in Seq(S), NEW p \in 1 .. Len(s) + 1, NEW y \in S,
         NEW i \in 1 .. Len(s)
  PROVE  InsertAt(s, p, y)[IF i < p THEN i ELSE i + 1] = s[i]
<1>1. CASE i \in 1 .. p - 1
  BY <1>1, InsertAtProperties
<1>2. CASE i \in p .. Len(s)
  BY <1>2, InsertAtProperties
<1> QED
  BY <1>1, <1>2

\* Only the new value occurs more often.
LEMMA InsertAtOccurs ==
  ASSUME NEW S, NEW s \in Seq(S), NEW p \in 1 .. Len(s) + 1, NEW y \in S, NEW X
  PROVE  Occurs(InsertAt(s, p, y), X) = Occurs(s, X) + (IF y \in X THEN 1 ELSE 0)
<1> DEFINE a == SubSeq(s, 1, p - 1)
           b == SubSeq(s, p, Len(s))
<1>1. a \in Seq(S) /\ b \in Seq(S) /\ s = a \o b
  BY SplitAt
<1>2. <<y>> \in Seq(S) /\ a \o <<y>> \in Seq(S)
  <2>1. <<y>> \in Seq(S)
    OBVIOUS
  <2> HIDE DEF a, b
  <2> QED
    BY <1>1, <2>1, ConcatProperties
<1>3. InsertAt(s, p, y) = (a \o <<y>>) \o b
  BY DEF InsertAt
<1>4. Occurs((a \o <<y>>) \o b, X) = Occurs(a \o <<y>>, X) + Occurs(b, X)
  BY <1>1, <1>2, OccursConcat
<1>5. Occurs(a \o <<y>>, X) = Occurs(a, X) + Occurs(<<y>>, X)
  BY <1>1, <1>2, OccursConcat, ZenonT(30)
<1>6. Occurs(a \o b, X) = Occurs(a, X) + Occurs(b, X)
  BY <1>1, OccursConcat
<1>7. Occurs(<<y>>, X) = IF y \in X THEN 1 ELSE 0
  BY OccursOnce
<1>8. Occurs(a, X) \in Nat /\ Occurs(b, X) \in Nat
  BY <1>1, PlacesFinite
<1>9. Occurs(s, X) = Occurs(a \o b, X)
  BY <1>1
<1> HIDE DEF a, b
<1> QED
  BY <1>3, <1>4, <1>5, <1>6, <1>7, <1>8, <1>9

\* What RemoveAt leaves where, and that InsertAt undoes it.
LEMMA RemoveAtProperties ==
  ASSUME NEW S, NEW s \in Seq(S), NEW p \in 1 .. Len(s)
  PROVE  /\ RemoveAt(s, p) \in Seq(S)
         /\ Len(RemoveAt(s, p)) = Len(s) - 1
         /\ \A i \in 1 .. p - 1 : RemoveAt(s, p)[i] = s[i]
         /\ \A i \in p .. Len(s) - 1 : RemoveAt(s, p)[i] = s[i + 1]
         /\ s = InsertAt(RemoveAt(s, p), p, s[p])
<1> DEFINE a == SubSeq(s, 1, p - 1)
           b == SubSeq(s, p + 1, Len(s))
<1>1. Len(s) \in Nat /\ p \in Nat /\ 1 <= p /\ p <= Len(s)
  OBVIOUS
<1>2. a \in Seq(S) /\ Len(a) = p - 1
  BY <1>1, SplitAt
<1>3. b \in Seq(S) /\ Len(b) = Len(s) - p
  <2>1. p + 1 \in 1 .. Len(s) + 1
    BY <1>1
  <2>2. SubSeq(s, p + 1, Len(s)) \in Seq(S)
        /\ Len(SubSeq(s, p + 1, Len(s))) = Len(s) - (p + 1) + 1
    BY <2>1, SplitAt
  <2> QED
    BY <1>1, <2>2
<1>4. \A i \in 1 .. p - 1 : a[i] = s[i]
  <2>1. \A i \in 1 .. p - 1 : s[i] \in S
    BY <1>1
  <2>2. \A i \in 1 .. (p - 1) - 1 + 1 : SubSeq(s, 1, p - 1)[i] = s[1 + i - 1]
    BY <1>1, <2>1, SubSeqProperties
  <2> QED
    BY <1>1, <2>2
<1>5. \A i \in 1 .. Len(s) - p : b[i] = s[p + i]
  <2>1. \A i \in p + 1 .. Len(s) : s[i] \in S
    BY <1>1
  <2>2. \A i \in 1 .. Len(s) - (p + 1) + 1 : SubSeq(s, p + 1, Len(s))[i] = s[(p + 1) + i - 1]
    BY <1>1, <2>1, SubSeqProperties
  <2> QED
    BY <1>1, <2>2
<1>6. RemoveAt(s, p) = a \o b
  BY DEF RemoveAt
<1>7. /\ a \o b \in Seq(S) /\ Len(a \o b) = Len(s) - 1
      /\ \A i \in 1 .. Len(s) - 1 : (a \o b)[i] = IF i <= p - 1 THEN a[i] ELSE b[i - (p - 1)]
  <2>1. /\ a \o b \in Seq(S) /\ Len(a \o b) = Len(a) + Len(b)
        /\ \A i \in 1 .. Len(a) + Len(b) : (a \o b)[i] = IF i <= Len(a) THEN a[i] ELSE b[i - Len(a)]
    BY <1>2, <1>3, ConcatProperties
  <2> HIDE DEF a, b
  <2>2. Len(a) + Len(b) = Len(s) - 1
    BY <1>1, <1>2, <1>3
  <2> QED
    BY <1>2, <2>1, <2>2
<1> HIDE DEF a, b
<1>8. /\ \A i \in 1 .. p - 1 : (a \o b)[i] = s[i]
      /\ \A i \in p .. Len(s) - 1 : (a \o b)[i] = s[i + 1]
  <2>1. ASSUME NEW i \in 1 .. p - 1 PROVE (a \o b)[i] = s[i]
    <3>1. i \in 1 .. Len(s) - 1 /\ i <= p - 1
      BY <1>1
    <3> QED
      BY <1>4, <1>7, <3>1
  <2>2. ASSUME NEW i \in p .. Len(s) - 1 PROVE (a \o b)[i] = s[i + 1]
    <3>1. /\ i - (p - 1) \in 1 .. Len(s) - p /\ p + (i - (p - 1)) = i + 1
          /\ ~(i <= p - 1) /\ i \in 1 .. Len(s) - 1
      BY <1>1
    <3> QED
      BY <1>5, <1>7, <3>1
  <2> QED
    BY <2>1, <2>2
<1>9. RemoveAt(s, p) \in Seq(S) /\ Len(RemoveAt(s, p)) = Len(s) - 1
  BY <1>6, <1>7
<1>10. ASSUME NEW r \in Seq(S), Len(r) = Len(s) - 1,
              \A i \in 1 .. p - 1 : r[i] = s[i],
              \A i \in p .. Len(s) - 1 : r[i] = s[i + 1]
       PROVE  s = InsertAt(r, p, s[p])
  <2>1. p \in 1 .. Len(r) + 1 /\ s[p] \in S /\ Len(r) + 1 = Len(s)
    BY <1>1, <1>10
  <2>2. /\ InsertAt(r, p, s[p]) \in Seq(S) /\ Len(InsertAt(r, p, s[p])) = Len(r) + 1
        /\ InsertAt(r, p, s[p])[p] = s[p]
        /\ \A i \in 1 .. p - 1 : InsertAt(r, p, s[p])[i] = r[i]
        /\ \A i \in p .. Len(r) : InsertAt(r, p, s[p])[i + 1] = r[i]
    BY <2>1, InsertAtProperties
  <2>3. ASSUME NEW i \in 1 .. Len(s) PROVE InsertAt(r, p, s[p])[i] = s[i]
    <3>1. CASE i \in 1 .. p - 1
      BY <1>10, <2>2, <3>1
    <3>2. CASE i = p
      BY <2>2, <3>2
    <3>3. CASE i \in p + 1 .. Len(s)
      <4>1. i - 1 \in p .. Len(s) - 1 /\ (i - 1) + 1 = i
        BY <1>1, <3>3
      <4>2. InsertAt(r, p, s[p])[(i - 1) + 1] = r[i - 1]
        BY <1>10, <2>2, <4>1
      <4> QED
        BY <1>10, <4>1, <4>2
    <3>4. i \in 1 .. p - 1 \/ i = p \/ i \in p + 1 .. Len(s)
      BY <1>1
    <3> QED
      BY <3>1, <3>2, <3>3, <3>4
  <2> QED
    BY <2>1, <2>2, <2>3, SeqEqual
<1>11. s = InsertAt(RemoveAt(s, p), p, s[p])
  BY <1>6, <1>8, <1>9, <1>10
<1> QED
  BY <1>6, <1>8, <1>9, <1>11

\* Only the removed value occurs less often.
LEMMA RemoveAtOccurs ==
  ASSUME NEW S, NEW s \in Seq(S), NEW p \in 1 .. Len(s), NEW X
  PROVE  Occurs(RemoveAt(s, p), X) = Occurs(s, X) - (IF s[p] \in X THEN 1 ELSE 0)
<1>1. PICK r \in Seq(S) :
        r = RemoveAt(s, p) /\ Len(r) = Len(s) - 1 /\ s = InsertAt(r, p, s[p])
  BY RemoveAtProperties
<1>2. p \in 1 .. Len(r) + 1 /\ s[p] \in S
  BY <1>1
<1>3. Occurs(InsertAt(r, p, s[p]), X) = Occurs(r, X) + (IF s[p] \in X THEN 1 ELSE 0)
  BY <1>2, InsertAtOccurs
<1>4. Occurs(r, X) \in Nat
  BY PlacesFinite
<1> QED
  BY <1>1, <1>3, <1>4

-----------------------------------------------------------------------------
(* Sums.  The library computes them by recursion over the subsets of the   *)
(* domain; that there is such a recursion, and that its order makes no     *)
(* difference, is shown with least counterexamples.                        *)

\* Sums is the recursion of SumFunction over the subsets of S.
Pick(s) == CHOOSE x \in s : TRUE
Sums(h, f, S) ==
    \A s \in SUBSET S : h[s] = IF s = {} THEN 0 ELSE f[Pick(s)] + h[s \ {Pick(s)}]

\* What is picked of a finite set leaves a set of one element less.
LEMMA PickOne ==
  ASSUME NEW s, IsFiniteSet(s), s # {}
  PROVE  /\ Pick(s) \in s /\ IsFiniteSet(s \ {Pick(s)})
         /\ Cardinality(s) \in Nat /\ Cardinality(s \ {Pick(s)}) = Cardinality(s) - 1
<1>1. Pick(s) \in s
  BY DEF Pick
<1> QED
  BY <1>1, FS_RemoveElement, FS_CardinalityType

\* There is such a function.
LEMMA SumsExist ==
  ASSUME NEW S, IsFiniteSet(S), NEW f \in [S -> Int]
  PROVE  \E h \in [SUBSET S -> Int] : Sums(h, f, S)
<1> DEFINE Upto(h, n) ==
              \A s \in SUBSET S : Cardinality(s) <= n =>
                 h[s] = IF s = {} THEN 0 ELSE f[Pick(s)] + h[s \ {Pick(s)}]
           bad == {n \in Nat : ~ \E h \in [SUBSET S -> Int] : Upto(h, n)}
<1>1. \A s \in SUBSET S : IsFiniteSet(s) /\ Cardinality(s) \in Nat /\ Cardinality(s) <= Cardinality(S)
  BY FS_Subset, FS_CardinalityType
<1>2. ASSUME bad # {} PROVE FALSE
  <2>1. PICK n \in bad : \A m \in bad : n <= m
    BY <1>2, LeastNatural
  <2>2. n \in Nat /\ ~ \E h \in [SUBSET S -> Int] : Upto(h, n)
    BY <2>1
  <2>3. n # 0
    <3>1. [s \in SUBSET S |-> 0] \in [SUBSET S -> Int]
      OBVIOUS
    <3>2. \A s \in SUBSET S : Cardinality(s) <= 0 => s = {}
      BY <1>1, FS_EmptySet
    <3>3. Upto([s \in SUBSET S |-> 0], 0)
      BY <3>2
    <3>4. \E h \in [SUBSET S -> Int] : Upto(h, 0)
      BY <3>1, <3>3
    <3> HIDE DEF Upto
    <3> QED
      BY <2>2, <3>4
  <2>4. n - 1 \in Nat /\ n - 1 \notin bad
    <3>1. n - 1 \in Nat /\ ~(n <= n - 1)
      BY <2>2, <2>3
    <3> HIDE DEF bad
    <3> QED
      BY <2>1, <3>1
  <2>5. PICK h \in [SUBSET S -> Int] : Upto(h, n - 1)
    BY <2>4
  <2> DEFINE k == [s \in SUBSET S |->
                     IF Cardinality(s) = n THEN f[Pick(s)] + h[s \ {Pick(s)}] ELSE h[s]]
  <2>6. \A s \in SUBSET S : s # {} =>
           /\ Pick(s) \in S /\ f[Pick(s)] \in Int
           /\ s \ {Pick(s)} \in SUBSET S /\ h[s \ {Pick(s)}] \in Int
           /\ Cardinality(s) \in Nat /\ Cardinality(s \ {Pick(s)}) = Cardinality(s) - 1
    BY <1>1, <2>5, PickOne
  <2>7. \A s \in SUBSET S : Cardinality(s) = n => s # {}
    BY <2>2, <2>3, FS_EmptySet
  <2>8. k \in [SUBSET S -> Int]
    BY <2>5, <2>6, <2>7
  <2>9. ASSUME NEW s \in SUBSET S, Cardinality(s) <= n
        PROVE  k[s] = IF s = {} THEN 0 ELSE f[Pick(s)] + k[s \ {Pick(s)}]
    <3>1. CASE s = {}
      <4>1. Cardinality(s) = 0
        BY <3>1, FS_EmptySet
      <4>2. h[s] = 0
        BY <2>2, <2>3, <2>5, <3>1, <4>1
      <4> QED
        BY <2>2, <2>3, <3>1, <4>1, <4>2
    <3>2. CASE s # {}
      <4>1. Cardinality(s \ {Pick(s)}) # n /\ Cardinality(s) \in Nat
        <5>1. /\ Cardinality(s) \in Nat
              /\ Cardinality(s \ {Pick(s)}) = Cardinality(s) - 1
          BY <2>6, <3>2
        <5> QED
          BY <2>2, <2>9, <5>1
      <4>2. k[s \ {Pick(s)}] = h[s \ {Pick(s)}]
        BY <2>6, <3>2, <4>1
      <4>3. CASE Cardinality(s) = n
        BY <3>2, <4>2, <4>3
      <4>4. CASE Cardinality(s) # n
        <5>1. Cardinality(s) <= n - 1
          BY <2>2, <2>9, <4>1, <4>4
        <5> QED
          BY <2>5, <3>2, <4>2, <4>4, <5>1
      <4> QED
        BY <4>3, <4>4
    <3> QED
      BY <3>1, <3>2
  <2> QED
    BY <2>2, <2>8, <2>9
<1>3. Cardinality(S) \in Nat /\ Cardinality(S) \notin bad
  BY <1>1, <1>2
<1>4. PICK h \in [SUBSET S -> Int] : Upto(h, Cardinality(S))
  BY <1>3
<1>5. Sums(h, f, S)
  BY <1>1, <1>4 DEF Sums
<1> QED
  BY <1>5

\* It is the only one, also on a smaller domain and for any function that agrees
\* with f there.
LEMMA SumsUnique ==
  ASSUME NEW S, IsFiniteSet(S), NEW T \in SUBSET S, NEW f, NEW g, NEW h, NEW k,
         Sums(h, f, S), Sums(k, g, T), \A x \in T : f[x] = g[x]
  PROVE  \A s \in SUBSET T : h[s] = k[s]
<1> DEFINE bad == {s \in SUBSET T : h[s] # k[s]}
           sizes == {Cardinality(s) : s \in bad}
<1>1. \A s \in SUBSET T : IsFiniteSet(s) /\ Cardinality(s) \in Nat
  BY FS_Subset, FS_CardinalityType
<1> SUFFICES ASSUME bad # {} PROVE FALSE
  OBVIOUS
<1>2. sizes \in SUBSET Nat /\ sizes # {}
  BY <1>1
<1>3. PICK n \in sizes : \A m \in sizes : n <= m
  BY <1>2, LeastNatural
<1>4. PICK s \in bad : n = Cardinality(s)
  BY <1>3
<1>5. \A r \in bad : Cardinality(s) <= Cardinality(r)
  BY <1>3, <1>4
<1>6. s # {}
  BY <1>4 DEF Sums
<1>7. /\ Pick(s) \in T /\ s \ {Pick(s)} \in SUBSET T
      /\ Cardinality(s) \in Nat /\ Cardinality(s \ {Pick(s)}) = Cardinality(s) - 1
  BY <1>1, <1>4, <1>6, PickOne
<1>8. h[s \ {Pick(s)}] = k[s \ {Pick(s)}]
  BY <1>5, <1>7
<1>9. h[s] = f[Pick(s)] + h[s \ {Pick(s)}] /\ k[s] = g[Pick(s)] + k[s \ {Pick(s)}]
  BY <1>4, <1>6 DEF Sums
<1> QED
  BY <1>4, <1>7, <1>8, <1>9

\* SumFunction is the sum over all of the domain.
LEMMA SumIsSums ==
  ASSUME NEW S, IsFiniteSet(S), NEW f \in [S -> Int]
  PROVE  \E h \in [SUBSET S -> Int] : Sums(h, f, S) /\ SumFunction(f) = h[S]
<1> DEFINE Iter(h) == h = [s \in SUBSET S |->
                             IF s = {} THEN 0
                             ELSE f[CHOOSE x \in s : TRUE] + h[s \ {CHOOSE x \in s : TRUE}]]
           iter == CHOOSE h : Iter(h)
<1>1. PICK h \in [SUBSET S -> Int] : Sums(h, f, S)
  BY SumsExist
<1>2. Iter(h)
  <2>1. h = [s \in SUBSET S |-> h[s]]
    OBVIOUS
  <2>2. \A s \in SUBSET S :
           h[s] = IF s = {} THEN 0
                  ELSE f[CHOOSE x \in s : TRUE] + h[s \ {CHOOSE x \in s : TRUE}]
    BY <1>1 DEF Sums, Pick
  <2> QED
    BY <2>1, <2>2
<1>3. Iter(iter)
  BY <1>2
<1>4. Sums(iter, f, S)
  BY <1>3 DEF Sums, Pick
<1>5. iter[S] = h[S]
  BY <1>1, <1>4, SumsUnique
<1>6. SumFunction(f) = iter[S]
  BY DEF SumFunction, SumFunctionOnSet, FoldFunctionOnSet, MapThenFoldSet
<1> QED
  BY <1>1, <1>5, <1>6

\* The sum over nothing.
LEMMA SumOfNothing ==
  ASSUME NEW f, f \in [{} -> Int]
  PROVE  SumFunction(f) = 0
<1>1. PICK h \in [SUBSET {} -> Int] : Sums(h, f, {}) /\ SumFunction(f) = h[{}]
  BY SumIsSums, FS_EmptySet
<1> QED
  BY <1>1 DEF Sums

\* Any element can be taken out of a sum.
LEMMA SumWithout ==
  ASSUME NEW S, IsFiniteSet(S), NEW f \in [S -> Int], NEW x \in S
  PROVE  /\ SumFunction(f) \in Int
         /\ SumFunction([y \in S \ {x} |-> f[y]]) \in Int
         /\ SumFunction(f) = f[x] + SumFunction([y \in S \ {x} |-> f[y]])
<1>1. PICK h \in [SUBSET S -> Int] : Sums(h, f, S) /\ SumFunction(f) = h[S]
  BY SumIsSums
<1> DEFINE bad == {s \in SUBSET S : \E y \in s : h[s] # f[y] + h[s \ {y}]}
           sizes == {Cardinality(s) : s \in bad}
<1>2. \A s \in SUBSET S : IsFiniteSet(s) /\ Cardinality(s) \in Nat
  BY FS_Subset, FS_CardinalityType
<1>3. ASSUME bad # {} PROVE FALSE
  <2>1. sizes \in SUBSET Nat /\ sizes # {}
    BY <1>2, <1>3
  <2>2. PICK n \in sizes : \A m \in sizes : n <= m
    BY <2>1, LeastNatural
  <2>3. PICK s \in bad : n = Cardinality(s)
    BY <2>2
  <2>4. \A r \in bad : Cardinality(s) <= Cardinality(r)
    BY <2>2, <2>3
  <2>5. PICK y \in s : h[s] # f[y] + h[s \ {y}]
    BY <2>3
  <2>6. PICK p : p = Pick(s)
    OBVIOUS
  <2>7. p \in s /\ Cardinality(s) \in Nat /\ Cardinality(s \ {p}) = Cardinality(s) - 1
    BY <1>2, <2>3, <2>5, <2>6, PickOne
  <2>8. h[s] = f[p] + h[s \ {p}]
    BY <1>1, <2>3, <2>5, <2>6 DEF Sums
  <2>9. y # p
    BY <2>5, <2>8
  <2>10. Cardinality(s \ {y}) = Cardinality(s) - 1
    BY <1>2, <2>3, <2>5, FS_RemoveElement
  <2>11. s \ {p} \notin bad /\ s \ {y} \notin bad
    <3>1. ~(Cardinality(s) <= Cardinality(s) - 1)
      BY <2>7
    <3> HIDE DEF bad
    <3> QED
      BY <2>4, <2>7, <2>10, <3>1
  <2>12. h[s \ {p}] = f[y] + h[(s \ {p}) \ {y}]
    BY <2>3, <2>5, <2>9, <2>11
  <2>13. h[s \ {y}] = f[p] + h[(s \ {y}) \ {p}]
    BY <2>3, <2>7, <2>9, <2>11
  <2>14. (s \ {y}) \ {p} = (s \ {p}) \ {y}
    OBVIOUS
  <2>15. f[p] \in Int /\ f[y] \in Int /\ h[(s \ {p}) \ {y}] \in Int
    BY <1>1, <2>3, <2>5, <2>7
  <2>16. PICK a, b, d \in Int : a = f[p] /\ b = f[y] /\ d = h[(s \ {p}) \ {y}]
    BY <2>15
  <2>17. h[s] = a + (b + d) /\ h[s] # b + (a + d)
    BY <2>5, <2>8, <2>12, <2>13, <2>14, <2>16
  <2> QED
    BY <2>17
<1>4. h[S] = f[x] + h[S \ {x}]
  BY <1>3
<1>5. PICK g : g = [y \in S \ {x} |-> f[y]]
  OBVIOUS
<1>6. g \in [S \ {x} -> Int] /\ IsFiniteSet(S \ {x}) /\ \A y \in S \ {x} : f[y] = g[y]
  BY <1>2, <1>5
<1>7. PICK k \in [SUBSET (S \ {x}) -> Int] : Sums(k, g, S \ {x}) /\ SumFunction(g) = k[S \ {x}]
  BY <1>6, SumIsSums
<1>8. h[S \ {x}] = k[S \ {x}]
  BY <1>1, <1>6, <1>7, SumsUnique
<1> QED
  BY <1>1, <1>4, <1>5, <1>7, <1>8

\* Or put in.
LEMMA SumWith ==
  ASSUME NEW S, IsFiniteSet(S), NEW x, x \notin S, NEW T, T = S \cup {x}, NEW f \in [T -> Int]
  PROVE  SumFunction(f) = f[x] + SumFunction([y \in S |-> f[y]])
<1>1. IsFiniteSet(T) /\ x \in T /\ T \ {x} = S
  BY FS_AddElement
<1>2. SumFunction(f) = f[x] + SumFunction([y \in T \ {x} |-> f[y]])
  BY <1>1, SumWithout
<1> QED
  BY <1>1, <1>2

\* A sum of natural numbers is one, and none of them is greater.
LEMMA SumOfNaturals ==
  ASSUME NEW S, IsFiniteSet(S), NEW f \in [S -> Nat]
  PROVE  SumFunction(f) \in Nat /\ \A x \in S : f[x] <= SumFunction(f)
<1>1. PICK h \in [SUBSET S -> Int] : Sums(h, f, S) /\ SumFunction(f) = h[S]
  <2>1. f \in [S -> Int]
    OBVIOUS
  <2> QED
    BY <2>1, SumIsSums
<1> DEFINE bad == {s \in SUBSET S : ~(h[s] >= 0)}
           sizes == {Cardinality(s) : s \in bad}
<1>2. \A s \in SUBSET S : IsFiniteSet(s) /\ Cardinality(s) \in Nat
  BY FS_Subset, FS_CardinalityType
<1>3. ASSUME bad # {} PROVE FALSE
  <2>1. sizes \in SUBSET Nat /\ sizes # {}
    BY <1>2, <1>3
  <2>2. PICK n \in sizes : \A m \in sizes : n <= m
    BY <2>1, LeastNatural
  <2>3. PICK s \in bad : n = Cardinality(s)
    BY <2>2
  <2>4. \A r \in bad : Cardinality(s) <= Cardinality(r)
    BY <2>2, <2>3
  <2>5. s # {}
    BY <1>1, <2>3, SMTT(30) DEF Sums
  <2>6. PICK p : p = Pick(s)
    OBVIOUS
  <2>7. p \in s /\ Cardinality(s) \in Nat /\ Cardinality(s \ {p}) = Cardinality(s) - 1
    BY <1>2, <2>3, <2>5, <2>6, PickOne
  <2>8. h[s] = f[p] + h[s \ {p}]
    BY <1>1, <2>3, <2>5, <2>6 DEF Sums
  <2>9. s \ {p} \notin bad
    <3>1. ~(Cardinality(s) <= Cardinality(s) - 1)
      BY <2>7
    <3> HIDE DEF bad
    <3> QED
      BY <2>4, <2>7, <3>1
  <2>10. h[s \ {p}] >= 0 /\ h[s \ {p}] \in Int /\ f[p] \in Nat
    BY <1>1, <2>3, <2>7, <2>9
  <2>11. ~(h[s] >= 0)
    BY <2>3
  <2> QED
    BY <2>8, <2>10, <2>11
<1>4. \A s \in SUBSET S : h[s] >= 0 /\ h[s] \in Int
  BY <1>1, <1>3
<1>5. ASSUME NEW x \in S PROVE f[x] <= SumFunction(f)
  <2>1. PICK g : g = [y \in S \ {x} |-> f[y]]
    OBVIOUS
  <2>2. g \in [S \ {x} -> Int] /\ IsFiniteSet(S \ {x}) /\ \A y \in S \ {x} : f[y] = g[y]
    BY <1>2, <2>1
  <2>3. PICK k \in [SUBSET (S \ {x}) -> Int] : Sums(k, g, S \ {x}) /\ SumFunction(g) = k[S \ {x}]
    BY <2>2, SumIsSums
  <2>4. h[S \ {x}] = k[S \ {x}]
    BY <1>1, <2>2, <2>3, SumsUnique
  <2>5. f \in [S -> Int]
    OBVIOUS
  <2>6. SumFunction(f) = f[x] + SumFunction(g)
    BY <2>1, <2>5, SumWithout
  <2>7. SumFunction(g) >= 0 /\ SumFunction(g) \in Int
    BY <1>4, <2>3, <2>4
  <2> QED
    BY <2>6, <2>7
<1> QED
  BY <1>1, <1>4, <1>5

\* A sum of numbers up to b is at most b for each.
LEMMA SumBounded ==
  ASSUME NEW S, IsFiniteSet(S), NEW b \in Nat, NEW f \in [S -> 0 .. b]
  PROVE  SumFunction(f) <= b * Cardinality(S)
<1>1. PICK h \in [SUBSET S -> Int] : Sums(h, f, S) /\ SumFunction(f) = h[S]
  <2>1. f \in [S -> Int]
    OBVIOUS
  <2> QED
    BY <2>1, SumIsSums
<1> DEFINE bad == {s \in SUBSET S : ~(h[s] <= b * Cardinality(s))}
           sizes == {Cardinality(s) : s \in bad}
<1>2. \A s \in SUBSET S : IsFiniteSet(s) /\ Cardinality(s) \in Nat
  BY FS_Subset, FS_CardinalityType
<1>3. ASSUME bad # {} PROVE FALSE
  <2>1. sizes \in SUBSET Nat /\ sizes # {}
    BY <1>2, <1>3
  <2>2. PICK n \in sizes : \A m \in sizes : n <= m
    BY <2>1, LeastNatural
  <2>3. PICK s \in bad : n = Cardinality(s)
    BY <2>2
  <2>4. \A r \in bad : Cardinality(s) <= Cardinality(r)
    BY <2>2, <2>3
  <2>5. s # {}
    <3>1. ASSUME s = {} PROVE FALSE
      <4>1. Cardinality(s) = 0 /\ h[s] = 0
        BY <1>1, <2>3, <3>1, FS_EmptySet DEF Sums
      <4>2. ~(h[s] <= b * Cardinality(s))
        BY <2>3
      <4> QED
        BY <4>1, <4>2
    <3> QED
      BY <3>1
  <2>6. PICK p : p = Pick(s)
    OBVIOUS
  <2>7. p \in s /\ Cardinality(s) \in Nat /\ Cardinality(s \ {p}) = Cardinality(s) - 1
    BY <1>2, <2>3, <2>5, <2>6, PickOne
  <2>8. h[s] = f[p] + h[s \ {p}]
    BY <1>1, <2>3, <2>5, <2>6 DEF Sums
  <2>9. s \ {p} \notin bad
    <3>1. ~(Cardinality(s) <= Cardinality(s) - 1)
      BY <2>7
    <3> HIDE DEF bad
    <3> QED
      BY <2>4, <2>7, <3>1
  <2>10. /\ h[s \ {p}] <= b * Cardinality(s \ {p})
         /\ h[s \ {p}] \in Int /\ f[p] \in 0 .. b
    BY <1>1, <2>3, <2>7, <2>9
  <2>11. ~(h[s] <= b * Cardinality(s))
    BY <2>3
  <2>12. PICK m \in Nat : m = Cardinality(s)
    BY <2>7
  <2>13. b * (m - 1) = b * m - b /\ b * m \in Int
    BY <2>12
  <2>14. h[s \ {p}] <= b * m - b /\ ~(h[s] <= b * m)
    BY <2>7, <2>10, <2>11, <2>12, <2>13
  <2> QED
    BY <2>8, <2>10, <2>13, <2>14
<1> QED
  BY <1>1, <1>3

\* The sum of the rest, if p is taken out of a sum or is not in it.
LEMMA SumBesides ==
  ASSUME NEW S, IsFiniteSet(S), NEW f \in [S -> Int], NEW p, NEW g \in [S \ {p} -> Int],
         \A c \in S \ {p} : g[c] = f[c]
  PROVE  /\ SumFunction(f) \in Int /\ SumFunction(g) \in Int
         /\ SumFunction(f) = (IF p \in S THEN f[p] ELSE 0) + SumFunction(g)
<1>1. CASE p \in S
  <2>1. [c \in S \ {p} |-> f[c]] = g
    OBVIOUS
  <2>2. /\ SumFunction(f) \in Int
        /\ SumFunction([c \in S \ {p} |-> f[c]]) \in Int
        /\ SumFunction(f) = f[p] + SumFunction([c \in S \ {p} |-> f[c]])
    BY <1>1, SumWithout
  <2> QED
    BY <1>1, <2>1, <2>2
<1>2. CASE p \notin S
  <2>1. S \ {p} = S
    BY <1>2
  <2>2. f = g
    BY <2>1
  <2>3. PICK h \in [SUBSET S -> Int] : Sums(h, f, S) /\ SumFunction(f) = h[S]
    BY SumIsSums
  <2>4. h[S] \in Int
    OBVIOUS
  <2> QED
    BY <1>2, <2>2, <2>3, <2>4
<1> QED
  BY <1>1, <1>2

\* What lies apart between lo and hi is not longer than that, taken together.
LEMMA Packed ==
  ASSUME NEW S, IsFiniteSet(S), NEW off \in [S -> Int], NEW len \in [S -> Nat \ {0}],
         NEW lo \in Int, NEW hi \in Int, lo <= hi,
         \A s \in S : lo <= off[s] /\ off[s] + len[s] <= hi,
         \A s, t \in S : s # t => off[s] + len[s] <= off[t] \/ off[t] + len[t] <= off[s]
  PROVE  SumFunction(len) <= hi - lo
<1> DEFINE Total(T) == SumFunction([s \in T |-> len[s]])
           Within(T, m) == lo <= m /\ m <= hi /\ \A s \in T : off[s] + len[s] <= m
           bad == {T \in SUBSET S : \E m \in Int : Within(T, m) /\ ~(Total(T) <= m - lo)}
           sizes == {Cardinality(T) : T \in bad}
<1>1. \A T \in SUBSET S : IsFiniteSet(T) /\ Cardinality(T) \in Nat
  BY FS_Subset, FS_CardinalityType
<1>2. len \in [S -> Int] /\ \A s \in S : len[s] \in Int /\ len[s] >= 1 /\ off[s] \in Int
  OBVIOUS
<1>3. ASSUME bad # {} PROVE FALSE
  <2>1. sizes \in SUBSET Nat /\ sizes # {}
    BY <1>1, <1>3
  <2>2. PICK n \in sizes : \A m \in sizes : n <= m
    BY <2>1, LeastNatural
  <2>3. PICK T \in bad : n = Cardinality(T)
    BY <2>2
  <2>4. \A U \in bad : Cardinality(T) <= Cardinality(U)
    BY <2>2, <2>3
  <2>5. PICK m \in Int : Within(T, m) /\ ~(Total(T) <= m - lo)
    BY <2>3
  <2>6. T \in SUBSET S
    BY <2>3
  <2>7. CASE T = {}
    <3>1. [s \in {} |-> len[s]] \in [{} -> Int]
      OBVIOUS
    <3>2. SumFunction([s \in {} |-> len[s]]) = 0
      BY <3>1, SumOfNothing
    <3>3. Total(T) = 0 /\ lo <= m
      BY <2>5, <2>7, <3>2
    <3> QED
      BY <2>5, <3>3
  <2>8. CASE T # {}
    <3> DEFINE fromTop == {hi - off[s] : s \in T}
    <3>1. fromTop \in SUBSET Nat /\ fromTop # {}
      <4>1. ASSUME NEW s \in T PROVE hi - off[s] \in Nat
        <5>1. /\ off[s] \in Int /\ len[s] \in Int /\ len[s] >= 1
              /\ off[s] + len[s] <= hi
          BY <1>2, <2>6
        <5> QED
          BY <5>1
      <4> QED
        BY <2>8, <4>1
    <3>2. PICK z \in fromTop : \A y \in fromTop : z <= y
      BY <3>1, LeastNatural
    <3>3. PICK p \in T : z = hi - off[p]
      BY <3>2
    <3>4. ASSUME NEW s \in T \ {p} PROVE off[s] + len[s] <= off[p]
      <4>1. z <= hi - off[s]
        BY <3>2
      <4>2. /\ off[s] \in Int /\ len[s] \in Int /\ len[s] >= 1
            /\ off[p] \in Int /\ len[p] \in Int /\ len[p] >= 1
            /\ off[s] + len[s] <= off[p] \/ off[p] + len[p] <= off[s]
        BY <1>2, <2>6
      <4> QED
        BY <3>3, <4>1, <4>2
    <3>5. /\ off[p] \in Int /\ len[p] \in Int /\ len[p] >= 1
          /\ lo <= off[p] /\ off[p] + len[p] <= m /\ off[p] + len[p] <= hi
      BY <1>2, <2>5, <2>6
    <3>6. Within(T \ {p}, off[p])
      BY <3>4, <3>5
    <3>7. T \ {p} \in SUBSET S /\ Cardinality(T \ {p}) = Cardinality(T) - 1
          /\ Cardinality(T) \in Nat
      BY <1>1, <2>6, FS_RemoveElement
    <3>8. T \ {p} \notin bad
      <4>1. ~(Cardinality(T) <= Cardinality(T) - 1)
        BY <3>7
      <4> HIDE DEF bad
      <4> QED
        BY <2>4, <3>7, <4>1
    <3>9. Total(T \ {p}) <= off[p] - lo
      BY <3>5, <3>6, <3>7, <3>8
    <3>10. /\ Total(T \ {p}) \in Int /\ Total(T) = len[p] + Total(T \ {p})
      <4>1. PICK f, g : f = [s \in T |-> len[s]] /\ g = [s \in T \ {p} |-> len[s]]
        OBVIOUS
      <4>2. /\ IsFiniteSet(T) /\ f \in [T -> Int] /\ g \in [T \ {p} -> Int]
            /\ \A s \in T \ {p} : g[s] = f[s]
        BY <1>1, <1>2, <2>6, <4>1
      <4>3. SumFunction(g) \in Int /\ SumFunction(f) = f[p] + SumFunction(g)
        BY <4>2, SumBesides
      <4> QED
        BY <4>1, <4>3
    <3> HIDE DEF Total
    <3> QED
      BY <2>5, <3>5, <3>9, <3>10
  <2> QED
    BY <2>7, <2>8
<1>4. Within(S, hi)
  OBVIOUS
<1>5. len = [s \in S |-> len[s]]
  BY <1>2
<1>6. Total(S) <= hi - lo
  BY <1>3, <1>4
<1> QED
  BY <1>5, <1>6
=============================================================================
