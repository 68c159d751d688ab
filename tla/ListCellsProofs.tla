-------------------------- MODULE ListCellsProofs --------------------------
(***************************************************************************)
(* Proofs about ListCells: the cells of a list or compound are linked as   *)
(* they should be and none is lost, a loop over them reads no freed cell   *)
(* and gives each item once, and cells and pointers implement the          *)
(* sequences of TagList, for any finite number of cells.                   *)
(*                                                                         *)
(* The argument goes by a sequence of cells that the pointers follow.  In  *)
(* rs_list_reverse there is a place that divides what is turned from what  *)
(* is not, in rs_list_free what is left of the sequence, and in a loop a   *)
(* place with all that was given before it and all that was not behind.    *)
(***************************************************************************)
EXTENDS ListCells, SequenceLemmas

\* No cell occurs twice in s.
Distinct(s) == \A i, j \in DOMAIN s : s[i] = s[j] => i = j

\* With the pointers nx the cells of s follow each other from p to the end: Chain,
\* for any pointers.
Links(p, nx, s) ==
    /\ p = IF s = <<>> THEN NULL ELSE s[1]
    /\ \A i \in DOMAIN s : nx[s[i]] = IF i = Len(s) THEN NULL ELSE s[i + 1]

\* rs_list_reverse has turned the first k cells.
HalfTurned(k) ==
    /\ last = IF k = 0 THEN NULL ELSE order[k]
    /\ cell = IF k = Len(order) THEN NULL ELSE order[k + 1]
    /\ \A i \in DOMAIN order :
          next[order[i]] = IF i <= k THEN IF i = 1 THEN NULL ELSE order[i - 1]
                           ELSE IF i = Len(order) THEN NULL ELSE order[i + 1]

\* The cells are linked, and no others are allocated.
InOrder ==
    /\ Distinct(order)
    /\ pc \in {"idle", "faulted"} => Links(items, next, order)
    /\ pc = "reverse" => \E k \in 0 .. Len(order) : HalfTurned(k)
    /\ pc # "free" => live = ToSet(order)
    /\ pc = "free" =>
          \E s \in Seq(Cell) : Distinct(s) /\ Links(cell, next, s) /\ live = ToSet(s)
    /\ pc = "reverse" => kind # "none"
    /\ pc = "free" => kind = "none"
    /\ kind = "none" => order = <<>> /\ items = NULL

\* An iterator t stands at place p of s: it has given the cells g and no others before
\* it of those in k, and none from there on.
StandsAt(p, s, t, g, k) ==
    /\ t = IF p = Len(s) + 1 THEN NULL ELSE s[p]
    /\ g \subseteq ToSet(s) /\ k \subseteq ToSet(s)
    /\ \A i \in DOMAIN s :
          /\ s[i] \in g => i < p
          /\ s[i] \in k /\ i < p => s[i] \in g

Stands(s, t, g, k) == \E p \in 1 .. Len(s) + 1 : StandsAt(p, s, t, g, k)

\* The loop, as long as the client keeps to its rules.
Iterating ==
    /\ ~looping => it = NULL /\ given = {} /\ kept = {} /\ ~turned /\ ~broken
    /\ looping /\ ~broken => it \in ToSet(order) \cup {NULL}
    /\ looping /\ ~broken /\ ~turned => Stands(order, it, given, kept)
    /\ pc = "reverse" /\ looping => turned

CellInv == TypeOK /\ InOrder /\ OneAllocator /\ Iterating /\ NoStaleRead

-----------------------------------------------------------------------------
(* Sequences of cells.                                                     *)

\* No cell, item or table is NULL.
LEMMA NoNull ==
  /\ NULL \notin Cell /\ NULL \notin Item /\ NULL \notin Table
  /\ IsFiniteSet(Cell) /\ Cardinality(Cell) \in Nat
  /\ Tag \subseteq Item /\ Key \subseteq Item
<1>1. IsFiniteSet(Cell)
  BY CellAssumption
<1> QED
  BY <1>1, FS_CardinalityType, CellAssumption DEF Item

\* A sequence by its places.
LEMMA SeqIs ==
  ASSUME NEW S, NEW s \in Seq(S)
  PROVE  /\ Len(s) \in Nat /\ DOMAIN s = 1 .. Len(s)
         /\ \A i \in 1 .. Len(s) : s[i] \in S /\ s[i] \in ToSet(s)
         /\ s = <<>> <=> Len(s) = 0
         /\ ToSet(s) \subseteq S
         /\ \A y \in ToSet(s) : \E i \in 1 .. Len(s) : s[i] = y
  BY DEF ToSet

\* A sequence without one of its places: what was at place i is at place i, or at the
\* one before.
LEMMA RemovedIs ==
  ASSUME NEW S, NEW s \in Seq(S), Distinct(s), NEW p \in 1 .. Len(s), NEW r,
         r = RemoveAt(s, p)
  PROVE  /\ r \in Seq(S) /\ Len(r) = Len(s) - 1 /\ Distinct(r)
         /\ \A i \in 1 .. Len(r) : r[i] = s[IF i < p THEN i ELSE i + 1]
         /\ \A i \in 1 .. Len(s) : i # p =>
               (IF i < p THEN i ELSE i - 1) \in 1 .. Len(r)
                  /\ r[IF i < p THEN i ELSE i - 1] = s[i]
         /\ ToSet(r) = ToSet(s) \ {s[p]}
<1>1. /\ Len(s) \in Nat /\ DOMAIN s = 1 .. Len(s) /\ p \in Nat /\ 1 <= p /\ p <= Len(s)
  OBVIOUS
<1>2. /\ r \in Seq(S) /\ Len(r) = Len(s) - 1
      /\ \A i \in 1 .. p - 1 : r[i] = s[i]
      /\ \A i \in p .. Len(s) - 1 : r[i] = s[i + 1]
  BY RemoveAtProperties
<1>3. Len(r) \in Nat /\ DOMAIN r = 1 .. Len(r)
  BY <1>2
<1>4. ASSUME NEW i \in 1 .. Len(r)
      PROVE  /\ r[i] = s[IF i < p THEN i ELSE i + 1]
             /\ (IF i < p THEN i ELSE i + 1) \in 1 .. Len(s)
             /\ (IF i < p THEN i ELSE i + 1) # p
  <2>1. CASE i < p
    <3>1. i \in 1 .. p - 1 /\ i \in 1 .. Len(s)
      BY <1>1, <1>2, <2>1
    <3> QED
      BY <1>2, <2>1, <3>1
  <2>2. CASE ~(i < p)
    <3>1. i \in p .. Len(s) - 1 /\ i + 1 \in 1 .. Len(s) /\ i + 1 # p
      BY <1>1, <1>2, <2>2
    <3> QED
      BY <1>2, <2>2, <3>1
  <2> QED
    BY <2>1, <2>2
<1>5. ASSUME NEW i \in 1 .. Len(s), i # p
      PROVE  /\ (IF i < p THEN i ELSE i - 1) \in 1 .. Len(r)
             /\ r[IF i < p THEN i ELSE i - 1] = s[i]
  <2>1. CASE i < p
    <3>1. i \in 1 .. p - 1 /\ i \in 1 .. Len(r)
      BY <1>1, <1>2, <2>1
    <3> QED
      BY <1>2, <2>1, <3>1
  <2>2. CASE ~(i < p)
    <3>1. i - 1 \in p .. Len(s) - 1 /\ i - 1 \in 1 .. Len(r) /\ (i - 1) + 1 = i
      BY <1>1, <1>2, <1>5, <2>2
    <3> QED
      BY <1>2, <2>2, <3>1
  <2> QED
    BY <2>1, <2>2
<1>6. Distinct(r)
  <2> SUFFICES ASSUME NEW i \in 1 .. Len(r), NEW j \in 1 .. Len(r), r[i] = r[j]
               PROVE  i = j
    BY <1>3 DEF Distinct
  <2>1. PICK a \in 1 .. Len(s) : a = (IF i < p THEN i ELSE i + 1) /\ r[i] = s[a]
    BY <1>4
  <2>2. PICK b \in 1 .. Len(s) : b = (IF j < p THEN j ELSE j + 1) /\ r[j] = s[b]
    BY <1>4
  <2>3. a = b
    BY <1>1, <2>1, <2>2 DEF Distinct
  <2>4. i \in Nat /\ j \in Nat /\ p \in Nat
    BY <1>1
  <2> QED
    BY <2>1, <2>2, <2>3, <2>4
<1>7. ToSet(r) = ToSet(s) \ {s[p]}
  <2>1. ASSUME NEW y \in ToSet(r) PROVE y \in ToSet(s) \ {s[p]}
    <3>1. PICK i \in 1 .. Len(r) : r[i] = y
      BY <1>3 DEF ToSet
    <3>2. PICK j \in 1 .. Len(s) : s[j] = y /\ j # p
      BY <1>4, <3>1
    <3> QED
      BY <1>1, <3>2 DEF ToSet, Distinct
  <2>2. ASSUME NEW y \in ToSet(s), y # s[p] PROVE y \in ToSet(r)
    <3>1. PICK i \in 1 .. Len(s) : s[i] = y /\ i # p
      BY <1>1, <2>2 DEF ToSet
    <3>2. PICK j \in 1 .. Len(r) : r[j] = y
      BY <1>5, <3>1
    <3> QED
      BY <1>3, <3>2 DEF ToSet
  <2> QED
    BY <2>1, <2>2
<1> QED
  BY <1>2, <1>4, <1>5, <1>6, <1>7

\* A sequence with a value more: what was at place i is at place i, or at the next.
LEMMA InsertedIs ==
  ASSUME NEW S, NEW s \in Seq(S), Distinct(s), NEW p \in 1 .. Len(s) + 1, NEW y \in S,
         y \notin ToSet(s), NEW r, r = InsertAt(s, p, y)
  PROVE  /\ r \in Seq(S) /\ Len(r) = Len(s) + 1 /\ Distinct(r)
         /\ r[p] = y
         /\ \A i \in 1 .. Len(s) : r[IF i < p THEN i ELSE i + 1] = s[i]
         /\ \A i \in 1 .. Len(r) : i # p =>
               (IF i < p THEN i ELSE i - 1) \in 1 .. Len(s)
                  /\ r[i] = s[IF i < p THEN i ELSE i - 1]
         /\ ToSet(r) = ToSet(s) \cup {y}
<1>1. /\ Len(s) \in Nat /\ DOMAIN s = 1 .. Len(s) /\ p \in Nat /\ 1 <= p /\ p <= Len(s) + 1
  OBVIOUS
<1>2. /\ r \in Seq(S) /\ Len(r) = Len(s) + 1 /\ r[p] = y
      /\ \A i \in 1 .. p - 1 : r[i] = s[i]
      /\ \A i \in p .. Len(s) : r[i + 1] = s[i]
  BY InsertAtProperties
<1>3. Len(r) \in Nat /\ DOMAIN r = 1 .. Len(r)
  BY <1>2
<1>4. ASSUME NEW i \in 1 .. Len(s)
      PROVE  /\ r[IF i < p THEN i ELSE i + 1] = s[i]
             /\ (IF i < p THEN i ELSE i + 1) \in 1 .. Len(r)
  <2>1. CASE i < p
    <3>1. i \in 1 .. p - 1 /\ i \in 1 .. Len(r)
      BY <1>1, <1>2, <2>1
    <3> QED
      BY <1>2, <2>1, <3>1
  <2>2. CASE ~(i < p)
    <3>1. i \in p .. Len(s) /\ i + 1 \in 1 .. Len(r)
      BY <1>1, <1>2, <2>2
    <3> QED
      BY <1>2, <2>2, <3>1
  <2> QED
    BY <2>1, <2>2
<1>5. ASSUME NEW i \in 1 .. Len(r), i # p
      PROVE  /\ (IF i < p THEN i ELSE i - 1) \in 1 .. Len(s)
             /\ r[i] = s[IF i < p THEN i ELSE i - 1]
  <2>1. CASE i < p
    <3>1. i \in 1 .. p - 1 /\ i \in 1 .. Len(s)
      BY <1>1, <1>2, <2>1
    <3> QED
      BY <1>2, <2>1, <3>1
  <2>2. CASE ~(i < p)
    <3>1. i - 1 \in p .. Len(s) /\ i - 1 \in 1 .. Len(s) /\ (i - 1) + 1 = i
      BY <1>1, <1>2, <1>5, <2>2
    <3> QED
      BY <1>2, <2>2, <3>1
  <2> QED
    BY <2>1, <2>2
<1>6. \A i \in 1 .. Len(s) : s[i] # y
  BY <1>1 DEF ToSet
<1>7. Distinct(r)
  <2> SUFFICES ASSUME NEW i \in 1 .. Len(r), NEW j \in 1 .. Len(r), r[i] = r[j]
               PROVE  i = j
    BY <1>3 DEF Distinct
  <2>1. CASE i = p \/ j = p
    <3>1. \A k \in 1 .. Len(r) : k # p => r[k] # y
      <4>1. ASSUME NEW k \in 1 .. Len(r), k # p PROVE r[k] # y
        <5>1. PICK a \in 1 .. Len(s) : r[k] = s[a]
          BY <1>5, <4>1
        <5> QED
          BY <1>6, <5>1
      <4> QED
        BY <4>1
    <3> QED
      BY <1>2, <2>1, <3>1
  <2>2. CASE i # p /\ j # p
    <3>1. PICK a \in 1 .. Len(s) : a = (IF i < p THEN i ELSE i - 1) /\ r[i] = s[a]
      BY <1>5, <2>2
    <3>2. PICK b \in 1 .. Len(s) : b = (IF j < p THEN j ELSE j - 1) /\ r[j] = s[b]
      BY <1>5, <2>2
    <3>3. a = b
      BY <1>1, <3>1, <3>2 DEF Distinct
    <3>4. i \in Nat /\ j \in Nat /\ p \in Nat
      BY <1>1
    <3> QED
      BY <2>2, <3>1, <3>2, <3>3, <3>4
  <2> QED
    BY <2>1, <2>2
<1>8. ToSet(r) = ToSet(s) \cup {y}
  <2>1. ASSUME NEW z \in ToSet(r) PROVE z \in ToSet(s) \cup {y}
    <3>1. PICK i \in 1 .. Len(r) : r[i] = z
      BY <1>3 DEF ToSet
    <3>2. CASE i = p
      BY <1>2, <3>1, <3>2
    <3>3. CASE i # p
      BY <1>1, <1>5, <3>1, <3>3 DEF ToSet
    <3> QED
      BY <3>2, <3>3
  <2>2. ASSUME NEW z \in ToSet(s) PROVE z \in ToSet(r)
    <3>1. PICK i \in 1 .. Len(s) : s[i] = z
      BY <1>1 DEF ToSet
    <3>2. PICK j \in 1 .. Len(r) : r[j] = z
      BY <1>4, <3>1
    <3> QED
      BY <1>3, <3>2 DEF ToSet
  <2>3. y \in ToSet(r)
    <3>1. p \in 1 .. Len(r)
      BY <1>1, <1>2
    <3> QED
      BY <1>2, <1>3, <3>1 DEF ToSet
  <2> QED
    BY <2>1, <2>2, <2>3
<1> QED
  BY <1>2, <1>4, <1>5, <1>7, <1>8

\* Pushing a value is inserting it in front.
LEMMA PushIs ==
  ASSUME NEW S, NEW s \in Seq(S), NEW y \in S
  PROVE  <<y>> \o s = InsertAt(s, 1, y)
<1>1. Len(s) \in Nat /\ 1 \in 1 .. Len(s) + 1
  OBVIOUS
<1>2. SubSeq(s, 1, 1 - 1) = <<>> /\ SubSeq(s, 1, Len(s)) = s
  OBVIOUS
<1> QED
  BY <1>2 DEF InsertAt

\* There are no more places than cells.
LEMMA NoLonger ==
  ASSUME NEW s \in Seq(Cell), Distinct(s)
  PROVE  Len(s) <= Cardinality(Cell)
<1>1. Len(s) \in Nat /\ DOMAIN s = 1 .. Len(s)
  OBVIOUS
<1>2. IsFiniteSet(1 .. Len(s)) /\ Cardinality(1 .. Len(s)) = Len(s)
  <2>1. 1 \in Int /\ Len(s) \in Int
    BY <1>1
  <2> QED
    BY <1>1, <2>1, FS_Interval
<1>3. Cardinality(ToSet(s)) = Cardinality(1 .. Len(s))
  <2>1. s \in [1 .. Len(s) -> ToSet(s)]
    BY <1>1 DEF ToSet
  <2>2. \A a, b \in 1 .. Len(s) : s[a] = s[b] => a = b
    BY <1>1 DEF Distinct
  <2>3. \A t \in ToSet(s) : \E a \in 1 .. Len(s) : s[a] = t
    BY <1>1 DEF ToSet
  <2> QED
    BY <1>2, <2>1, <2>2, <2>3, BijectionCounts
<1>4. ToSet(s) \subseteq Cell
  BY DEF ToSet
<1> QED
  BY <1>2, <1>3, <1>4, NoNull, FS_Subset

-----------------------------------------------------------------------------
(* Chains of pointers.                                                     *)

\* A chain by its places.
LEMMA LinksIs ==
  ASSUME NEW q, NEW nx, NEW s \in Seq(Cell)
  PROVE  Links(q, nx, s) <=>
            /\ s = <<>> => q = NULL
            /\ s # <<>> => q = s[1]
            /\ \A i \in 1 .. Len(s) : i < Len(s) => nx[s[i]] = s[i + 1]
            /\ s # <<>> => nx[s[Len(s)]] = NULL
<1>1. Len(s) \in Nat /\ DOMAIN s = 1 .. Len(s) /\ (s # <<>> => Len(s) \in 1 .. Len(s))
  OBVIOUS
<1>2. (\A i \in DOMAIN s : nx[s[i]] = IF i = Len(s) THEN NULL ELSE s[i + 1]) <=>
         /\ \A i \in 1 .. Len(s) : i < Len(s) => nx[s[i]] = s[i + 1]
         /\ s # <<>> => nx[s[Len(s)]] = NULL
  <2>1. ASSUME \A i \in DOMAIN s : nx[s[i]] = IF i = Len(s) THEN NULL ELSE s[i + 1]
        PROVE  /\ \A i \in 1 .. Len(s) : i < Len(s) => nx[s[i]] = s[i + 1]
               /\ s # <<>> => nx[s[Len(s)]] = NULL
    BY <1>1, <2>1
  <2>2. ASSUME \A i \in 1 .. Len(s) : i < Len(s) => nx[s[i]] = s[i + 1],
               s # <<>> => nx[s[Len(s)]] = NULL, NEW i \in DOMAIN s
        PROVE  nx[s[i]] = IF i = Len(s) THEN NULL ELSE s[i + 1]
    <3>1. i \in 1 .. Len(s) /\ s # <<>> /\ (i = Len(s) \/ i < Len(s))
      BY <1>1
    <3> QED
      BY <2>2, <3>1
  <2> QED
    BY <2>1, <2>2
<1> QED
  BY <1>2 DEF Links

\* rs_list_push.
LEMMA LinksPush ==
  ASSUME NEW s \in Seq(Cell), Distinct(s), NEW q \in Pointer, NEW nx \in [Cell -> Pointer],
         Links(q, nx, s), NEW c \in Cell, c \notin ToSet(s)
  PROVE  Links(c, [nx EXCEPT ![c] = q], InsertAt(s, 1, c))
<1>1. PICK r : r = InsertAt(s, 1, c)
  OBVIOUS
<1>2. Len(s) \in Nat /\ 1 \in 1 .. Len(s) + 1
  OBVIOUS
<1>3. /\ r \in Seq(Cell) /\ Len(r) = Len(s) + 1 /\ r[1] = c
      /\ \A i \in 1 .. Len(s) : r[IF i < 1 THEN i ELSE i + 1] = s[i]
  BY <1>1, <1>2, InsertedIs
<1>4. \A i \in 1 .. Len(s) : r[i + 1] = s[i] /\ s[i] # c /\ s[i] \in Cell
  <2>1. \A i \in 1 .. Len(s) : ~(i < 1)
    OBVIOUS
  <2> QED
    BY <1>3, <2>1, SeqIs
<1>5. PICK ny : ny = [nx EXCEPT ![c] = q]
  OBVIOUS
<1>6. ny[c] = q /\ \A b \in Cell : b # c => ny[b] = nx[b]
  BY <1>5
<1>7. /\ s = <<>> => q = NULL
      /\ s # <<>> => q = s[1]
      /\ \A i \in 1 .. Len(s) : i < Len(s) => nx[s[i]] = s[i + 1]
      /\ s # <<>> => nx[s[Len(s)]] = NULL
  BY LinksIs
<1>8. r # <<>>
  BY <1>2, <1>3
<1>9. ASSUME NEW i \in 1 .. Len(r), i < Len(r) PROVE ny[r[i]] = r[i + 1]
  <2>1. i \in 1 .. Len(s) /\ s # <<>>
    BY <1>2, <1>3, <1>9
  <2>2. CASE i = 1
    <3>1. 1 \in 1 .. Len(s) /\ q = s[1]
      BY <1>7, <2>1, <2>2
    <3> QED
      BY <1>3, <1>4, <1>6, <2>2, <3>1
  <2>3. CASE i # 1
    <3>1. i - 1 \in 1 .. Len(s) /\ i - 1 < Len(s) /\ (i - 1) + 1 = i
      BY <2>1, <2>3
    <3>2. r[i] = s[i - 1] /\ r[i + 1] = s[i] /\ nx[s[i - 1]] = s[i]
      BY <1>4, <1>7, <2>1, <3>1
    <3> QED
      BY <1>4, <1>6, <3>1, <3>2
  <2> QED
    BY <2>2, <2>3
<1>10. ny[r[Len(r)]] = NULL
  <2>1. CASE s = <<>>
    <3>1. Len(r) = 1
      BY <1>3, <2>1
    <3> QED
      BY <1>3, <1>6, <1>7, <2>1, <3>1
  <2>2. CASE s # <<>>
    <3>1. Len(s) \in 1 .. Len(s)
      BY <1>2, <2>2
    <3> QED
      BY <1>3, <1>4, <1>6, <1>7, <2>2, <3>1
  <2> QED
    BY <2>1, <2>2
<1> QED
  BY <1>1, <1>3, <1>5, <1>8, <1>9, <1>10, LinksIs

\* A cell behind another.
LEMMA LinksInsert ==
  ASSUME NEW s \in Seq(Cell), Distinct(s), NEW q \in Pointer, NEW nx \in [Cell -> Pointer],
         Links(q, nx, s), NEW c \in Cell, c \notin ToSet(s), NEW p \in 2 .. Len(s) + 1
  PROVE  Links(q, [nx EXCEPT ![s[p - 1]] = c, ![c] = nx[s[p - 1]]], InsertAt(s, p, c))
<1>1. PICK r : r = InsertAt(s, p, c)
  OBVIOUS
<1>2. /\ Len(s) \in Nat /\ p \in 1 .. Len(s) + 1 /\ p - 1 \in 1 .. Len(s) /\ p \in Nat
      /\ s # <<>> /\ 1 < p
  OBVIOUS
<1>3. /\ r \in Seq(Cell) /\ Len(r) = Len(s) + 1 /\ r[p] = c
      /\ \A i \in 1 .. Len(r) : i # p =>
            (IF i < p THEN i ELSE i - 1) \in 1 .. Len(s)
               /\ r[i] = s[IF i < p THEN i ELSE i - 1]
  BY <1>1, <1>2, InsertedIs
<1>4. \A i \in 1 .. Len(s) : s[i] # c /\ s[i] \in Cell
  BY SeqIs
<1>5. PICK ny : ny = [nx EXCEPT ![s[p - 1]] = c, ![c] = nx[s[p - 1]]]
  OBVIOUS
<1>6. /\ ny[c] = nx[s[p - 1]] /\ ny[s[p - 1]] = c
      /\ \A b \in Cell : b # c /\ b # s[p - 1] => ny[b] = nx[b]
  BY <1>2, <1>4, <1>5
<1>7. /\ q = s[1]
      /\ \A i \in 1 .. Len(s) : i < Len(s) => nx[s[i]] = s[i + 1]
      /\ nx[s[Len(s)]] = NULL
  BY <1>2, LinksIs
<1>8. \A i \in 1 .. Len(s) : s[i] = s[p - 1] => i = p - 1
  BY <1>2 DEF Distinct
<1>9. r # <<>> /\ q = r[1]
  <2>1. 1 \in 1 .. Len(r) /\ 1 # p /\ 1 < p
    BY <1>2, <1>3
  <2>2. r[1] = s[1]
    BY <1>3, <2>1
  <2> QED
    BY <1>2, <1>3, <1>7, <2>2
<1>10. ASSUME NEW i \in 1 .. Len(r), i < Len(r) PROVE ny[r[i]] = r[i + 1]
  <2>1. i \in Nat /\ i \in 1 .. Len(s) /\ i + 1 \in 1 .. Len(r)
    BY <1>2, <1>3, <1>10
  <2>2. CASE i + 1 < p
    <3>1. i # p /\ i + 1 # p /\ i < p /\ i < Len(s) /\ i # p - 1
      BY <1>2, <2>1, <2>2
    <3>2. r[i] = s[i] /\ r[i + 1] = s[i + 1]
      BY <1>3, <2>1, <2>2, <3>1
    <3> QED
      BY <1>4, <1>6, <1>7, <1>8, <2>1, <3>1, <3>2
  <2>3. CASE i + 1 = p
    <3>1. i # p /\ i < p /\ i = p - 1
      BY <1>2, <2>1, <2>3
    <3>2. r[i] = s[p - 1]
      BY <1>3, <3>1
    <3> QED
      BY <1>3, <1>6, <2>3, <3>2
  <2>4. CASE i = p
    <3>1. i + 1 # p /\ ~(i + 1 < p) /\ (i + 1) - 1 = p /\ p - 1 < Len(s) /\ (p - 1) + 1 = p
      BY <1>2, <1>3, <1>10, <2>1, <2>4
    <3>2. r[i + 1] = s[p]
      BY <1>3, <2>1, <3>1
    <3>3. nx[s[p - 1]] = s[p]
      BY <1>2, <1>7, <3>1
    <3> QED
      BY <1>3, <1>6, <2>4, <3>2, <3>3
  <2>5. CASE i > p
    <3>1. /\ i + 1 # p /\ ~(i + 1 < p) /\ (i + 1) - 1 = i /\ i # p /\ ~(i < p)
          /\ i - 1 \in 1 .. Len(s) /\ i - 1 < Len(s) /\ (i - 1) + 1 = i /\ i - 1 # p - 1
      BY <1>2, <1>3, <1>10, <2>1, <2>5
    <3>2. r[i] = s[i - 1] /\ r[i + 1] = s[i]
      BY <1>3, <2>1, <3>1
    <3>3. nx[s[i - 1]] = s[i]
      BY <1>7, <3>1
    <3> QED
      BY <1>4, <1>6, <1>8, <3>1, <3>2, <3>3
  <2> QED
    BY <1>2, <2>1, <2>2, <2>3, <2>4, <2>5
<1>11. ny[r[Len(r)]] = NULL
  <2>1. CASE p = Len(s) + 1
    BY <1>2, <1>3, <1>6, <1>7, <2>1
  <2>2. CASE p # Len(s) + 1
    <3>1. /\ Len(r) \in 1 .. Len(r) /\ Len(r) # p /\ ~(Len(r) < p) /\ Len(r) - 1 = Len(s)
          /\ Len(s) \in 1 .. Len(s) /\ Len(s) # p - 1
      BY <1>2, <1>3, <2>2
    <3>2. r[Len(r)] = s[Len(s)]
      BY <1>3, <3>1
    <3> QED
      BY <1>4, <1>6, <1>7, <1>8, <3>1, <3>2
  <2> QED
    BY <2>1, <2>2
<1> QED
  BY <1>1, <1>3, <1>5, <1>9, <1>10, <1>11, LinksIs

\* rs_list_pop.
LEMMA LinksPop ==
  ASSUME NEW s \in Seq(Cell), Distinct(s), NEW q, NEW nx \in [Cell -> Pointer],
         Links(q, nx, s), s # <<>>
  PROVE  q = s[1] /\ Links(nx[q], [nx EXCEPT ![q] = NULL], RemoveAt(s, 1))
<1>1. PICK r : r = RemoveAt(s, 1)
  OBVIOUS
<1>2. Len(s) \in Nat /\ 1 \in 1 .. Len(s) /\ Len(s) \in 1 .. Len(s)
  OBVIOUS
<1>3. /\ r \in Seq(Cell) /\ Len(r) = Len(s) - 1
      /\ \A i \in 1 .. Len(r) : r[IF i < 1 THEN i ELSE i] = s[IF i < 1 THEN i ELSE i + 1]
  BY <1>1, <1>2, RemovedIs
<1>4. \A i \in 1 .. Len(r) : r[i] = s[i + 1] /\ i + 1 \in 1 .. Len(s) /\ i + 1 # 1
  <2>1. \A i \in 1 .. Len(r) : ~(i < 1) /\ i + 1 \in 1 .. Len(s) /\ i + 1 # 1
    BY <1>2, <1>3
  <2> QED
    BY <1>3, <2>1
<1>5. /\ q = s[1]
      /\ \A i \in 1 .. Len(s) : i < Len(s) => nx[s[i]] = s[i + 1]
      /\ nx[s[Len(s)]] = NULL
  BY LinksIs
<1>6. \A i \in 1 .. Len(s) : s[i] \in Cell /\ (i # 1 => s[i] # s[1])
  BY <1>2, SeqIs DEF Distinct
<1>7. PICK ny : ny = [nx EXCEPT ![q] = NULL]
  OBVIOUS
<1>8. \A i \in 1 .. Len(s) : i # 1 => ny[s[i]] = nx[s[i]]
  BY <1>5, <1>6, <1>7
<1>9. CASE Len(s) = 1
  <2>1. r = <<>> /\ Len(r) = 0 /\ DOMAIN r = {}
    BY <1>3, <1>9
  <2>2. nx[q] = NULL
    BY <1>5, <1>9
  <2>3. Links(nx[q], ny, r)
    BY <2>1, <2>2 DEF Links
  <2> QED
    BY <1>1, <1>5, <1>7, <2>3
<1>10. CASE Len(s) # 1
  <2>1. /\ 1 < Len(s) /\ Len(r) \in 1 .. Len(r) /\ Len(r) + 1 = Len(s) /\ 1 \in 1 .. Len(r)
        /\ r # <<>> /\ 1 + 1 \in 1 .. Len(s)
    BY <1>2, <1>3, <1>10
  <2>2. nx[q] = r[1]
    BY <1>2, <1>4, <1>5, <2>1
  <2>3. ASSUME NEW i \in 1 .. Len(r), i < Len(r) PROVE ny[r[i]] = r[i + 1]
    <3>1. i + 1 \in 1 .. Len(r) /\ i + 1 < Len(s)
      BY <2>1, <2>3
    <3> QED
      BY <1>4, <1>5, <1>8, <3>1
  <2>4. ny[r[Len(r)]] = NULL
    BY <1>4, <1>5, <1>8, <2>1
  <2>5. Links(nx[q], ny, r)
    BY <1>3, <2>1, <2>2, <2>3, <2>4, LinksIs
  <2> QED
    BY <1>1, <1>5, <1>7, <2>5
<1> QED
  BY <1>9, <1>10

\* rs_list_remove, of a cell behind another.
LEMMA LinksRemove ==
  ASSUME NEW s \in Seq(Cell), Distinct(s), NEW q, NEW nx \in [Cell -> Pointer],
         Links(q, nx, s), NEW p \in 2 .. Len(s)
  PROVE  Links(q, [nx EXCEPT ![s[p - 1]] = nx[s[p]], ![s[p]] = NULL], RemoveAt(s, p))
<1>1. PICK r : r = RemoveAt(s, p)
  OBVIOUS
<1>2. /\ Len(s) \in Nat /\ p \in 1 .. Len(s) /\ p - 1 \in 1 .. Len(s) /\ p \in Nat
      /\ s # <<>> /\ 1 < p /\ Len(s) \in 1 .. Len(s)
  OBVIOUS
<1>3. /\ r \in Seq(Cell) /\ Len(r) = Len(s) - 1
      /\ \A i \in 1 .. Len(r) : r[i] = s[IF i < p THEN i ELSE i + 1]
  <2>1. r \in Seq(Cell) /\ Len(r) = Len(s) - 1
    BY <1>1, <1>2, RemovedIs
  <2>2. ASSUME NEW i \in 1 .. Len(r) PROVE r[i] = s[IF i < p THEN i ELSE i + 1]
    <3>1. /\ \A j \in 1 .. p - 1 : r[j] = s[j]
          /\ \A j \in p .. Len(s) - 1 : r[j] = s[j + 1]
      BY <1>1, <1>2, RemoveAtProperties
    <3>2. CASE i < p
      <4>1. i \in 1 .. p - 1
        BY <1>2, <3>2
      <4> QED
        BY <3>1, <3>2, <4>1
    <3>3. CASE ~(i < p)
      <4>1. i \in p .. Len(s) - 1
        BY <1>2, <2>1, <3>3
      <4> QED
        BY <3>1, <3>3, <4>1
    <3> QED
      BY <3>2, <3>3
  <2> QED
    BY <2>1, <2>2
<1>4. /\ q = s[1]
      /\ \A i \in 1 .. Len(s) : i < Len(s) => nx[s[i]] = s[i + 1]
      /\ nx[s[Len(s)]] = NULL
  BY <1>2, LinksIs
<1>5. \A i, j \in 1 .. Len(s) : s[i] \in Cell /\ (i # j => s[i] # s[j])
  BY <1>2, SeqIs DEF Distinct
<1>6. PICK ny : ny = [nx EXCEPT ![s[p - 1]] = nx[s[p]], ![s[p]] = NULL]
  OBVIOUS
<1>7. /\ ny[s[p - 1]] = nx[s[p]]
      /\ \A i \in 1 .. Len(s) : i # p /\ i # p - 1 => ny[s[i]] = nx[s[i]]
  <2>1. p # p - 1
    BY <1>2
  <2> QED
    BY <1>2, <1>5, <1>6, <2>1
<1>8. r # <<>> /\ q = r[1] /\ Len(r) \in 1 .. Len(r)
  <2>1. 1 \in 1 .. Len(r) /\ 1 < p /\ Len(r) \in 1 .. Len(r)
    BY <1>2, <1>3
  <2> QED
    BY <1>3, <1>4, <2>1
<1>9. ASSUME NEW i \in 1 .. Len(r), i < Len(r) PROVE ny[r[i]] = r[i + 1]
  <2>1. i \in Nat /\ i \in 1 .. Len(s) /\ i + 1 \in 1 .. Len(r) /\ i + 1 \in 1 .. Len(s)
        /\ i + 1 < Len(s) /\ i < Len(s)
    BY <1>2, <1>3, <1>9
  <2>2. CASE i + 1 < p
    <3>1. i < p /\ i # p /\ i # p - 1
      BY <1>2, <2>1, <2>2
    <3>2. r[i] = s[i] /\ r[i + 1] = s[i + 1]
      BY <1>3, <2>1, <2>2, <3>1
    <3> QED
      BY <1>4, <1>7, <2>1, <3>1, <3>2
  <2>3. CASE i + 1 = p
    <3>1. i < p /\ i = p - 1 /\ ~(i + 1 < p) /\ p < Len(s)
      BY <1>2, <2>1, <2>3
    <3>2. r[i] = s[p - 1] /\ r[i + 1] = s[p + 1]
      BY <1>3, <2>1, <2>3, <3>1
    <3> QED
      BY <1>2, <1>4, <1>7, <3>1, <3>2
  <2>4. CASE i + 1 > p
    <3>1. ~(i < p) /\ ~(i + 1 < p) /\ i + 1 # p /\ i + 1 # p - 1
      BY <1>2, <2>1, <2>4
    <3>2. r[i] = s[i + 1] /\ r[i + 1] = s[(i + 1) + 1]
      BY <1>3, <2>1, <3>1
    <3> QED
      BY <1>4, <1>7, <2>1, <3>1, <3>2
  <2> QED
    BY <1>2, <2>1, <2>2, <2>3, <2>4
<1>10. ny[r[Len(r)]] = NULL
  <2>1. CASE p = Len(s)
    <3>1. Len(r) < p /\ Len(r) = p - 1
      BY <1>2, <1>3, <2>1
    <3>2. r[Len(r)] = s[p - 1]
      BY <1>3, <1>8, <3>1
    <3> QED
      BY <1>4, <1>7, <2>1, <3>2
  <2>2. CASE p # Len(s)
    <3>1. ~(Len(r) < p) /\ Len(r) + 1 = Len(s) /\ Len(s) # p /\ Len(s) # p - 1
      BY <1>2, <1>3, <2>2
    <3>2. r[Len(r)] = s[Len(s)]
      BY <1>3, <1>8, <3>1
    <3> QED
      BY <1>2, <1>4, <1>7, <3>1, <3>2
  <2> QED
    BY <2>1, <2>2
<1>11. Links(q, ny, r)
  BY <1>3, <1>8, <1>9, <1>10, LinksIs
<1> QED
  BY <1>1, <1>6, <1>11

-----------------------------------------------------------------------------
(* What following the pointers finds.                                      *)

\* The pointer n cells from the first is that to the cell at place n, counted from 0.
LEMMA NthIs ==
  ASSUME order \in Seq(Cell), Links(items, next, order)
  PROVE  \A n \in Nat : Nth[n] = IF n < Len(order) THEN order[n + 1] ELSE NULL
<1> DEFINE Walk(f) == [n \in Nat |-> IF n = 0 THEN items
                                     ELSE IF f[n - 1] = NULL THEN NULL ELSE next[f[n - 1]]]
           at == [n \in Nat |-> IF n < Len(order) THEN order[n + 1] ELSE NULL]
<1>1. Nth = CHOOSE f : f = Walk(f)
  BY DEF Nth
<1>2. Len(order) \in Nat /\ \A i \in 1 .. Len(order) : order[i] # NULL
  BY SeqIs, NoNull
<1>3. /\ order = <<>> => items = NULL
      /\ order # <<>> => items = order[1]
      /\ \A i \in 1 .. Len(order) : i < Len(order) => next[order[i]] = order[i + 1]
      /\ order # <<>> => next[order[Len(order)]] = NULL
  BY LinksIs
<1>4. ASSUME NEW n \in Nat
      PROVE  at[n] = IF n = 0 THEN items
                     ELSE IF at[n - 1] = NULL THEN NULL ELSE next[at[n - 1]]
  <2>1. CASE n = 0
    BY <1>2, <1>3, <2>1
  <2>2. CASE n # 0 /\ n - 1 < Len(order)
    <3>1. n - 1 \in Nat /\ (n - 1) + 1 = n /\ n \in 1 .. Len(order)
      BY <1>2, <2>2
    <3>2. at[n - 1] = order[n] /\ order[n] # NULL
      BY <1>2, <2>2, <3>1
    <3>3. CASE n < Len(order)
      BY <1>3, <2>2, <3>1, <3>2, <3>3
    <3>4. CASE ~(n < Len(order))
      <4>1. n = Len(order) /\ order # <<>>
        BY <1>2, <3>1, <3>4
      <4> QED
        BY <1>3, <2>2, <3>2, <3>4, <4>1
    <3> QED
      BY <3>3, <3>4
  <2>3. CASE n # 0 /\ ~(n - 1 < Len(order))
    <3>1. n - 1 \in Nat /\ ~(n < Len(order))
      BY <1>2, <2>3
    <3> QED
      BY <2>3, <3>1
  <2> QED
    BY <2>1, <2>2, <2>3
<1>5. at = Walk(at)
  <2> HIDE DEF at
  <2>1. at = [n \in Nat |-> at[n]]
    BY DEF at
  <2> QED
    BY <1>4, <2>1
<1>6. Nth = Walk(Nth)
  <2> HIDE DEF Walk, at
  <2> QED
    BY <1>1, <1>5
<1>7. ASSUME NEW n \in Nat
      PROVE  Nth[n] = IF n = 0 THEN items
                      ELSE IF Nth[n - 1] = NULL THEN NULL ELSE next[Nth[n - 1]]
  BY <1>6
<1> DEFINE bad == {n \in Nat : Nth[n] # at[n]}
<1>8. bad = {}
  <2> SUFFICES ASSUME bad # {} PROVE FALSE
    OBVIOUS
  <2>1. PICK n \in bad : \A y \in bad : n <= y
    <3>1. bad \in SUBSET Nat
      OBVIOUS
    <3> HIDE DEF bad
    <3> QED
      BY <3>1, LeastNatural
  <2>2. n \in Nat /\ Nth[n] # at[n]
    OBVIOUS
  <2> HIDE DEF at
  <2>3. n # 0
    BY <1>4, <1>7, <2>2
  <2>4. n - 1 \in Nat /\ n - 1 \notin bad
    BY <2>1, <2>2, <2>3
  <2>5. Nth[n - 1] = at[n - 1]
    BY <2>4
  <2> QED
    BY <1>4, <1>7, <2>2, <2>3, <2>5
<1>9. \A n \in Nat : Nth[n] = at[n]
  BY <1>8
<1> QED
  BY <1>9

\* There are as many cells as places, and the linked ones are those of the sequence.
LEMMA SizeIs ==
  ASSUME order \in Seq(Cell), Distinct(order), Links(items, next, order)
  PROVE  Size = Len(order) /\ Linked = ToSet(order)
<1>1. Len(order) \in Nat /\ DOMAIN order = 1 .. Len(order) /\ Cardinality(Cell) \in Nat
      /\ Len(order) <= Cardinality(Cell)
  BY SeqIs, NoNull, NoLonger
<1>2. \A i \in 1 .. Len(order) : order[i] # NULL
  BY SeqIs, NoNull
<1>3. {n \in 0 .. Cardinality(Cell) - 1 : Nth[n] # NULL} = 0 .. Len(order) - 1
  <2>1. ASSUME NEW n \in 0 .. Cardinality(Cell) - 1
        PROVE  Nth[n] # NULL <=> n \in 0 .. Len(order) - 1
    <3>1. n \in Nat /\ Nth[n] = IF n < Len(order) THEN order[n + 1] ELSE NULL
      BY NthIs
    <3>2. n < Len(order) => n + 1 \in 1 .. Len(order)
      BY <1>1, <3>1
    <3>3. n < Len(order) <=> n \in 0 .. Len(order) - 1
      BY <1>1, <3>1
    <3> QED
      BY <1>2, <3>1, <3>2, <3>3
  <2>2. 0 .. Len(order) - 1 \subseteq 0 .. Cardinality(Cell) - 1
    BY <1>1
  <2> QED
    BY <2>1, <2>2
<1>4. Size = Len(order)
  <2>1. 0 \in Int /\ Len(order) - 1 \in Int /\ (0 <= Len(order) - 1 \/ Len(order) = 0)
    BY <1>1
  <2>2. Cardinality(0 .. Len(order) - 1) =
           IF 0 > Len(order) - 1 THEN 0 ELSE (Len(order) - 1) - 0 + 1
    BY <2>1, FS_Interval
  <2>3. Cardinality(0 .. Len(order) - 1) = Len(order)
    <3>1. CASE 0 <= Len(order) - 1
      BY <1>1, <2>2, <3>1
    <3>2. CASE Len(order) = 0
      BY <2>2, <3>2
    <3> QED
      BY <2>1, <3>1, <3>2
  <2> QED
    BY <1>3, <2>3 DEF Size
<1>5. \A n \in 0 .. Len(order) - 1 : n + 1 \in 1 .. Len(order) /\ Nth[n] = order[n + 1]
  <2>1. \A n \in 0 .. Len(order) - 1 : n \in Nat /\ n < Len(order) /\ n + 1 \in 1 .. Len(order)
    BY <1>1
  <2> QED
    BY <2>1, NthIs
<1>6. \A i \in 1 .. Len(order) : i - 1 \in 0 .. Len(order) - 1 /\ (i - 1) + 1 = i
  BY <1>1
<1>7. Linked = ToSet(order)
  <2>1. \A b \in Linked : b \in ToSet(order)
    BY <1>1, <1>4, <1>5 DEF Linked, ToSet
  <2>2. ASSUME NEW b \in ToSet(order) PROVE b \in Linked
    <3>1. PICK i \in 1 .. Len(order) : order[i] = b
      BY <1>1 DEF ToSet
    <3>2. Nth[i - 1] = b /\ i - 1 \in 0 .. Size - 1
      BY <1>4, <1>5, <1>6, <3>1
    <3> QED
      BY <3>2 DEF Linked
  <2> QED
    BY <2>1, <2>2
<1> QED
  BY <1>4, <1>7

\* rs_list_remove takes a cell out of the chain, and touches no others.
LEMMA WithoutIs ==
  ASSUME TypeOK, Distinct(order), Links(items, next, order), NEW p \in 1 .. Len(order),
         NEW m, m = Without(order[p])
  PROVE  /\ Links(m.items, m.next, RemoveAt(order, p))
         /\ m.items \in Pointer /\ m.next \in [Cell -> Pointer]
         /\ m.next[order[p]] = NULL
         /\ \A b \in Cell : b \notin ToSet(order) => m.next[b] = next[b]
<1>1. /\ order \in Seq(Cell) /\ items \in Pointer /\ next \in [Cell -> Pointer]
      /\ Len(order) \in Nat /\ DOMAIN order = 1 .. Len(order) /\ order # <<>>
      /\ order[p] \in Cell /\ NULL \in Pointer
  BY DEF TypeOK, Pointer
<1>2. /\ items = order[1]
      /\ \A i \in 1 .. Len(order) : i < Len(order) => next[order[i]] = order[i + 1]
      /\ next[order[Len(order)]] = NULL
  BY <1>1, LinksIs
<1>3. \A i \in 1 .. Len(order) : order[i] \in ToSet(order) /\ order[i] \in Cell
  BY <1>1, SeqIs
<1>4. CASE p = 1
  <2>1. m = [items |-> next[order[1]], next |-> [next EXCEPT ![order[1]] = NULL]]
    BY <1>2, <1>4 DEF Without
  <2>2. m.items = next[items] /\ m.next = [next EXCEPT ![items] = NULL]
    BY <1>2, <2>1
  <2>3. Links(m.items, m.next, RemoveAt(order, p))
    <3>1. Links(next[items], [next EXCEPT ![items] = NULL], RemoveAt(order, 1))
      BY <1>1, LinksPop
    <3> QED
      BY <1>4, <2>2, <3>1
  <2> QED
    BY <1>1, <1>2, <1>3, <1>4, <2>2, <2>3
<1>5. CASE p # 1
  <2>1. /\ p - 1 \in 1 .. Len(order) /\ p - 1 < Len(order) /\ (p - 1) + 1 = p
        /\ p \in 2 .. Len(order)
    BY <1>1, <1>5
  <2>2. order[p] # items
    BY <1>1, <1>2, <1>5 DEF Distinct
  <2>3. ASSUME NEW b \in Linked, next[b] = order[p] PROVE b = order[p - 1]
    <3>1. PICK j \in 1 .. Len(order) : order[j] = b
      BY <1>1, SizeIs, SeqIs
    <3>2. j # Len(order)
      BY <1>1, <1>2, <2>3, <3>1, NoNull
    <3>3. j < Len(order) /\ j + 1 \in 1 .. Len(order)
      <4>1. Len(order) \in Nat /\ j \in Nat /\ 1 <= j /\ j <= Len(order)
        BY <1>1
      <4> QED
        BY <3>2, <4>1
    <3>4. order[j + 1] = order[p]
      BY <1>2, <2>3, <3>1, <3>3
    <3>5. j + 1 = p
      BY <1>1, <3>3, <3>4 DEF Distinct
    <3> QED
      BY <1>1, <3>1, <3>5
  <2>4. order[p - 1] \in Linked /\ next[order[p - 1]] = order[p]
    <3>1. order[p - 1] \in Linked
      BY <1>1, <1>3, <2>1, SizeIs
    <3>2. next[order[p - 1]] = order[(p - 1) + 1]
      BY <1>2, <2>1
    <3> QED
      BY <2>1, <3>1, <3>2
  <2>5. PICK before : before = CHOOSE b \in Linked : next[b] = order[p]
    OBVIOUS
  <2>6. before = order[p - 1]
    BY <2>3, <2>4, <2>5
  <2>7. m = [items |-> items,
             next |-> [next EXCEPT ![order[p - 1]] = next[order[p]], ![order[p]] = NULL]]
    BY <2>2, <2>5, <2>6 DEF Without
  <2>8. /\ m.items = items
        /\ m.next = [next EXCEPT ![order[p - 1]] = next[order[p]], ![order[p]] = NULL]
    BY <2>7
  <2>9. Links(m.items, m.next, RemoveAt(order, p))
    <3>1. Links(items, [next EXCEPT ![order[p - 1]] = next[order[p]], ![order[p]] = NULL],
                RemoveAt(order, p))
      BY <1>1, <2>1, LinksRemove
    <3> QED
      BY <2>8, <3>1
  <2>10. next[order[p]] \in Pointer
    BY <1>1
  <2>11. m.next \in [Cell -> Pointer] /\ m.next[order[p]] = NULL
    BY <1>1, <1>3, <2>1, <2>8, <2>10
  <2>12. \A b \in Cell : b \notin ToSet(order) => m.next[b] = next[b]
    BY <1>1, <1>3, <2>1, <2>8
  <2> QED
    BY <1>1, <2>8, <2>9, <2>11, <2>12
<1> QED
  BY <1>4, <1>5

\* rs_list_push, or a cell behind the one that rs_list_nth_cell gives.
LEMMA WithIs ==
  ASSUME TypeOK, Distinct(order), Links(items, next, order), NEW i \in Nat,
         i = 0 \/ Size > 0, NEW c \in Cell, c \notin ToSet(order),
         NEW m, m = With(i, c), NEW p, p = IF i < Len(order) THEN i + 1 ELSE Len(order) + 1
  PROVE  /\ p \in 1 .. Len(order) + 1
         /\ Links(m.items, m.next, InsertAt(order, p, c))
         /\ m.items \in Pointer /\ m.next \in [Cell -> Pointer]
         /\ \A b \in Cell : b \notin ToSet(order) /\ b # c => m.next[b] = next[b]
<1>1. /\ order \in Seq(Cell) /\ items \in Pointer /\ next \in [Cell -> Pointer]
      /\ Len(order) \in Nat /\ Size = Len(order) /\ p \in 1 .. Len(order) + 1
      /\ c \in Pointer
  BY SizeIs DEF TypeOK, Pointer
<1>2. \A j \in 1 .. Len(order) : order[j] \in ToSet(order) /\ order[j] \in Cell
  BY <1>1, SeqIs
<1>3. CASE i = 0
  <2>1. m = [items |-> c, next |-> [next EXCEPT ![c] = items]]
    BY <1>3 DEF With
  <2>2. m.items = c /\ m.next = [next EXCEPT ![c] = items] /\ p = 1
    <3>1. p = 1
      <4>1. Len(order) \in Nat
        BY <1>1
      <4> QED
        BY <1>3, <4>1
    <3> QED
      BY <2>1, <3>1
  <2>3. Links(m.items, m.next, InsertAt(order, p, c))
    <3>1. Links(c, [next EXCEPT ![c] = items], InsertAt(order, 1, c))
      BY <1>1, LinksPush
    <3> QED
      BY <2>2, <3>1
  <2> QED
    BY <1>1, <2>2, <2>3
<1>4. CASE i # 0
  <2>1. p \in 2 .. Len(order) + 1 /\ p - 1 \in 1 .. Len(order)
    BY <1>1, <1>4
  <2>2. PICK n \in Nat : n = (IF i >= Size THEN Size - 1 ELSE i - 1) /\ n + 1 = p - 1
    <3>1. Size \in Nat /\ Size = Len(order)
      BY <1>1
    <3>2. CASE i >= Size
      <4>1. Size > 0 /\ p = Size + 1
        BY <1>4, <3>1, <3>2
      <4>2. Size - 1 \in Nat /\ (Size - 1) + 1 = p - 1
        BY <3>1, <4>1
      <4> QED
        BY <3>2, <4>2
    <3>3. CASE ~(i >= Size)
      <4>1. p = i + 1
        BY <3>1, <3>3
      <4>2. i - 1 \in Nat /\ (i - 1) + 1 = p - 1
        BY <1>4, <4>1
      <4> QED
        BY <3>3, <4>2
    <3> QED
      BY <3>2, <3>3
  <2>3. Nth[n] = order[p - 1]
    <3>1. n < Len(order)
      BY <1>1, <2>1, <2>2
    <3>2. Nth[n] = order[n + 1]
      BY <1>1, <3>1, NthIs
    <3> QED
      BY <2>2, <3>2
  <2>4. m = [items |-> items,
             next |-> [next EXCEPT ![order[p - 1]] = c, ![c] = next[order[p - 1]]]]
    BY <1>4, <2>2, <2>3 DEF With
  <2>5. /\ m.items = items
        /\ m.next = [next EXCEPT ![order[p - 1]] = c, ![c] = next[order[p - 1]]]
    BY <2>4
  <2>6. Links(m.items, m.next, InsertAt(order, p, c))
    <3>1. Links(items, [next EXCEPT ![order[p - 1]] = c, ![c] = next[order[p - 1]]],
                InsertAt(order, p, c))
      BY <1>1, <2>1, LinksInsert
    <3> QED
      BY <2>5, <3>1
  <2>7. next[order[p - 1]] \in Pointer
    BY <1>1, <1>2, <2>1
  <2>8. m.next \in [Cell -> Pointer]
    BY <1>1, <1>2, <2>1, <2>5, <2>7
  <2>9. \A b \in Cell : b \notin ToSet(order) /\ b # c => m.next[b] = next[b]
    BY <1>1, <1>2, <2>1, <2>5
  <2> QED
    BY <1>1, <2>5, <2>6, <2>8, <2>9
<1> QED
  BY <1>3, <1>4

\* What rs_tag_compound_set and _delete free: the first cell with the key, if there is
\* one.
LEMMA KeyedIs ==
  ASSUME order \in Seq(Cell), Distinct(order), Links(items, next, order), NEW x
  PROVE  \/ /\ Keyed(x) = {} /\ Rest(x) = order
            /\ PointersWithout(x) = [items |-> items, next |-> next]
            /\ \A i \in 1 .. Len(order) : data[order[i]] # x
         \/ \E p \in 1 .. Len(order) :
               /\ Keyed(x) = {order[p]} /\ data[order[p]] = x
               /\ Rest(x) = RemoveAt(order, p)
               /\ PointersWithout(x) = Without(order[p])
<1> DEFINE found == {n \in 0 .. Size - 1 : data[Nth[n]] = x}
<1>1. Size = Len(order) /\ Len(order) \in Nat /\ DOMAIN order = 1 .. Len(order)
  BY SizeIs, SeqIs
<1>2. \A n \in 0 .. Size - 1 : n + 1 \in 1 .. Len(order) /\ Nth[n] = order[n + 1]
  <2>1. \A n \in 0 .. Size - 1 : n \in Nat /\ n < Len(order) /\ n + 1 \in 1 .. Len(order)
    BY <1>1
  <2> QED
    BY <2>1, NthIs
<1>3. CASE found = {}
  <2>1. Keyed(x) = {}
    BY <1>3 DEF Keyed
  <2>2. ASSUME NEW i \in 1 .. Len(order) PROVE data[order[i]] # x
    <3>1. i - 1 \in 0 .. Size - 1 /\ (i - 1) + 1 = i
      BY <1>1
    <3>2. Nth[i - 1] = order[i]
      BY <1>2, <3>1
    <3> QED
      BY <1>3, <3>1, <3>2
  <2> QED
    BY <2>1, <2>2 DEF Rest, PointersWithout
<1>4. CASE found # {}
  <2>1. found \in SUBSET Nat
    BY <1>1
  <2>2. PICK n \in found : n = Min(found)
    <3> HIDE DEF found
    <3> QED
      BY <1>4, <2>1, MinProperties
  <2>3. Keyed(x) = {Nth[n]}
    BY <1>4, <2>2 DEF Keyed
  <2>4. PICK p \in 1 .. Len(order) : Nth[n] = order[p]
    BY <1>2, <2>2
  <2>5. data[order[p]] = x
    BY <2>2, <2>4
  <2>6. Keyed(x) = {order[p]} /\ Keyed(x) # {}
    BY <2>3, <2>4
  <2>7. (CHOOSE i \in DOMAIN order : order[i] \in Keyed(x)) = p
    <3>1. \A i \in DOMAIN order : order[i] \in Keyed(x) <=> i = p
      BY <1>1, <2>6 DEF Distinct
    <3> QED
      BY <1>1, <3>1
  <2>8. Rest(x) = RemoveAt(order, p)
    BY <2>6, <2>7 DEF Rest
  <2>9. (CHOOSE c \in Keyed(x) : TRUE) = order[p]
    BY <2>6
  <2>10. PointersWithout(x) = Without(order[p])
    BY <2>6, <2>9 DEF PointersWithout
  <2> QED
    BY <2>5, <2>6, <2>8, <2>10
<1> QED
  BY <1>3, <1>4

\* The pointers without the key link the rest.
LEMMA KeyTaken ==
  ASSUME TypeOK, Distinct(order), Links(items, next, order), NEW x,
         NEW m, m = PointersWithout(x)
  PROVE  /\ Rest(x) \in Seq(Cell) /\ Distinct(Rest(x)) /\ Links(m.items, m.next, Rest(x))
         /\ Keyed(x) \subseteq ToSet(order) /\ ToSet(Rest(x)) = ToSet(order) \ Keyed(x)
         /\ m.items \in Pointer /\ m.next \in [Cell -> Pointer]
         /\ \A b \in Keyed(x) : m.next[b] = NULL
         /\ \A b \in Cell : b \notin ToSet(order) => m.next[b] = next[b]
<1>1. /\ order \in Seq(Cell) /\ items \in Pointer /\ next \in [Cell -> Pointer]
      /\ DOMAIN order = 1 .. Len(order)
  BY SeqIs DEF TypeOK
<1>2. CASE Keyed(x) = {} /\ Rest(x) = order
           /\ PointersWithout(x) = [items |-> items, next |-> next]
  <2>1. m.items = items /\ m.next = next
    BY <1>2
  <2> QED
    BY <1>1, <1>2, <2>1
<1>3. CASE \E p \in 1 .. Len(order) :
              /\ Keyed(x) = {order[p]} /\ Rest(x) = RemoveAt(order, p)
              /\ PointersWithout(x) = Without(order[p])
  <2>1. PICK p \in 1 .. Len(order) :
           /\ Keyed(x) = {order[p]} /\ Rest(x) = RemoveAt(order, p) /\ m = Without(order[p])
    BY <1>3
  <2>2. /\ Rest(x) \in Seq(Cell) /\ Distinct(Rest(x))
        /\ ToSet(Rest(x)) = ToSet(order) \ {order[p]}
    BY <1>1, <2>1, RemovedIs
  <2>3. /\ Links(m.items, m.next, RemoveAt(order, p))
        /\ m.items \in Pointer /\ m.next \in [Cell -> Pointer]
        /\ m.next[order[p]] = NULL
        /\ \A b \in Cell : b \notin ToSet(order) => m.next[b] = next[b]
    BY <2>1, WithoutIs
  <2>4. order[p] \in ToSet(order)
    BY <1>1, SeqIs
  <2> QED
    BY <2>1, <2>2, <2>3, <2>4
<1> QED
  BY <1>1, <1>2, <1>3, KeyedIs

-----------------------------------------------------------------------------
(* What a loop has had.                                                    *)

\* The place of an iterator, with ranges for DOMAINs.
LEMMA StandsAtIs ==
  ASSUME NEW p, NEW s \in Seq(Cell), NEW t, NEW g, NEW k
  PROVE  StandsAt(p, s, t, g, k) <=>
            /\ t = IF p = Len(s) + 1 THEN NULL ELSE s[p]
            /\ g \subseteq ToSet(s) /\ k \subseteq ToSet(s)
            /\ \A i \in 1 .. Len(s) : s[i] \in g => i < p
            /\ \A i \in 1 .. Len(s) : s[i] \in k /\ i < p => s[i] \in g
BY SeqIs DEF StandsAt

\* One that stands has not given the cell it stands on, and is at the end when it has
\* given all.
LEMMA StandsOn ==
  ASSUME NEW s \in Seq(Cell), NEW t, NEW g, NEW k, Stands(s, t, g, k)
  PROVE  /\ t \in ToSet(s) \cup {NULL} /\ t \notin g
         /\ t = NULL => k \subseteq g
<1>1. Len(s) \in Nat /\ DOMAIN s = 1 .. Len(s)
      /\ \A i \in 1 .. Len(s) : s[i] \in ToSet(s) /\ s[i] # NULL
  BY SeqIs, NoNull
<1>2. PICK p \in 1 .. Len(s) + 1 : StandsAt(p, s, t, g, k)
  BY DEF Stands
<1>3. /\ t = IF p = Len(s) + 1 THEN NULL ELSE s[p]
      /\ g \subseteq ToSet(s) /\ k \subseteq ToSet(s)
      /\ \A i \in 1 .. Len(s) : s[i] \in g => i < p
      /\ \A i \in 1 .. Len(s) : s[i] \in k /\ i < p => s[i] \in g
  BY <1>2, StandsAtIs
<1>4. NULL \notin ToSet(s)
  BY SeqIs, NoNull
<1>5. CASE p = Len(s) + 1
  <2>1. \A i \in 1 .. Len(s) : i < p
    BY <1>1, <1>5
  <2>2. k \subseteq g
    BY <1>3, <2>1, SeqIs
  <2> QED
    BY <1>3, <1>4, <1>5, <2>2
<1>6. CASE p # Len(s) + 1
  <2>1. p \in 1 .. Len(s) /\ ~(p < p)
    BY <1>1, <1>6
  <2> QED
    BY <1>1, <1>3, <1>6, <2>1
<1> QED
  BY <1>5, <1>6

\* A loop begins.
LEMMA StandsFirst ==
  ASSUME NEW s \in Seq(Cell), NEW q, NEW nx, Links(q, nx, s)
  PROVE  Stands(s, q, {}, ToSet(s))
<1>1. Len(s) \in Nat /\ 1 \in 1 .. Len(s) + 1 /\ (s = <<>> <=> 1 = Len(s) + 1)
      /\ \A i \in 1 .. Len(s) : ~(i < 1)
  BY SeqIs
<1>2. q = IF 1 = Len(s) + 1 THEN NULL ELSE s[1]
  BY <1>1, LinksIs
<1>3. StandsAt(1, s, q, {}, ToSet(s))
  BY <1>1, <1>2, StandsAtIs, SMTT(30)
<1> QED
  BY <1>1, <1>3 DEF Stands

\* rs_tag_compound_iterator_next and its like.
LEMMA StandsNext ==
  ASSUME NEW s \in Seq(Cell), Distinct(s), NEW q, NEW nx, Links(q, nx, s),
         NEW t \in Cell, NEW g, NEW k, Stands(s, t, g, k)
  PROVE  Stands(s, nx[t], g \cup {t}, k)
<1>1. Len(s) \in Nat /\ DOMAIN s = 1 .. Len(s) /\ \A i \in 1 .. Len(s) : s[i] \in ToSet(s)
  BY SeqIs
<1>2. PICK p \in 1 .. Len(s) + 1 : StandsAt(p, s, t, g, k)
  BY DEF Stands
<1>3. /\ t = IF p = Len(s) + 1 THEN NULL ELSE s[p]
      /\ g \subseteq ToSet(s) /\ k \subseteq ToSet(s)
      /\ \A i \in 1 .. Len(s) : s[i] \in g => i < p
      /\ \A i \in 1 .. Len(s) : s[i] \in k /\ i < p => s[i] \in g
  BY <1>2, StandsAtIs
<1>4. p # Len(s) + 1 /\ t = s[p]
  BY <1>3, NoNull
<1>5. p \in 1 .. Len(s) /\ p + 1 \in 1 .. Len(s) + 1 /\ p \in Nat
  BY <1>1, <1>4
<1>6. nx[t] = IF p + 1 = Len(s) + 1 THEN NULL ELSE s[p + 1]
  <2>1. CASE p = Len(s)
    <3>1. s # <<>> /\ nx[s[Len(s)]] = NULL
      BY <1>1, <1>5, LinksIs
    <3> QED
      BY <1>4, <2>1, <3>1
  <2>2. CASE p # Len(s)
    <3>1. Len(s) \in Nat /\ p \in Nat /\ p <= Len(s)
      BY <1>5, SeqIs
    <3>2. p < Len(s) /\ p + 1 # Len(s) + 1
      BY <2>2, <3>1
    <3> QED
      BY <1>4, <1>5, <3>2, LinksIs
  <2> QED
    BY <2>1, <2>2
<1>7. \A i \in 1 .. Len(s) : s[i] = t => i = p
  BY <1>1, <1>4, <1>5 DEF Distinct
<1>8. ASSUME NEW i \in 1 .. Len(s), s[i] \in g \cup {t} PROVE i < p + 1
  <2>1. i < p \/ i = p
    BY <1>3, <1>7, <1>8
  <2> QED
    BY <1>5, <2>1
<1>9. ASSUME NEW i \in 1 .. Len(s), s[i] \in k, i < p + 1 PROVE s[i] \in g \cup {t}
  <2>1. i < p \/ i = p
    BY <1>5, <1>9
  <2> QED
    BY <1>3, <1>4, <1>9, <2>1
<1>10. g \cup {t} \subseteq ToSet(s)
  BY <1>1, <1>3, <1>4, <1>5
<1>11. StandsAt(p + 1, s, nx[t], g \cup {t}, k)
  BY <1>3, <1>6, <1>8, <1>9, <1>10, StandsAtIs
<1> QED
  BY <1>5, <1>11 DEF Stands

\* A cell is taken out that was given.
LEMMA StandsRemoved ==
  ASSUME NEW s \in Seq(Cell), Distinct(s), NEW t, NEW g, NEW k, Stands(s, t, g, k),
         NEW p \in 1 .. Len(s), s[p] \in g
  PROVE  Stands(RemoveAt(s, p), t, g \ {s[p]}, k \ {s[p]})
<1>1. Len(s) \in Nat /\ p \in Nat
  BY SeqIs
<1>2. PICK q \in 1 .. Len(s) + 1 : StandsAt(q, s, t, g, k)
  BY DEF Stands
<1>3. /\ t = IF q = Len(s) + 1 THEN NULL ELSE s[q]
      /\ g \subseteq ToSet(s) /\ k \subseteq ToSet(s)
      /\ \A i \in 1 .. Len(s) : s[i] \in g => i < q
      /\ \A i \in 1 .. Len(s) : s[i] \in k /\ i < q => s[i] \in g
  BY <1>2, StandsAtIs
<1>4. p < q /\ q \in Nat
  BY <1>1, <1>3
<1>5. PICK r : r = RemoveAt(s, p)
  OBVIOUS
<1>6. /\ r \in Seq(Cell) /\ Len(r) = Len(s) - 1 /\ ToSet(r) = ToSet(s) \ {s[p]}
      /\ \A i \in 1 .. p - 1 : r[i] = s[i]
      /\ \A i \in p .. Len(s) - 1 : r[i] = s[i + 1]
  <2>1. r \in Seq(Cell) /\ Len(r) = Len(s) - 1 /\ ToSet(r) = ToSet(s) \ {s[p]}
    BY <1>5, RemovedIs
  <2>2. \A i \in 1 .. p - 1 : r[i] = s[i]
    BY <1>5, RemoveAtProperties
  <2>3. \A i \in p .. Len(s) - 1 : r[i] = s[i + 1]
    BY <1>5, RemoveAtProperties
  <2> QED
    BY <2>1, <2>2, <2>3
<1>7. PICK u \in 1 .. Len(r) + 1 : u = q - 1
  BY <1>1, <1>4, <1>6
<1>8. t = IF u = Len(r) + 1 THEN NULL ELSE r[u]
  <2>1. CASE q = Len(s) + 1
    <3>1. u = Len(r) + 1
      BY <1>1, <1>4, <1>6, <1>7, <2>1
    <3> QED
      BY <1>3, <2>1, <3>1
  <2>2. CASE q # Len(s) + 1
    <3>1. u \in p .. Len(s) - 1 /\ u + 1 = q /\ u # Len(r) + 1
      BY <1>1, <1>4, <1>6, <1>7, <2>2
    <3> QED
      BY <1>3, <1>6, <2>2, <3>1
  <2> QED
    BY <2>1, <2>2
<1>9. ASSUME NEW i \in 1 .. Len(r)
      PROVE  \E j \in 1 .. Len(s) : r[i] = s[j] /\ (j < q <=> i < u)
  <2>1. CASE i < p
    <3>1. i \in 1 .. p - 1 /\ i \in 1 .. Len(s) /\ i < q /\ i < u
      BY <1>1, <1>4, <1>7, <2>1
    <3> QED
      BY <1>6, <3>1
  <2>2. CASE ~(i < p)
    <3>1. i \in p .. Len(s) - 1 /\ i + 1 \in 1 .. Len(s) /\ (i + 1 < q <=> i < u)
      BY <1>1, <1>4, <1>6, <1>7, <2>2
    <3> QED
      BY <1>6, <3>1
  <2> QED
    BY <2>1, <2>2
<1>10. \A i \in 1 .. Len(r) : r[i] \in ToSet(r)
  BY <1>6, SeqIs
<1>11. \A i \in 1 .. Len(r) : r[i] \in g \ {s[p]} => i < u
  BY <1>3, <1>9
<1>12. \A i \in 1 .. Len(r) : r[i] \in k \ {s[p]} /\ i < u => r[i] \in g \ {s[p]}
  BY <1>3, <1>6, <1>9, <1>10
<1>13. g \ {s[p]} \subseteq ToSet(r) /\ k \ {s[p]} \subseteq ToSet(r)
  BY <1>3, <1>6
<1>14. StandsAt(u, r, t, g \ {s[p]}, k \ {s[p]})
  <2>1. DOMAIN r = 1 .. Len(r)
    BY <1>6, SeqIs
  <2> QED
    BY <1>8, <1>11, <1>12, <1>13, <2>1 DEF StandsAt
<1> QED
  BY <1>5, <1>7, <1>14 DEF Stands

\* A cell is put in.
LEMMA StandsInserted ==
  ASSUME NEW s \in Seq(Cell), Distinct(s), NEW t, NEW g, NEW k, Stands(s, t, g, k),
         NEW p \in 1 .. Len(s) + 1, NEW c \in Cell, c \notin ToSet(s)
  PROVE  Stands(InsertAt(s, p, c), t, g, k)
<1>1. Len(s) \in Nat /\ p \in Nat
  BY SeqIs
<1>2. PICK q \in 1 .. Len(s) + 1 : StandsAt(q, s, t, g, k)
  BY DEF Stands
<1>3. /\ t = IF q = Len(s) + 1 THEN NULL ELSE s[q]
      /\ g \subseteq ToSet(s) /\ k \subseteq ToSet(s)
      /\ \A i \in 1 .. Len(s) : s[i] \in g => i < q
      /\ \A i \in 1 .. Len(s) : s[i] \in k /\ i < q => s[i] \in g
  BY <1>2, StandsAtIs
<1>4. PICK r : r = InsertAt(s, p, c)
  OBVIOUS
<1>5. /\ r \in Seq(Cell) /\ Len(r) = Len(s) + 1 /\ ToSet(r) = ToSet(s) \cup {c}
  BY <1>4, InsertedIs
<1>6. /\ r[p] = c
      /\ \A i \in 1 .. p - 1 : r[i] = s[i]
      /\ \A i \in p .. Len(s) : r[i + 1] = s[i]
  <2>1. r[p] = c
    BY <1>4, InsertAtProperties
  <2>2. ASSUME NEW i \in 1 .. p - 1 PROVE InsertAt(s, p, c)[i] = s[i]
    BY InsertAtProperties
  <2>3. \A i \in p .. Len(s) : InsertAt(s, p, c)[i + 1] = s[i]
    BY InsertAtProperties
  <2> QED
    BY <1>4, <2>1, <2>2, <2>3
<1>7. PICK u \in 1 .. Len(r) + 1 : u = IF p <= q THEN q + 1 ELSE q
  BY <1>1, <1>5
<1>8. t = IF u = Len(r) + 1 THEN NULL ELSE r[u]
  <2>1. CASE p <= q
    <3>1. u = q + 1
      BY <1>7, <2>1
    <3>2. CASE q = Len(s) + 1
      BY <1>3, <1>5, <3>1, <3>2
    <3>3. CASE q # Len(s) + 1
      <4>1. q \in p .. Len(s) /\ u # Len(r) + 1
        BY <1>1, <1>5, <2>1, <3>1, <3>3
      <4> QED
        BY <1>3, <1>6, <3>1, <3>3, <4>1
    <3> QED
      BY <3>2, <3>3
  <2>2. CASE ~(p <= q)
    <3>1. u = q /\ q \in 1 .. p - 1 /\ q # Len(s) + 1 /\ u # Len(r) + 1
      BY <1>1, <1>5, <1>7, <2>2
    <3> QED
      BY <1>3, <1>6, <3>1
  <2> QED
    BY <2>1, <2>2
<1>9. ASSUME NEW i \in 1 .. Len(r), i # p
      PROVE  \E j \in 1 .. Len(s) : r[i] = s[j] /\ (j < q <=> i < u)
  <2>1. i \in Nat /\ u \in Nat /\ q \in Nat
    BY <1>1, <1>5, <1>7
  <2>2. CASE i < p
    <3>1. i \in 1 .. p - 1 /\ i \in 1 .. Len(s)
      BY <1>1, <2>1, <2>2
    <3>2. i < q <=> i < u
      BY <1>1, <1>7, <2>1, <2>2
    <3> QED
      BY <1>6, <3>1, <3>2
  <2>3. CASE ~(i < p)
    <3>1. i - 1 \in p .. Len(s) /\ i - 1 \in 1 .. Len(s) /\ (i - 1) + 1 = i /\ p < i
      BY <1>1, <1>5, <1>9, <2>1, <2>3
    <3>2. i - 1 < q <=> i < u
      BY <1>1, <1>7, <2>1, <3>1
    <3> QED
      BY <1>6, <3>1, <3>2
  <2> QED
    BY <2>2, <2>3
<1>10. c \notin g /\ c \notin k
  BY <1>3
<1>11. \A i \in 1 .. Len(r) : r[i] \in g => i < u
  BY <1>3, <1>6, <1>9, <1>10
<1>12. \A i \in 1 .. Len(r) : r[i] \in k /\ i < u => r[i] \in g
  BY <1>3, <1>6, <1>9, <1>10
<1>13. g \subseteq ToSet(r) /\ k \subseteq ToSet(r)
  BY <1>3, <1>5
<1>14. StandsAt(u, r, t, g, k)
  BY <1>5, <1>8, <1>11, <1>12, <1>13, StandsAtIs
<1> QED
  BY <1>4, <1>7, <1>14 DEF Stands

-----------------------------------------------------------------------------
(* What the steps leave.                                                   *)

\* Memory after cells were freed and, maybe, one was made.
LEMMA AllocateIs ==
  ASSUME TypeOK, OneAllocator, memfuncs' = memfuncs, NEW gone, gone \subseteq live,
         NEW c \in Pointer, NEW x, c # NULL => x \in Item, Allocate(c, x, gone)
  PROVE  /\ live' = (live \ gone) \cup ({c} \ {NULL}) /\ live' \subseteq Cell
         /\ data' \in [Cell -> Item \cup {NULL}] /\ maker' \in [Cell -> Table \cup {NULL}]
         /\ \A d \in Cell \ live' : data'[d] = NULL /\ maker'[d] = NULL
         /\ \A d \in live' : data'[d] # NULL /\ maker'[d] # NULL
         /\ OneAllocator'
<1>1. /\ live' = (live \ gone) \cup ({c} \ {NULL})
      /\ maker' = [d \in Cell |-> IF d = c THEN memfuncs
                                  ELSE IF d \in gone THEN NULL ELSE maker[d]]
      /\ data' = [d \in Cell |-> IF d = c THEN x ELSE IF d \in gone THEN NULL ELSE data[d]]
  BY DEF Allocate
<1>2. /\ memfuncs \in Table /\ live \subseteq Cell
      /\ data \in [Cell -> Item \cup {NULL}] /\ maker \in [Cell -> Table \cup {NULL}]
      /\ \A d \in Cell \ live : data[d] = NULL /\ maker[d] = NULL
      /\ \A d \in live : data[d] # NULL /\ maker[d] # NULL
  BY DEF TypeOK
<1>3. live' \subseteq Cell
  BY <1>1, <1>2 DEF Pointer
<1>4. \A d \in Cell : data'[d] = IF d = c THEN x ELSE IF d \in gone THEN NULL ELSE data[d]
  BY <1>1
<1>5. \A d \in Cell :
         maker'[d] = IF d = c THEN memfuncs ELSE IF d \in gone THEN NULL ELSE maker[d]
  BY <1>1
<1>6. data' \in [Cell -> Item \cup {NULL}]
  <2>1. \A d \in Cell : data[d] \in Item \cup {NULL}
    BY <1>2
  <2>2. \A d \in Cell :
           (IF d = c THEN x ELSE IF d \in gone THEN NULL ELSE data[d]) \in Item \cup {NULL}
    BY <2>1, NoNull
  <2> QED
    BY <1>1, <2>2
<1>7. maker' \in [Cell -> Table \cup {NULL}]
  <2>1. \A d \in Cell : maker[d] \in Table \cup {NULL}
    BY <1>2
  <2>2. \A d \in Cell : (IF d = c THEN memfuncs ELSE IF d \in gone THEN NULL ELSE maker[d])
                           \in Table \cup {NULL}
    BY <1>2, <2>1
  <2> QED
    BY <1>1, <2>2
<1>8. ASSUME NEW d \in Cell \ live' PROVE data'[d] = NULL /\ maker'[d] = NULL
  <2>1. d # c /\ (d \in gone \/ d \in Cell \ live)
    BY <1>1, <1>8, NoNull
  <2> QED
    BY <1>2, <1>4, <1>5, <2>1
<1>9. ASSUME NEW d \in live'
      PROVE  data'[d] # NULL /\ maker'[d] # NULL /\ maker'[d] = memfuncs'
  <2>1. d \in Cell /\ (d = c \/ d \in live \ gone)
    BY <1>1, <1>3, <1>9
  <2>2. CASE d = c
    BY <1>2, <1>4, <1>5, <2>1, <2>2, NoNull
  <2>3. CASE d # c /\ d \in live \ gone
    <3>1. maker[d] = memfuncs
      BY <2>3 DEF OneAllocator
    <3> QED
      BY <1>2, <1>4, <1>5, <2>1, <2>3, <3>1
  <2> QED
    BY <2>1, <2>2, <2>3
<1> QED
  BY <1>1, <1>3, <1>6, <1>7, <1>8, <1>9 DEF OneAllocator

\* A loop after nothing was taken out, or one cell.
LEMMA LoopWithoutIs ==
  ASSUME TypeOK, Iterating, Distinct(order), NEW gone, NEW r,
         \/ gone = {} /\ r = order
         \/ \E p \in 1 .. Len(order) : gone = {order[p]} /\ r = RemoveAt(order, p),
         LoopWithout(gone)
  PROVE  /\ looping' = looping /\ it' = it /\ turned' = turned /\ broken' \in BOOLEAN
         /\ given' \subseteq Cell /\ kept' \subseteq Cell
         /\ ~looping => given' = {} /\ kept' = {} /\ ~broken'
         /\ looping /\ ~broken' => it \in ToSet(r) \cup {NULL}
         /\ looping /\ ~broken' /\ ~turned => Stands(r, it, given', kept')
<1>1. /\ given' = given \ gone /\ kept' = kept \ gone
      /\ broken' = (broken \/ Breaks(gone))
      /\ looping' = looping /\ it' = it /\ turned' = turned
  BY DEF LoopWithout
<1>2. given \subseteq Cell /\ kept \subseteq Cell /\ order \in Seq(Cell)
  BY DEF TypeOK
<1>3. /\ ~looping => it = NULL /\ given = {} /\ kept = {} /\ ~turned /\ ~broken
      /\ looping /\ ~broken => it \in ToSet(order) \cup {NULL}
      /\ looping /\ ~broken /\ ~turned => Stands(order, it, given, kept)
  BY DEF Iterating
<1>4. broken' \in BOOLEAN
  BY <1>1, Zenon
<1>5. ~looping => given' = {} /\ kept' = {} /\ ~broken'
  BY <1>1, <1>3 DEF Breaks
<1>6. CASE gone = {} /\ r = order
  <2>1. given' = given /\ kept' = kept
    BY <1>1, <1>6
  <2>2. ~broken' => ~broken
    BY <1>1
  <2> QED
    BY <1>1, <1>2, <1>3, <1>4, <1>5, <1>6, <2>1, <2>2
<1>7. ASSUME NEW p \in 1 .. Len(order), gone = {order[p]}, r = RemoveAt(order, p),
             looping, ~broken'
      PROVE  ~turned /\ Stands(r, it, given', kept') /\ it \in ToSet(r) \cup {NULL}
  <2>1. ~broken /\ ~turned /\ order[p] \in given
    BY <1>1, <1>7 DEF Breaks
  <2>2. Stands(RemoveAt(order, p), it, given \ {order[p]}, kept \ {order[p]})
    BY <1>2, <1>3, <1>7, <2>1, StandsRemoved
  <2>3. Stands(r, it, given', kept')
    BY <1>1, <1>7, <2>2
  <2>4. r \in Seq(Cell)
    BY <1>2, <1>7, RemovedIs
  <2> QED
    BY <2>1, <2>3, <2>4, StandsOn
<1>8. given' \subseteq Cell /\ kept' \subseteq Cell
  BY <1>1, <1>2
<1> QED
  BY <1>1, <1>4, <1>5, <1>6, <1>7, <1>8

\* The invariant where no loop of list.c is in progress.
LEMMA IdleIs ==
  ASSUME CellInv, Idle
  PROVE  /\ TypeOK /\ OneAllocator /\ Iterating /\ Distinct(order) /\ order \in Seq(Cell)
         /\ Links(items, next, order) /\ live = ToSet(order)
         /\ kind = "none" => order = <<>> /\ items = NULL
         /\ \A b \in Cell \ live : next[b] = NULL /\ data[b] = NULL
         /\ items \in Pointer /\ next \in [Cell -> Pointer]
  BY DEF CellInv, InOrder, Idle, TypeOK

\* No loop loses its place when nothing is taken out.
LEMMA NothingTaken ==
  ASSUME TypeOK, UNCHANGED loop
  PROVE  LoopWithout({})
<1>1. /\ looping' = looping /\ it' = it /\ given' = given /\ kept' = kept
      /\ turned' = turned /\ broken' = broken
  BY DEF loop
<1>2. broken \in BOOLEAN /\ ~Breaks({})
  BY DEF TypeOK, Breaks
<1>3. broken' = (broken \/ Breaks({}))
  BY <1>1, <1>2, Zenon
<1> QED
  BY <1>1, <1>3 DEF LoopWithout

\* A change of the cells that leaves them linked: some are freed, and the rest is r;
\* one may be made.
LEMMA CellsChanged ==
  ASSUME CellInv, Idle, kind # "none", memfuncs' = memfuncs, kind' = kind, UNCHANGED locals,
         NEW gone, gone \subseteq ToSet(order), NEW c \in Pointer, NEW x,
         c # NULL => x \in Item, Allocate(c, x, gone), LoopWithout(gone),
         NEW r \in Seq(Cell), Distinct(r), ToSet(r) = ToSet(order) \ gone,
         \/ gone = {} /\ r = order
         \/ \E p \in 1 .. Len(order) : gone = {order[p]} /\ r = RemoveAt(order, p),
         c = NULL => order' = r,
         c # NULL => \E p \in 1 .. Len(r) + 1 : order' = InsertAt(r, p, c),
         Links(items', next', order'), items' \in Pointer, next' \in [Cell -> Pointer],
         \A b \in gone : b # c => next'[b] = NULL,
         \A b \in Cell : b \notin ToSet(order) /\ b # c => next'[b] = next[b]
  PROVE  CellInv'
<1>1. /\ TypeOK /\ OneAllocator /\ Iterating /\ Distinct(order) /\ order \in Seq(Cell)
      /\ live = ToSet(order) /\ \A b \in Cell \ live : next[b] = NULL
  BY IdleIs
<1>2. pc' = "idle" /\ last' = last /\ cell' = cell
  BY DEF locals, Idle
<1>3. /\ live' = (live \ gone) \cup ({c} \ {NULL}) /\ live' \subseteq Cell
      /\ data' \in [Cell -> Item \cup {NULL}] /\ maker' \in [Cell -> Table \cup {NULL}]
      /\ \A d \in Cell \ live' : data'[d] = NULL /\ maker'[d] = NULL
      /\ \A d \in live' : data'[d] # NULL /\ maker'[d] # NULL
      /\ OneAllocator'
  BY <1>1, AllocateIs
<1>4. /\ looping' = looping /\ it' = it /\ turned' = turned /\ broken' \in BOOLEAN
      /\ given' \subseteq Cell /\ kept' \subseteq Cell
      /\ ~looping => given' = {} /\ kept' = {} /\ ~broken'
      /\ looping /\ ~broken' => it \in ToSet(r) \cup {NULL}
      /\ looping /\ ~broken' /\ ~turned => Stands(r, it, given', kept')
  BY <1>1, LoopWithoutIs
<1>5. c # NULL => c \in Cell /\ c \notin ToSet(r)
  BY <1>1 DEF Pointer, Allocate
<1>6. /\ order' \in Seq(Cell) /\ Distinct(order') /\ ToSet(order') = ToSet(r) \cup ({c} \ {NULL})
      /\ looping /\ ~broken' /\ ~turned => Stands(order', it, given', kept')
  <2>1. CASE c = NULL
    BY <1>4, <2>1
  <2>2. CASE c # NULL
    <3>1. PICK p \in 1 .. Len(r) + 1 : order' = InsertAt(r, p, c)
      BY <2>2
    <3>2. order' \in Seq(Cell) /\ Distinct(order') /\ ToSet(order') = ToSet(r) \cup {c}
      BY <1>5, <2>2, <3>1, InsertedIs
    <3>3. ASSUME looping, ~broken', ~turned PROVE Stands(order', it, given', kept')
      <4>1. Stands(r, it, given', kept')
        BY <1>4, <3>3
      <4>2. Stands(InsertAt(r, p, c), it, given', kept')
        BY <1>5, <2>2, <4>1, StandsInserted
      <4> QED
        BY <3>1, <4>2
    <3> QED
      BY <2>2, <3>2, <3>3
  <2> QED
    BY <2>1, <2>2
<1>7. \A b \in Cell \ live' : next'[b] = NULL
  <2>1. ASSUME NEW b \in Cell \ live' PROVE next'[b] = NULL
    <3>1. b # c /\ (b \in gone \/ b \in Cell \ live)
      BY <1>3, <2>1, NoNull
    <3> QED
      BY <1>1, <3>1
  <2> QED
    BY <2>1
<1>8. TypeOK'
  <2>1. /\ memfuncs' \in Table /\ kind' \in {"none", "list", "compound"}
        /\ last' \in Pointer /\ cell' \in Pointer /\ it' \in Pointer
        /\ looping' \in BOOLEAN /\ turned' \in BOOLEAN
    BY <1>1, <1>2, <1>4 DEF TypeOK
  <2> QED
    BY <1>2, <1>3, <1>4, <1>6, <1>7, <2>1 DEF TypeOK
<1>9. InOrder'
  <2>1. live' = ToSet(order')
    BY <1>1, <1>3, <1>6
  <2> QED
    BY <1>2, <1>6, <2>1 DEF InOrder
<1>10. Iterating'
  <2>1. ~looping => it = NULL /\ ~turned
    BY <1>1 DEF Iterating
  <2> QED
    BY <1>2, <1>4, <1>6, <2>1 DEF Iterating
<1>11. NoStaleRead'
  BY <1>2 DEF NoStaleRead
<1> QED
  BY <1>3, <1>8, <1>9, <1>10, <1>11 DEF CellInv

\* rs_tag_list_insert keeps the cells linked.
LEMMA ListInsertKeepsInv ==
  ASSUME CellInv, NEW i \in 0 .. Cardinality(Cell), NEW x \in Tag, NEW c \in Cell,
         ListInsert(i, x, c)
  PROVE  CellInv'
<1>1. /\ Idle /\ kind = "list" /\ (i = 0 \/ Size > 0) /\ Allocate(c, x, {})
      /\ memfuncs' = memfuncs /\ kind' = kind /\ UNCHANGED locals /\ UNCHANGED loop
  BY DEF ListInsert, NewCell
<1>2. /\ TypeOK /\ Distinct(order) /\ order \in Seq(Cell) /\ Links(items, next, order)
      /\ live = ToSet(order)
  BY <1>1, IdleIs
<1>3. PICK m : m = With(i, c) /\ items' = m.items /\ next' = m.next
  BY DEF ListInsert, Point
<1>4. PICK p : /\ p = IF i < Len(order) THEN i + 1 ELSE Len(order) + 1
               /\ order' = InsertAt(order, p, c)
  BY DEF ListInsert
<1>5. c \notin ToSet(order) /\ i \in Nat /\ x \in Item /\ c \in Pointer /\ c # NULL
  BY <1>1, <1>2, NoNull DEF Allocate, Pointer
<1>6. /\ p \in 1 .. Len(order) + 1
      /\ Links(m.items, m.next, InsertAt(order, p, c))
      /\ m.items \in Pointer /\ m.next \in [Cell -> Pointer]
      /\ \A b \in Cell : b \notin ToSet(order) /\ b # c => m.next[b] = next[b]
  BY <1>1, <1>2, <1>3, <1>4, <1>5, WithIs
<1>7. LoopWithout({})
  BY <1>1, <1>2, NothingTaken
<1>8. Links(items', next', order')
  BY <1>3, <1>4, <1>6
<1> QED
  BY <1>1, <1>2, <1>3, <1>4, <1>5, <1>6, <1>7, <1>8, CellsChanged

\* The cell at place p is taken out and freed.
LEMMA CellTaken ==
  ASSUME CellInv, Idle, kind # "none", memfuncs' = memfuncs, kind' = kind, UNCHANGED locals,
         NEW p \in 1 .. Len(order), Point(Without(order[p])), Allocate(NULL, NULL, {order[p]}),
         order' = RemoveAt(order, p), LoopWithout({order[p]})
  PROVE  CellInv'
<1>1. /\ TypeOK /\ Distinct(order) /\ order \in Seq(Cell) /\ Links(items, next, order)
  BY IdleIs
<1>2. PICK m : m = Without(order[p]) /\ items' = m.items /\ next' = m.next
  BY DEF Point
<1>3. PICK r : r = RemoveAt(order, p)
  OBVIOUS
<1>4. /\ Links(m.items, m.next, RemoveAt(order, p))
      /\ m.items \in Pointer /\ m.next \in [Cell -> Pointer]
      /\ m.next[order[p]] = NULL
      /\ \A b \in Cell : b \notin ToSet(order) => m.next[b] = next[b]
  BY <1>1, <1>2, WithoutIs
<1>5. r \in Seq(Cell) /\ Distinct(r) /\ ToSet(r) = ToSet(order) \ {order[p]}
  BY <1>1, <1>3, RemovedIs
<1>6. {order[p]} \subseteq ToSet(order) /\ NULL \in Pointer
  BY <1>1, SeqIs DEF Pointer
<1>7. Links(items', next', order')
  BY <1>2, <1>3, <1>4
<1>8. \A b \in {order[p]} : next'[b] = NULL
  BY <1>2, <1>4
<1>9. \E q \in 1 .. Len(order) : {order[p]} = {order[q]} /\ r = RemoveAt(order, q)
  BY <1>3
<1> QED
  BY <1>2, <1>3, <1>4, <1>5, <1>6, <1>7, <1>8, <1>9, CellsChanged

\* rs_tag_list_delete keeps them linked, and frees the one it takes out.
LEMMA ListDeleteKeepsInv ==
  ASSUME CellInv, NEW i \in 0 .. Cardinality(Cell), ListDelete(i)
  PROVE  CellInv'
<1>1. /\ Idle /\ kind = "list" /\ Nth[i] # NULL /\ Point(Without(Nth[i]))
      /\ Allocate(NULL, NULL, {Nth[i]}) /\ order' = RemoveAt(order, i + 1)
      /\ LoopWithout({Nth[i]}) /\ memfuncs' = memfuncs /\ kind' = kind /\ UNCHANGED locals
  BY DEF ListDelete, FreeCell
<1>2. order \in Seq(Cell) /\ Links(items, next, order)
  BY <1>1, IdleIs
<1>3. i < Len(order) /\ Nth[i] = order[i + 1] /\ i \in Nat
  BY <1>1, <1>2, NthIs
<1>4. i + 1 \in 1 .. Len(order)
  BY <1>2, <1>3
<1>5. PICK p \in 1 .. Len(order) : p = i + 1
  BY <1>4
<1> QED
  BY <1>1, <1>3, <1>5, CellTaken

\* So does rs_tag_compound_delete.
LEMMA CompoundDeleteKeepsInv ==
  ASSUME CellInv, NEW x \in Key, CompoundDelete(x)
  PROVE  CellInv'
<1>1. /\ Idle /\ kind = "compound" /\ Keyed(x) # {} /\ Point(PointersWithout(x))
      /\ Allocate(NULL, NULL, Keyed(x)) /\ order' = Rest(x)
      /\ LoopWithout(Keyed(x)) /\ memfuncs' = memfuncs /\ kind' = kind /\ UNCHANGED locals
  BY DEF CompoundDelete
<1>2. order \in Seq(Cell) /\ Distinct(order) /\ Links(items, next, order)
  BY <1>1, IdleIs
<1>3. PICK p \in 1 .. Len(order) :
         /\ Keyed(x) = {order[p]} /\ Rest(x) = RemoveAt(order, p)
         /\ PointersWithout(x) = Without(order[p])
  BY <1>1, <1>2, KeyedIs
<1> QED
  BY <1>1, <1>3, CellTaken

\* rs_tag_compound_set frees the old cell of the key and pushes the new one.
LEMMA CompoundSetKeepsInv ==
  ASSUME CellInv, NEW x \in Key, NEW c \in Cell, CompoundSet(x, c)
  PROVE  CellInv'
<1>1. /\ Idle /\ kind = "compound" /\ Allocate(c, x, Keyed(x)) /\ order' = <<c>> \o Rest(x)
      /\ LoopWithout(Keyed(x)) /\ memfuncs' = memfuncs /\ kind' = kind /\ UNCHANGED locals
  BY DEF CompoundSet
<1>2. /\ TypeOK /\ order \in Seq(Cell) /\ Distinct(order) /\ Links(items, next, order)
      /\ live = ToSet(order)
  BY <1>1, IdleIs
<1>3. PICK m : m = PointersWithout(x)
  OBVIOUS
<1>4. items' = c /\ next' = [m.next EXCEPT ![c] = m.items]
  BY <1>3 DEF CompoundSet, Point
<1>5. PICK r : r = Rest(x)
  OBVIOUS
<1>6. /\ r \in Seq(Cell) /\ Distinct(r) /\ Links(m.items, m.next, r)
      /\ Keyed(x) \subseteq ToSet(order) /\ ToSet(r) = ToSet(order) \ Keyed(x)
      /\ m.items \in Pointer /\ m.next \in [Cell -> Pointer]
      /\ \A b \in Keyed(x) : m.next[b] = NULL
      /\ \A b \in Cell : b \notin ToSet(order) => m.next[b] = next[b]
  BY <1>2, <1>3, <1>5, KeyTaken
<1>7. \/ Keyed(x) = {} /\ r = order
      \/ \E p \in 1 .. Len(order) : Keyed(x) = {order[p]} /\ r = RemoveAt(order, p)
  BY <1>2, <1>5, KeyedIs
<1>8. c \notin ToSet(r) /\ c \in Pointer /\ c # NULL /\ x \in Item
  BY <1>1, <1>2, <1>6, NoNull DEF Allocate, Pointer
<1>9. order' = InsertAt(r, 1, c) /\ 1 \in 1 .. Len(r) + 1
  BY <1>1, <1>5, <1>6, PushIs, SeqIs
<1>10. Links(c, [m.next EXCEPT ![c] = m.items], InsertAt(r, 1, c))
  BY <1>6, <1>8, LinksPush
<1>11. Links(items', next', order')
  BY <1>4, <1>9, <1>10
<1>12. next' \in [Cell -> Pointer] /\ items' \in Pointer
  BY <1>4, <1>6, <1>8
<1>13. \A b \in Cell : b # c => next'[b] = m.next[b]
  BY <1>4, <1>6
<1>14. /\ \A b \in Keyed(x) : b # c => next'[b] = NULL
       /\ \A b \in Cell : b \notin ToSet(order) /\ b # c => next'[b] = next[b]
  BY <1>2, <1>6, <1>13, SeqIs
<1>15. \E p \in 1 .. Len(r) + 1 : order' = InsertAt(r, p, c)
  BY <1>9
<1> QED
  BY <1>1, <1>6, <1>7, <1>8, <1>11, <1>12, <1>14, <1>15, CellsChanged

\* A client replaces the table while no cell is allocated.
LEMMA SetMemoryFunctionsKeepsInv ==
  ASSUME CellInv, NEW t \in Table, SetMemoryFunctions(t)
  PROVE  CellInv'
<1>1. /\ Idle /\ kind = "none" /\ memfuncs' = t
      /\ UNCHANGED <<kind, items, next, data, live, maker, pc, last, cell, order,
                     looping, it, given, kept, turned, broken>>
  BY DEF SetMemoryFunctions, memory, locals, loop
<1>2. TypeOK /\ InOrder /\ Iterating /\ NoStaleRead
  BY DEF CellInv
<1>3. live = {}
  <2>1. live = ToSet(order) /\ order = <<>>
    BY <1>1, IdleIs
  <2> QED
    BY <2>1 DEF ToSet
<1>4. TypeOK'
  BY <1>1, <1>2 DEF TypeOK
<1>5. InOrder'
  BY <1>1, <1>2 DEF InOrder, HalfTurned
<1>6. OneAllocator'
  BY <1>1, <1>3 DEF OneAllocator
<1>7. Iterating'
  BY <1>1, <1>2 DEF Iterating
<1>8. NoStaleRead'
  BY <1>1, <1>2 DEF NoStaleRead
<1> QED
  BY <1>4, <1>5, <1>6, <1>7, <1>8 DEF CellInv

\* A new container is empty.
LEMMA NewKeepsInv ==
  ASSUME CellInv, NEW k \in {"list", "compound"}, New(k)
  PROVE  CellInv'
<1>1. /\ Idle /\ kind = "none" /\ kind' = k
      /\ UNCHANGED <<memfuncs, items, next, data, live, maker, pc, last, cell, order,
                     looping, it, given, kept, turned, broken>>
  BY DEF New, memory, locals, loop
<1>2. TypeOK /\ InOrder /\ OneAllocator /\ Iterating /\ NoStaleRead
  BY DEF CellInv
<1>3. TypeOK'
  BY <1>1, <1>2 DEF TypeOK
<1>4. InOrder'
  BY <1>1, <1>2 DEF InOrder, Idle
<1>5. OneAllocator'
  BY <1>1, <1>2 DEF OneAllocator
<1>6. Iterating'
  BY <1>1, <1>2 DEF Iterating
<1>7. NoStaleRead'
  BY <1>1, <1>2 DEF NoStaleRead
<1> QED
  BY <1>3, <1>4, <1>5, <1>6, <1>7 DEF CellInv

\* The other way round, with ranges for DOMAINs.
LEMMA ReverseIs ==
  ASSUME NEW S, NEW s \in Seq(S), NEW r, r = Reverse(s)
  PROVE  /\ r \in Seq(S) /\ Len(r) = Len(s) /\ ToSet(r) = ToSet(s)
         /\ \A i \in 1 .. Len(s) : Len(s) - i + 1 \in 1 .. Len(s) /\ r[i] = s[Len(s) - i + 1]
         /\ Distinct(s) => Distinct(r)
<1>1. Len(s) \in Nat /\ DOMAIN s = 1 .. Len(s)
  BY SeqIs
<1>2. r = [i \in 1 .. Len(s) |-> s[Len(s) - i + 1]]
  BY DEF Reverse
<1>3. \A i \in 1 .. Len(s) : Len(s) - i + 1 \in 1 .. Len(s)
  BY <1>1
<1>4. \A i \in 1 .. Len(s) : r[i] = s[Len(s) - i + 1]
  BY <1>2
<1>5. r \in Seq(S) /\ Len(r) = Len(s)
  <2>1. \A i \in 1 .. Len(s) : s[i] \in S
    BY SeqIs
  <2>2. r \in [1 .. Len(s) -> S]
    BY <1>2, <1>3, <2>1
  <2> QED
    BY <1>1, <2>2
<1>6. DOMAIN r = 1 .. Len(s)
  BY <1>2
<1>7. ToSet(r) = ToSet(s)
  <2>1. ASSUME NEW y \in ToSet(r) PROVE y \in ToSet(s)
    <3>1. PICK i \in 1 .. Len(s) : r[i] = y
      BY <1>5, SeqIs
    <3> QED
      BY <1>3, <1>4, <3>1, SeqIs
  <2>2. ASSUME NEW y \in ToSet(s) PROVE y \in ToSet(r)
    <3>1. PICK i \in 1 .. Len(s) : s[i] = y
      BY SeqIs
    <3>2. PICK j \in 1 .. Len(s) : j = Len(s) - i + 1
      BY <1>3
    <3>3. Len(s) - j + 1 = i
      BY <1>1, <3>2
    <3>4. r[j] = y
      BY <1>4, <3>1, <3>3
    <3> QED
      BY <1>5, <3>4, SeqIs
  <2> QED
    BY <2>1, <2>2
<1>8. ASSUME Distinct(s), NEW i \in 1 .. Len(s), NEW j \in 1 .. Len(s), r[i] = r[j]
      PROVE  i = j
  <2>1. s[Len(s) - i + 1] = s[Len(s) - j + 1]
    BY <1>4, <1>8
  <2>2. Len(s) - i + 1 = Len(s) - j + 1
    BY <1>1, <1>3, <1>8, <2>1 DEF Distinct
  <2> QED
    BY <1>1, <2>2
<1>9. Distinct(s) => Distinct(r)
  BY <1>6, <1>8 DEF Distinct
<1> QED
  BY <1>3, <1>4, <1>5, <1>7, <1>9

\* What HalfTurned says, one cell at a time.
LEMMA HalfTurnedIs ==
  ASSUME order \in Seq(Cell), NEW k \in 0 .. Len(order)
  PROVE  HalfTurned(k) <=>
            /\ k = 0 => last = NULL
            /\ k # 0 => last = order[k]
            /\ k = Len(order) => cell = NULL
            /\ k # Len(order) => cell = order[k + 1]
            /\ 1 <= k => next[order[1]] = NULL
            /\ \A i \in 1 .. Len(order) : i <= k /\ i # 1 => next[order[i]] = order[i - 1]
            /\ \A i \in 1 .. Len(order) : i > k /\ i # Len(order) => next[order[i]] = order[i + 1]
            /\ k < Len(order) => next[order[Len(order)]] = NULL
<1>1. Len(order) \in Nat /\ k \in Nat /\ DOMAIN order = 1 .. Len(order)
  BY SeqIs
<1>2. 1 <= k => 1 \in 1 .. Len(order)
  BY <1>1
<1>3. k < Len(order) => Len(order) \in 1 .. Len(order) /\ ~(Len(order) <= k)
  BY <1>1
<1>4. \A i \in 1 .. Len(order) : ~(i <= k) <=> i > k
  BY <1>1
<1> QED
  BY <1>1, <1>2, <1>3, <1>4 DEF HalfTurned

\* rs_list_reverse begins with nothing turned.
LEMMA ListReverseKeepsInv ==
  ASSUME CellInv, ListReverse
  PROVE  CellInv'
<1>1. /\ Idle /\ kind = "list" /\ pc' = "reverse" /\ last' = NULL /\ cell' = items
      /\ turned' = looping
      /\ UNCHANGED <<memfuncs, kind, items, next, data, live, maker, order,
                     looping, it, given, kept, broken>>
  BY DEF ListReverse, memory
<1>2. TypeOK /\ InOrder /\ OneAllocator /\ Iterating /\ NoStaleRead
  BY DEF CellInv
<1>3. order \in Seq(Cell) /\ Links(items, next, order) /\ items \in Pointer
  BY <1>1, IdleIs
<1>4. Len(order) \in Nat /\ DOMAIN order = 1 .. Len(order)
  BY <1>3, SeqIs
<1>5. TypeOK'
  <2>1. NULL \in Pointer /\ turned' \in BOOLEAN
    BY <1>1, <1>2 DEF Pointer, TypeOK
  <2> QED
    BY <1>1, <1>2, <1>3, <2>1 DEF TypeOK
<1>6. HalfTurned(0)'
  <2>1. cell' = IF 0 = Len(order) THEN NULL ELSE order[0 + 1]
    BY <1>1, <1>3, <1>4, SeqIs DEF Links
  <2>2. \A i \in DOMAIN order : ~(i <= 0)
    BY <1>4
  <2> QED
    BY <1>1, <1>3, <2>1, <2>2 DEF HalfTurned, Links
<1>7. InOrder'
  <2>1. \E k \in 0 .. Len(order') : HalfTurned(k)'
    BY <1>1, <1>4, <1>6
  <2> QED
    BY <1>1, <1>2, <2>1 DEF InOrder, Idle
<1>8. Iterating'
  BY <1>1, <1>2 DEF Iterating
<1>9. OneAllocator' /\ NoStaleRead'
  BY <1>1, <1>2 DEF OneAllocator, NoStaleRead
<1> QED
  BY <1>5, <1>7, <1>8, <1>9 DEF CellInv

\* A turn of its loop turns one cell more.
LEMMA ReverseCellKeepsInv ==
  ASSUME CellInv, ReverseCell
  PROVE  CellInv'
<1>1. /\ pc = "reverse" /\ cell # NULL /\ next' = [next EXCEPT ![cell] = last]
      /\ last' = cell /\ cell' = next[cell]
      /\ UNCHANGED <<memfuncs, kind, items, data, live, maker, pc, order,
                     looping, it, given, kept, turned, broken>>
  BY DEF ReverseCell, loop
<1>2. TypeOK /\ InOrder /\ OneAllocator /\ Iterating /\ NoStaleRead
  BY DEF CellInv
<1>3. /\ order \in Seq(Cell) /\ Distinct(order) /\ live = ToSet(order)
      /\ next \in [Cell -> Pointer] /\ cell \in Cell /\ last \in Pointer
  BY <1>1, <1>2 DEF TypeOK, InOrder, Pointer
<1>4. PICK k \in 0 .. Len(order) : HalfTurned(k)
  BY <1>1, <1>2 DEF InOrder
<1>5. Len(order) \in Nat /\ k \in Nat /\ DOMAIN order = 1 .. Len(order)
  BY <1>3, SeqIs
<1>6. k # Len(order) /\ cell = order[k + 1]
  BY <1>1, <1>3, <1>4, HalfTurnedIs
<1>7. PICK j \in 1 .. Len(order) : j = k + 1
  <2>1. k <= Len(order)
    OBVIOUS
  <2>2. k # Len(order)
    BY <1>6
  <2>3. Len(order) \in Nat /\ k \in Nat
    BY <1>5
  <2>4. k + 1 <= Len(order) /\ 1 <= k + 1
    BY <2>1, <2>2, <2>3
  <2>5. k + 1 \in Nat
    BY <2>3
  <2>6. k + 1 \in 1 .. Len(order)
    BY <2>3, <2>4, <2>5
  <2> QED
    BY <2>6
<1>8. j \in Nat /\ cell = order[j] /\ k = j - 1 /\ k < j
  <2>1. j \in Nat
    BY <1>5, <1>7
  <2>2. k = j - 1 /\ k < j
    BY <1>5, <1>7, <2>1
  <2> QED
    BY <1>6, <1>7, <2>1, <2>2
<1>9. \A i \in 1 .. Len(order) : i # j => next'[order[i]] = next[order[i]]
  BY <1>1, <1>3, <1>5, <1>8, SeqIs DEF Distinct
<1>10. next'[order[j]] = last
  BY <1>1, <1>3, <1>8
<1>11. HalfTurned(j)'
  <2>1. last' = order[j]
    BY <1>1, <1>8
  <2>2. cell' = IF j = Len(order) THEN NULL ELSE order[j + 1]
    <3>1. CASE j = Len(order)
      BY <1>1, <1>3, <1>4, <1>5, <1>8, <3>1, HalfTurnedIs
    <3>2. CASE j # Len(order)
      <4>1. j > k /\ j \in 1 .. Len(order)
        BY <1>5, <1>8
      <4>2. next[order[j]] = order[j + 1]
        BY <1>3, <1>4, <3>2, <4>1, HalfTurnedIs
      <4> QED
        BY <1>1, <1>8, <3>2, <4>2
    <3> QED
      BY <3>1, <3>2
  <2>3. ASSUME NEW i \in 1 .. Len(order)
        PROVE  next'[order[i]] = IF i <= j THEN IF i = 1 THEN NULL ELSE order[i - 1]
                                 ELSE IF i = Len(order) THEN NULL ELSE order[i + 1]
    <3>1. CASE i = j
      <4>1. last = IF j = 1 THEN NULL ELSE order[j - 1]
        BY <1>4, <1>5, <1>8 DEF HalfTurned
      <4>2. i <= j
        BY <1>8, <3>1
      <4> QED
        BY <1>10, <3>1, <4>1, <4>2
    <3>2. CASE i # j
      <4>1. next'[order[i]] = next[order[i]] /\ (i <= j <=> i <= k)
        BY <1>5, <1>8, <1>9, <3>2
      <4> QED
        BY <1>4, <1>5, <4>1 DEF HalfTurned
    <3> QED
      BY <3>1, <3>2
  <2>4. j # 0
    BY <1>7
  <2> QED
    BY <1>1, <1>5, <2>1, <2>2, <2>3, <2>4 DEF HalfTurned
<1>12. InOrder'
  <2>1. \E l \in 0 .. Len(order') : HalfTurned(l)'
    BY <1>1, <1>5, <1>8, <1>11
  <2> QED
    BY <1>1, <1>2, <2>1 DEF InOrder
<1>13. TypeOK'
  <2>1. next' \in [Cell -> Pointer] /\ cell' \in Pointer /\ last' \in Pointer
    BY <1>1, <1>3 DEF Pointer
  <2>2. \A b \in Cell \ live : next'[b] = next[b]
    BY <1>1, <1>3, <1>8, SeqIs
  <2> QED
    BY <1>1, <1>2, <2>1, <2>2 DEF TypeOK
<1>14. Iterating'
  BY <1>1, <1>2 DEF Iterating
<1>15. OneAllocator' /\ NoStaleRead'
  BY <1>1, <1>2 DEF OneAllocator, NoStaleRead
<1> QED
  BY <1>12, <1>13, <1>14, <1>15 DEF CellInv

\* The list hangs on `last', the other way round.
LEMMA TurnedLinks ==
  ASSUME order \in Seq(Cell), NEW k \in 0 .. Len(order), HalfTurned(k), cell = NULL
  PROVE  Links(last, next, Reverse(order))
<1>1. Len(order) \in Nat /\ k \in Nat
  BY SeqIs
<1>2. PICK r : r = Reverse(order)
  OBVIOUS
<1>3. /\ r \in Seq(Cell) /\ Len(r) = Len(order)
      /\ \A i \in 1 .. Len(order) :
            Len(order) - i + 1 \in 1 .. Len(order) /\ r[i] = order[Len(order) - i + 1]
  BY <1>2, ReverseIs
<1>4. k = Len(order)
  <2>1. k # Len(order) => k + 1 \in 1 .. Len(order)
    BY <1>1
  <2> QED
    BY <2>1, HalfTurnedIs, SeqIs, NoNull
<1>5. /\ Len(order) = 0 => last = NULL
      /\ Len(order) # 0 => last = order[Len(order)] /\ next[order[1]] = NULL
      /\ \A i \in 1 .. Len(order) : i # 1 => next[order[i]] = order[i - 1]
  BY <1>1, <1>4, HalfTurnedIs
<1>6. CASE Len(order) = 0
  <2>1. r = <<>> /\ last = NULL /\ Len(r) = 0
    BY <1>3, <1>5, <1>6, SeqIs
  <2>2. \A i \in 1 .. Len(r) : FALSE
    BY <2>1
  <2>3. Links(last, next, r)
    BY <1>3, <2>1, <2>2, LinksIs
  <2> QED
    BY <1>2, <2>3
<1>7. CASE Len(order) # 0
  <2>1. 1 \in 1 .. Len(order) /\ Len(order) - 1 + 1 = Len(order)
    BY <1>1, <1>7
  <2>2. Len(order) \in 1 .. Len(order) /\ Len(order) - Len(order) + 1 = 1
    BY <1>1, <1>7
  <2>3. r[1] = order[Len(order)] /\ r[Len(order)] = order[1]
    BY <1>3, <2>1, <2>2
  <2>4. r # <<>> /\ last = r[1] /\ next[r[Len(r)]] = NULL
    BY <1>3, <1>5, <1>7, <2>3, SeqIs
  <2>5. ASSUME NEW i \in 1 .. Len(r), i < Len(r) PROVE next[r[i]] = r[i + 1]
    <3>1. PICK j \in 1 .. Len(order) : j = Len(order) - i + 1
      BY <1>3
    <3>2. j # 1 /\ j - 1 = Len(order) - (i + 1) + 1 /\ i + 1 \in 1 .. Len(order)
      BY <1>1, <1>3, <2>5, <3>1
    <3>3. r[i] = order[j] /\ r[i + 1] = order[j - 1]
      BY <1>3, <3>1, <3>2
    <3> QED
      BY <1>5, <3>2, <3>3
  <2>6. Links(last, next, r)
    BY <1>3, <2>4, <2>5, LinksIs
  <2> QED
    BY <1>2, <2>6
<1> QED
  BY <1>6, <1>7

\* At its end the list is the other way round.
LEMMA ReversedKeepsInv ==
  ASSUME CellInv, Reversed
  PROVE  CellInv'
<1>1. /\ pc = "reverse" /\ cell = NULL /\ items' = last /\ pc' = "idle" /\ last' = NULL
      /\ order' = Reverse(order)
      /\ UNCHANGED <<memfuncs, kind, next, data, live, maker, cell,
                     looping, it, given, kept, turned, broken>>
  BY DEF Reversed, memory, loop
<1>2. TypeOK /\ InOrder /\ OneAllocator /\ Iterating /\ NoStaleRead
  BY DEF CellInv
<1>3. /\ order \in Seq(Cell) /\ Distinct(order) /\ live = ToSet(order) /\ last \in Pointer
  BY <1>1, <1>2 DEF TypeOK, InOrder
<1>4. PICK k \in 0 .. Len(order) : HalfTurned(k)
  BY <1>1, <1>2 DEF InOrder
<1>5. order' \in Seq(Cell) /\ Distinct(order') /\ ToSet(order') = ToSet(order)
  BY <1>1, <1>3, ReverseIs
<1>6. Links(last, next, Reverse(order))
  BY <1>1, <1>3, <1>4, TurnedLinks
<1>7. Links(items', next', order')
  BY <1>1, <1>6
<1>8. InOrder'
  BY <1>1, <1>2, <1>3, <1>5, <1>7 DEF InOrder
<1>9. TypeOK'
  <2>1. NULL \in Pointer
    BY DEF Pointer
  <2> QED
    BY <1>1, <1>2, <1>3, <1>5, <2>1 DEF TypeOK
<1>10. Iterating'
  BY <1>1, <1>2, <1>5 DEF Iterating
<1>11. OneAllocator' /\ NoStaleRead'
  BY <1>1, <1>2 DEF OneAllocator, NoStaleRead
<1> QED
  BY <1>8, <1>9, <1>10, <1>11 DEF CellInv

\* rs_tag_unref takes all cells out of the container.
LEMMA FreeContainerKeepsInv ==
  ASSUME CellInv, FreeContainer
  PROVE  CellInv'
<1>1. /\ Idle /\ kind' = "none" /\ items' = NULL /\ pc' = "free" /\ cell' = items
      /\ order' = <<>>
      /\ given' = given \ Linked /\ kept' = kept \ Linked
      /\ broken' = (broken \/ Breaks(Linked))
      /\ UNCHANGED <<memfuncs, next, data, live, maker, last, looping, it, turned>>
  BY DEF FreeContainer, LoopWithout, memory
<1>2. TypeOK /\ InOrder /\ OneAllocator /\ Iterating /\ NoStaleRead
  BY DEF CellInv
<1>3. /\ order \in Seq(Cell) /\ Distinct(order) /\ Links(items, next, order)
      /\ live = ToSet(order) /\ items \in Pointer /\ pc = "idle"
  BY <1>1, IdleIs DEF Idle
<1>4. Linked = ToSet(order)
  BY <1>3, SizeIs
<1>5. /\ order' \in Seq(Cell) /\ ToSet(<<>>) = {} /\ Distinct(<<>>)
  BY <1>1 DEF ToSet, Distinct
<1>6. broken' \in BOOLEAN
  BY <1>1, Zenon
<1>7. TypeOK'
  <2>1. given' \subseteq Cell /\ kept' \subseteq Cell /\ NULL \in Pointer
    BY <1>1, <1>2 DEF TypeOK, Pointer
  <2> QED
    BY <1>1, <1>2, <1>3, <1>5, <1>6, <2>1 DEF TypeOK
<1>8. InOrder'
  <2>1. Links(cell', next', order) /\ live' = ToSet(order)
    BY <1>1, <1>3
  <2> QED
    BY <1>1, <1>3, <1>5, <2>1 DEF InOrder
<1>9. ASSUME looping, ~broken' PROVE it = NULL \/ (it \in ToSet(order) /\ order # <<>> /\ turned)
  <2>1. ~broken /\ ~Breaks(Linked)
    BY <1>1, <1>9
  <2>2. it \in ToSet(order) \cup {NULL}
    BY <1>2, <1>9, <2>1 DEF Iterating
  <2>3. CASE turned
    BY <1>5, <2>2, <2>3
  <2>4. CASE ~turned
    <3>1. Stands(order, it, given, kept)
      BY <1>2, <1>9, <2>1, <2>4 DEF Iterating
    <3>2. it \notin given
      BY <1>3, <3>1, StandsOn
    <3>3. ToSet(order) = {} \/ ToSet(order) \subseteq given
      BY <1>4, <1>9, <2>1 DEF Breaks
    <3> QED
      BY <2>2, <3>2, <3>3
  <2> QED
    BY <2>3, <2>4
<1>10. ASSUME looping, ~broken' PROVE it = NULL
  <2>1. ~(looping /\ Linked # {} /\ turned)
    BY <1>1, <1>10 DEF Breaks
  <2> QED
    BY <1>4, <1>9, <1>10, <2>1
<1>11. ASSUME looping, ~broken', ~turned PROVE Stands(order', it', given', kept')
  <2>1. Stands(order, it, given, kept)
    BY <1>1, <1>2, <1>11 DEF Iterating
  <2>2. given \subseteq ToSet(order) /\ kept \subseteq ToSet(order)
    BY <1>3, <2>1, StandsAtIs DEF Stands
  <2>3. given' = {} /\ kept' = {} /\ it' = NULL
    BY <1>1, <1>4, <1>10, <1>11, <2>2
  <2>4. Len(<<>>) = 0 /\ 1 \in 1 .. 0 + 1
    OBVIOUS
  <2>5. StandsAt(1, <<>>, NULL, {}, {})
    BY <1>5 DEF StandsAt
  <2> QED
    BY <1>1, <2>3, <2>4, <2>5 DEF Stands
<1>12. Iterating'
  <2>1. ~looping => it' = NULL /\ given' = {} /\ kept' = {} /\ ~turned' /\ ~broken'
    BY <1>1, <1>2 DEF Iterating, Breaks
  <2>2. looping' /\ ~broken' => it' \in ToSet(order') \cup {NULL}
    BY <1>1, <1>10
  <2>3. looping' /\ ~broken' /\ ~turned' => Stands(order', it', given', kept')
    BY <1>1, <1>11
  <2> QED
    BY <1>1, <2>1, <2>2, <2>3 DEF Iterating
<1>13. OneAllocator' /\ NoStaleRead'
  BY <1>1, <1>2 DEF OneAllocator, NoStaleRead
<1> QED
  BY <1>7, <1>8, <1>12, <1>13 DEF CellInv

\* rs_list_free takes out the first cell that is left, and frees it.
LEMMA PopKeepsInv ==
  ASSUME CellInv, Pop
  PROVE  CellInv'
<1>1. /\ pc = "free" /\ cell # NULL /\ cell' = next[cell] /\ next' = [next EXCEPT ![cell] = NULL]
      /\ Allocate(NULL, NULL, {cell})
      /\ UNCHANGED <<memfuncs, kind, items, pc, last, order,
                     looping, it, given, kept, turned, broken>>
  BY DEF Pop, FreeCell, loop
<1>2. TypeOK /\ InOrder /\ OneAllocator /\ Iterating /\ NoStaleRead
  BY DEF CellInv
<1>3. next \in [Cell -> Pointer] /\ cell \in Cell
  BY <1>1, <1>2 DEF TypeOK, Pointer
<1>4. PICK s \in Seq(Cell) : Distinct(s) /\ Links(cell, next, s) /\ live = ToSet(s)
  BY <1>1, <1>2 DEF InOrder
<1>5. s # <<>>
  BY <1>1, <1>4 DEF Links
<1>6. /\ cell = s[1]
      /\ Links(next[cell], [next EXCEPT ![cell] = NULL], RemoveAt(s, 1))
  BY <1>3, <1>4, <1>5, LinksPop
<1>7. 1 \in 1 .. Len(s)
  BY <1>5, SeqIs
<1>8. /\ RemoveAt(s, 1) \in Seq(Cell) /\ Distinct(RemoveAt(s, 1))
      /\ ToSet(RemoveAt(s, 1)) = ToSet(s) \ {s[1]}
  BY <1>4, <1>7, RemovedIs
<1>9. {cell} \subseteq live /\ NULL \in Pointer
  BY <1>4, <1>6, <1>7, SeqIs DEF Pointer
<1>10. /\ live' = (live \ {cell}) \cup ({NULL} \ {NULL}) /\ live' \subseteq Cell
       /\ data' \in [Cell -> Item \cup {NULL}] /\ maker' \in [Cell -> Table \cup {NULL}]
       /\ \A d \in Cell \ live' : data'[d] = NULL /\ maker'[d] = NULL
       /\ \A d \in live' : data'[d] # NULL /\ maker'[d] # NULL
       /\ OneAllocator'
  BY <1>1, <1>2, <1>9, AllocateIs
<1>11. live' = ToSet(RemoveAt(s, 1))
  BY <1>4, <1>6, <1>8, <1>10
<1>12. InOrder'
  <2>1. Links(cell', next', RemoveAt(s, 1))
    BY <1>1, <1>6
  <2> QED
    BY <1>1, <1>2, <1>8, <1>11, <2>1 DEF InOrder
<1>13. TypeOK'
  <2>1. next' \in [Cell -> Pointer] /\ cell' \in Pointer
    BY <1>1, <1>3 DEF Pointer
  <2>2. \A b \in Cell \ live' : next'[b] = NULL
    BY <1>1, <1>2, <1>3, <1>10 DEF TypeOK
  <2> QED
    BY <1>1, <1>2, <1>10, <2>1, <2>2 DEF TypeOK
<1>14. Iterating' /\ NoStaleRead'
  BY <1>1, <1>2 DEF Iterating, NoStaleRead
<1> QED
  BY <1>10, <1>12, <1>13, <1>14 DEF CellInv

\* At its end no cell is left.
LEMMA FreedKeepsInv ==
  ASSUME CellInv, Freed
  PROVE  CellInv'
<1>1. /\ pc = "free" /\ cell = NULL /\ pc' = "idle"
      /\ UNCHANGED <<memfuncs, kind, items, next, data, live, maker, last, cell, order,
                     looping, it, given, kept, turned, broken>>
  BY DEF Freed, memory, loop
<1>2. TypeOK /\ InOrder /\ OneAllocator /\ Iterating /\ NoStaleRead
  BY DEF CellInv
<1>3. PICK s \in Seq(Cell) : Distinct(s) /\ Links(cell, next, s) /\ live = ToSet(s)
  BY <1>1, <1>2 DEF InOrder
<1>4. s = <<>>
  <2>1. s # <<>> => 1 \in 1 .. Len(s) /\ s[1] = NULL
    BY <1>1, <1>3, SeqIs DEF Links
  <2> QED
    BY <2>1, SeqIs, NoNull
<1>5. order = <<>> /\ items = NULL /\ live = ToSet(order)
  BY <1>1, <1>2, <1>3, <1>4 DEF InOrder
<1>6. Links(items, next, order)
  BY <1>5 DEF Links
<1>7. InOrder'
  BY <1>1, <1>2, <1>5, <1>6 DEF InOrder
<1>8. TypeOK'
  BY <1>1, <1>2 DEF TypeOK
<1>9. OneAllocator' /\ Iterating' /\ NoStaleRead'
  BY <1>1, <1>2 DEF OneAllocator, Iterating, NoStaleRead
<1> QED
  BY <1>7, <1>8, <1>9 DEF CellInv

\* A loop begins at the first place, and has given nothing.
LEMMA IteratorInitKeepsInv ==
  ASSUME CellInv, IteratorInit
  PROVE  CellInv'
<1>1. /\ Idle /\ kind # "none" /\ ~looping /\ looping' = TRUE /\ it' = items /\ kept' = Linked
      /\ UNCHANGED <<memfuncs, kind, items, next, data, live, maker, pc, last, cell, order,
                     given, turned, broken>>
  BY DEF IteratorInit, memory, locals
<1>2. TypeOK /\ InOrder /\ OneAllocator /\ Iterating /\ NoStaleRead
  BY DEF CellInv
<1>3. /\ order \in Seq(Cell) /\ Distinct(order) /\ Links(items, next, order)
      /\ items \in Pointer /\ pc = "idle"
  BY <1>1, IdleIs DEF Idle
<1>4. Linked = ToSet(order)
  BY <1>3, SizeIs
<1>5. given = {} /\ ~turned /\ ~broken
  BY <1>1, <1>2 DEF Iterating
<1>6. Stands(order', it', given', kept')
  <2>1. Stands(order, items, {}, ToSet(order))
    BY <1>3, StandsFirst
  <2> QED
    BY <1>1, <1>4, <1>5, <2>1
<1>7. TypeOK'
  <2>1. kept' \subseteq Cell
    BY <1>1, <1>3, <1>4, SeqIs
  <2> QED
    BY <1>1, <1>2, <1>3, <2>1 DEF TypeOK
<1>8. InOrder'
  BY <1>1, <1>2, <1>3 DEF InOrder
<1>9. Iterating'
  <2>1. it' \in ToSet(order') \cup {NULL}
    BY <1>1, <1>3, <1>6, StandsOn
  <2> QED
    BY <1>1, <1>3, <1>6, <2>1 DEF Iterating
<1>10. OneAllocator' /\ NoStaleRead'
  BY <1>1, <1>2 DEF OneAllocator, NoStaleRead
<1> QED
  BY <1>7, <1>8, <1>9, <1>10 DEF CellInv

\* It gives the cell it stands on, and goes on.
LEMMA IteratorNextKeepsInv ==
  ASSUME CellInv, IteratorNext
  PROVE  CellInv'
<1>1. /\ Idle /\ looping /\ it \in live /\ given' = given \cup {it} /\ it' = next[it]
      /\ UNCHANGED <<memfuncs, kind, items, next, data, live, maker, pc, last, cell, order,
                     looping, kept, turned, broken>>
  BY DEF IteratorNext, memory, locals
<1>2. TypeOK /\ InOrder /\ OneAllocator /\ Iterating /\ NoStaleRead
  BY DEF CellInv
<1>3. /\ order \in Seq(Cell) /\ Distinct(order) /\ Links(items, next, order)
      /\ live = ToSet(order) /\ next \in [Cell -> Pointer] /\ pc = "idle"
  BY <1>1, IdleIs DEF Idle
<1>4. it \in Cell /\ it # NULL
  BY <1>1, <1>3, SeqIs, NoNull
<1>5. TypeOK'
  <2>1. it' \in Pointer /\ given' \subseteq Cell
    BY <1>1, <1>2, <1>3, <1>4 DEF TypeOK
  <2> QED
    BY <1>1, <1>2, <2>1 DEF TypeOK
<1>6. it' \in ToSet(order) \cup {NULL}
  <2>1. PICK p \in 1 .. Len(order) : order[p] = it
    BY <1>1, <1>3, SeqIs
  <2>2. CASE p = Len(order)
    <3>1. order # <<>>
      BY <1>3, <2>1, SeqIs
    <3> QED
      BY <1>1, <1>3, <2>1, <2>2, <3>1, LinksIs
  <2>3. CASE p # Len(order)
    <3>1. p < Len(order) /\ p + 1 \in 1 .. Len(order)
      BY <1>3, <2>1, <2>3
    <3>2. next[it] = order[p + 1]
      BY <1>3, <2>1, <3>1, LinksIs
    <3> QED
      BY <1>1, <1>3, <3>1, <3>2, SeqIs
  <2> QED
    BY <2>2, <2>3
<1>7. ASSUME ~broken, ~turned PROVE Stands(order, it', given', kept)
  <2>1. Stands(order, it, given, kept)
    BY <1>1, <1>2, <1>7 DEF Iterating
  <2>2. Stands(order, next[it], given \cup {it}, kept)
    BY <1>3, <1>4, <2>1, StandsNext
  <2> QED
    BY <1>1, <2>2
<1>8. Iterating'
  BY <1>1, <1>3, <1>6, <1>7 DEF Iterating
<1>9. InOrder'
  BY <1>1, <1>2, <1>3 DEF InOrder
<1>10. OneAllocator' /\ NoStaleRead'
  BY <1>1, <1>2 DEF OneAllocator, NoStaleRead
<1> QED
  BY <1>5, <1>8, <1>9, <1>10 DEF CellInv

\* It ends, and is forgotten.
LEMMA IteratorEndKeepsInv ==
  ASSUME CellInv, IteratorEnd
  PROVE  CellInv'
<1>1. /\ Idle /\ given' = {} /\ kept' = {} /\ looping' = FALSE /\ it' = NULL
      /\ turned' = FALSE /\ broken' = FALSE
      /\ UNCHANGED <<memfuncs, kind, items, next, data, live, maker, pc, last, cell, order>>
  BY DEF IteratorEnd, LoopOver, memory, locals
<1>2. TypeOK /\ InOrder /\ OneAllocator
  BY DEF CellInv
<1>3. TypeOK'
  BY <1>1, <1>2 DEF TypeOK, Pointer
<1>4. InOrder'
  BY <1>1, <1>2 DEF InOrder, Idle
<1>5. OneAllocator' /\ Iterating' /\ NoStaleRead'
  BY <1>1, <1>2 DEF OneAllocator, Iterating, NoStaleRead, Idle
<1> QED
  BY <1>3, <1>4, <1>5 DEF CellInv

\* Only a client that broke the rules reads a freed cell.
LEMMA IteratorFaultKeepsInv ==
  ASSUME CellInv, IteratorFault
  PROVE  CellInv'
<1>1. /\ Idle /\ looping /\ it \in Cell \ live /\ pc' = "faulted"
      /\ UNCHANGED <<memfuncs, kind, items, next, data, live, maker, last, cell, order,
                     looping, it, given, kept, turned, broken>>
  BY DEF IteratorFault, memory, loop
<1>2. TypeOK /\ InOrder /\ OneAllocator /\ Iterating
  BY DEF CellInv
<1>3. live = ToSet(order)
  BY <1>1, IdleIs
<1>4. broken
  BY <1>1, <1>2, <1>3, NoNull DEF Iterating
<1>5. TypeOK'
  BY <1>1, <1>2 DEF TypeOK
<1>6. InOrder'
  BY <1>1, <1>2 DEF InOrder, Idle
<1>7. OneAllocator' /\ Iterating' /\ NoStaleRead'
  BY <1>1, <1>2, <1>4 DEF OneAllocator, Iterating, NoStaleRead
<1> QED
  BY <1>5, <1>6, <1>7 DEF CellInv

-----------------------------------------------------------------------------
(* The theorems.                                                           *)

\* There is no container and no cell at first.
LEMMA InitHoldsInv ==
  ASSUME Init
  PROVE  CellInv
<1>1. /\ memfuncs \in Table /\ kind = "none" /\ items = NULL
      /\ next = [c \in Cell |-> NULL] /\ data = [c \in Cell |-> NULL] /\ live = {}
      /\ maker = [c \in Cell |-> NULL]
      /\ pc = "idle" /\ last = NULL /\ cell = NULL /\ order = <<>>
      /\ looping = FALSE /\ it = NULL /\ given = {} /\ kept = {}
      /\ turned = FALSE /\ broken = FALSE
  BY DEF Init
<1>2. TypeOK
  <2>1. <<>> \in Seq(Cell)
    OBVIOUS
  <2>2. /\ next \in [Cell -> Pointer] /\ data \in [Cell -> Item \cup {NULL}]
        /\ maker \in [Cell -> Table \cup {NULL}]
    BY <1>1 DEF Pointer
  <2>3. \A c \in Cell : next[c] = NULL /\ data[c] = NULL /\ maker[c] = NULL
    BY <1>1
  <2>4. looping \in BOOLEAN /\ turned \in BOOLEAN /\ broken \in BOOLEAN
    BY <1>1
  <2>5. last \in Pointer /\ cell \in Pointer /\ it \in Pointer /\ items \in Pointer
    BY <1>1 DEF Pointer
  <2> QED
    BY <1>1, <2>1, <2>2, <2>3, <2>4, <2>5 DEF TypeOK
<1>3. InOrder
  <2>1. order = <<>> /\ ToSet(<<>>) = {} /\ Distinct(<<>>)
    BY <1>1 DEF ToSet, Distinct
  <2>2. Links(items, next, order)
    BY <1>1 DEF Links
  <2> QED
    BY <1>1, <2>1, <2>2 DEF InOrder
<1>4. OneAllocator /\ Iterating /\ NoStaleRead
  BY <1>1 DEF OneAllocator, Iterating, NoStaleRead
<1> QED
  BY <1>2, <1>3, <1>4 DEF CellInv

\* A step of something else changes nothing here.
LEMMA StutterKeepsInv ==
  ASSUME CellInv, UNCHANGED vars
  PROVE  CellInv'
<1>1. UNCHANGED <<memfuncs, kind, items, next, data, live, maker, pc, last, cell, order,
                  looping, it, given, kept, turned, broken>>
  BY DEF vars, memory, locals, loop
<1>2. TypeOK /\ InOrder /\ OneAllocator /\ Iterating /\ NoStaleRead
  BY DEF CellInv
<1>3. TypeOK'
  BY <1>1, <1>2 DEF TypeOK
<1>4. InOrder'
  BY <1>1, <1>2 DEF InOrder, HalfTurned
<1>5. OneAllocator' /\ Iterating' /\ NoStaleRead'
  BY <1>1, <1>2 DEF OneAllocator, Iterating, NoStaleRead
<1> QED
  BY <1>3, <1>4, <1>5 DEF CellInv

\* Every step keeps the invariant.
LEMMA NextKeepsInv ==
  ASSUME CellInv, [Next]_vars
  PROVE  CellInv'
<1>1. CASE Next
  <2>1. ASSUME NEW t \in Table, SetMemoryFunctions(t) PROVE CellInv'
    BY <2>1, SetMemoryFunctionsKeepsInv
  <2>2. ASSUME NEW k \in {"list", "compound"}, New(k) PROVE CellInv'
    BY <2>2, NewKeepsInv
  <2>3. ASSUME NEW i \in 0 .. Cardinality(Cell), NEW x \in Tag, NEW c \in Cell,
               ListInsert(i, x, c)
        PROVE  CellInv'
    BY <2>3, ListInsertKeepsInv
  <2>4. ASSUME NEW i \in 0 .. Cardinality(Cell), ListDelete(i) PROVE CellInv'
    BY <2>4, ListDeleteKeepsInv
  <2>5. ASSUME NEW x \in Key, NEW c \in Cell, CompoundSet(x, c) PROVE CellInv'
    BY <2>5, CompoundSetKeepsInv
  <2>6. ASSUME NEW x \in Key, CompoundDelete(x) PROVE CellInv'
    BY <2>6, CompoundDeleteKeepsInv
  <2>7. ASSUME ListReverse \/ ReverseCell \/ Reversed PROVE CellInv'
    BY <2>7, ListReverseKeepsInv, ReverseCellKeepsInv, ReversedKeepsInv
  <2>8. ASSUME FreeContainer \/ Pop \/ Freed PROVE CellInv'
    BY <2>8, FreeContainerKeepsInv, PopKeepsInv, FreedKeepsInv
  <2>9. ASSUME IteratorInit \/ IteratorNext \/ IteratorEnd \/ IteratorFault PROVE CellInv'
    BY <2>9, IteratorInitKeepsInv, IteratorNextKeepsInv, IteratorEndKeepsInv,
       IteratorFaultKeepsInv
  <2> QED
    BY <1>1, <2>1, <2>2, <2>3, <2>4, <2>5, <2>6, <2>7, <2>8, <2>9 DEF Next
<1>2. CASE UNCHANGED vars
  BY <1>2, StutterKeepsInv
<1> QED
  BY <1>1, <1>2

\* The cells are linked and the loop has its place in every reachable state.
LEMMA CellInvariant == Spec => []CellInv
<1>1. Init => CellInv
  BY InitHoldsInv
<1>2. CellInv /\ [Next]_vars => CellInv'
  BY NextKeepsInv
<1> QED
  BY <1>1, <1>2, PTL DEF Spec

\* The type invariant of the cells, and of memory that is not allocated.
THEOREM CellsTypeCorrect == Spec => []TypeOK
<1>1. CellInv => TypeOK
  BY DEF CellInv
<1> QED
  BY <1>1, CellInvariant, PTL

\* What rs_list_reverse has turned so far hangs on `last', the other way round.
LEMMA TurnedChain ==
  ASSUME order \in Seq(Cell), NEW k \in 0 .. Len(order), HalfTurned(k)
  PROVE  Chain(last, Reverse(SubSeq(order, 1, k)))
<1>1. Len(order) \in Nat /\ k \in Nat /\ k <= Len(order)
  BY SeqIs
<1>2. PICK s : s = SubSeq(order, 1, k)
  OBVIOUS
<1>3. s \in Seq(Cell) /\ Len(s) = k
  BY <1>1, <1>2
<1>4. \A i \in 1 .. k : s[i] = order[i]
  BY <1>1, <1>2
<1>5. PICK r : r = Reverse(s)
  OBVIOUS
<1>6. /\ r \in Seq(Cell) /\ Len(r) = k
      /\ \A i \in 1 .. k : k - i + 1 \in 1 .. k /\ r[i] = s[k - i + 1]
  BY <1>3, <1>5, ReverseIs
<1>7. DOMAIN r = 1 .. k /\ (r = <<>> <=> k = 0)
  BY <1>6, SeqIs
<1>8. \A i \in 1 .. k : r[i] = order[k - i + 1]
  BY <1>4, <1>6
<1>9. last = IF r = <<>> THEN NULL ELSE r[1]
  <2>1. CASE k = 0
    BY <1>7, <2>1, HalfTurnedIs
  <2>2. CASE k # 0
    <3>1. 1 \in 1 .. k /\ k - 1 + 1 = k
      BY <1>1, <2>2
    <3>2. r[1] = order[k]
      BY <1>8, <3>1
    <3> QED
      BY <1>7, <2>2, <3>2, HalfTurnedIs
  <2> QED
    BY <2>1, <2>2
<1>10. ASSUME NEW i \in 1 .. k
       PROVE  next[r[i]] = IF i = Len(r) THEN NULL ELSE r[i + 1]
  <2>1. PICK j \in 1 .. k : j = k - i + 1
    BY <1>6
  <2>2. r[i] = order[j] /\ j \in 1 .. Len(order) /\ j <= k /\ (j = 1 <=> i = k)
    BY <1>1, <1>8, <2>1
  <2>3. CASE i = k
    <3>1. j = 1 /\ 1 <= k
      BY <1>1, <2>2, <2>3
    <3> QED
      BY <1>6, <2>2, <2>3, <3>1, HalfTurnedIs
  <2>4. CASE i # k
    <3>1. j # 1 /\ i + 1 \in 1 .. k /\ k - (i + 1) + 1 = j - 1
      BY <1>1, <2>1, <2>2, <2>4
    <3>2. r[i + 1] = order[j - 1]
      BY <1>8, <3>1
    <3>3. next[order[j]] = order[j - 1]
      BY <2>2, <3>1, HalfTurnedIs
    <3> QED
      BY <1>6, <2>2, <2>4, <3>2, <3>3
  <2> QED
    BY <2>3, <2>4
<1>11. Chain(last, r)
  BY <1>7, <1>9, <1>10 DEF Chain
<1> QED
  BY <1>2, <1>5, <1>11

\* What it has not turned hangs on `cell'.
LEMMA UnturnedChain ==
  ASSUME order \in Seq(Cell), NEW k \in 0 .. Len(order), HalfTurned(k)
  PROVE  Chain(cell, SubSeq(order, k + 1, Len(order)))
<1>1. Len(order) \in Nat /\ k \in Nat /\ k <= Len(order)
  BY SeqIs
<1>2. PICK r : r = SubSeq(order, k + 1, Len(order))
  OBVIOUS
<1>3. r \in Seq(Cell) /\ Len(r) = Len(order) - k
  <2>1. k + 1 \in 1 .. Len(order) + 1
    BY <1>1
  <2> QED
    BY <1>1, <1>2, <2>1
<1>4. PICK l \in Nat : l = Len(order) - k
  BY <1>1
<1>5. DOMAIN r = 1 .. l /\ (r = <<>> <=> l = 0) /\ Len(r) = l
  BY <1>3, <1>4, SeqIs
<1>6. \A i \in 1 .. l : r[i] = order[k + i]
  <2>1. ASSUME NEW i \in 1 .. l PROVE r[i] = order[k + i]
    <3>1. k + 1 + i - 1 = k + i
      BY <1>1, <1>4
    <3>2. r[i] = order[k + 1 + i - 1]
      BY <1>1, <1>2, <1>4
    <3> QED
      BY <3>1, <3>2
  <2> QED
    BY <2>1
<1>7. cell = IF r = <<>> THEN NULL ELSE r[1]
  <2>1. CASE k = Len(order)
    <3>1. l = 0
      BY <1>1, <1>4, <2>1
    <3> QED
      BY <1>5, <2>1, <3>1, HalfTurnedIs
  <2>2. CASE k # Len(order)
    <3>1. 1 \in 1 .. l /\ l # 0
      BY <1>1, <1>4, <2>2
    <3>2. r[1] = order[k + 1]
      BY <1>6, <3>1
    <3> QED
      BY <1>5, <2>2, <3>1, <3>2, HalfTurnedIs
  <2> QED
    BY <2>1, <2>2
<1>8. ASSUME NEW i \in 1 .. l
      PROVE  next[r[i]] = IF i = Len(r) THEN NULL ELSE r[i + 1]
  <2>1. PICK j \in 1 .. Len(order) : j = k + i
    BY <1>1, <1>4
  <2>2. r[i] = order[j] /\ j > k /\ (j = Len(order) <=> i = l)
    BY <1>1, <1>4, <1>6, <2>1
  <2>3. CASE i = l
    <3>1. j = Len(order) /\ k < Len(order)
      BY <1>1, <2>1, <2>2, <2>3
    <3> QED
      BY <1>5, <2>2, <2>3, <3>1, HalfTurnedIs
  <2>4. CASE i # l
    <3>1. j # Len(order) /\ i + 1 \in 1 .. l /\ k + (i + 1) = j + 1
      BY <1>1, <1>4, <2>1, <2>2, <2>4
    <3>2. r[i + 1] = order[j + 1]
      BY <1>6, <3>1
    <3>3. next[order[j]] = order[j + 1]
      BY <2>2, <3>1, HalfTurnedIs
    <3> QED
      BY <1>5, <2>2, <2>4, <3>2, <3>3
  <2> QED
    BY <2>3, <2>4
<1>9. Chain(cell, r)
  BY <1>5, <1>7, <1>8 DEF Chain
<1> QED
  BY <1>2, <1>9

\* Following the pointers gives the cells of the container in order, each once, in
\* rs_list_reverse too.
THEOREM CellsAreLinked == Spec => []WellLinked
<1>1. ASSUME CellInv PROVE WellLinked
  <2>1. TypeOK /\ InOrder /\ order \in Seq(Cell)
    BY <1>1 DEF CellInv, TypeOK
  <2>2. \A i, j \in DOMAIN order : order[i] = order[j] => i = j
    BY <2>1 DEF InOrder, Distinct
  <2>3. CASE pc = "reverse"
    <3>1. PICK k \in 0 .. Len(order) : HalfTurned(k)
      BY <2>1, <2>3 DEF InOrder
    <3>2. Chain(last, Reverse(SubSeq(order, 1, k)))
      BY <2>1, <3>1, TurnedChain
    <3>3. Chain(cell, SubSeq(order, k + 1, Len(order)))
      BY <2>1, <3>1, UnturnedChain
    <3> QED
      BY <2>2, <2>3, <3>2, <3>3 DEF WellLinked
  <2>4. CASE pc # "reverse"
    <3>1. Links(items, next, order)
      <4>1. CASE pc = "free"
        <5>1. order = <<>> /\ items = NULL
          BY <2>1, <4>1 DEF InOrder
        <5> QED
          BY <5>1 DEF Links
      <4>2. CASE pc # "free"
        BY <2>1, <2>4, <4>2 DEF InOrder, TypeOK
      <4> QED
        BY <4>1, <4>2
    <3>2. Chain(items, order)
      BY <3>1 DEF Links, Chain
    <3> QED
      BY <2>2, <2>4, <3>2 DEF WellLinked
  <2> QED
    BY <2>3, <2>4
<1>2. CellInv => WellLinked
  BY <1>1
<1> QED
  BY <1>2, CellInvariant, PTL

\* The cells that are allocated are those of the container: list.c loses none, and
\* frees none that it still uses.
THEOREM NoCellLost == Spec => []CellsExact
<1>1. ASSUME CellInv PROVE CellsExact
  <2>1. InOrder
    BY <1>1 DEF CellInv
  <2>2. ASSUME pc = "free", cell = NULL PROVE live = {}
    <3>1. PICK s \in Seq(Cell) : Distinct(s) /\ Links(cell, next, s) /\ live = ToSet(s)
      BY <2>1, <2>2 DEF InOrder
    <3>2. s # <<>> => 1 \in 1 .. Len(s) /\ s[1] = NULL
      BY <2>2, <3>1, SeqIs DEF Links
    <3>3. s = <<>>
      BY <3>2, SeqIs, NoNull
    <3> QED
      BY <3>1, <3>3 DEF ToSet
  <2> QED
    BY <2>1, <2>2 DEF CellsExact, InOrder
<1>2. CellInv => CellsExact
  BY <1>1
<1> QED
  BY <1>2, CellInvariant, PTL

\* Every cell is freed by the functions that allocated it, if clients replace the table
\* of rs_set_memory_functions only while they hold no container.
THEOREM OneAllocatorFrees == Spec => []OneAllocator
<1>1. CellInv => OneAllocator
  BY DEF CellInv
<1> QED
  BY <1>1, CellInvariant, PTL

\* A loop whose body takes out only what it was given reads no freed cell.
THEOREM LoopsReadLiveCells == Spec => []NoStaleRead
<1>1. CellInv => NoStaleRead
  BY DEF CellInv
<1> QED
  BY <1>1, CellInvariant, PTL

\* Such a loop gives each item that stays exactly once.
THEOREM LoopsGiveEachOnce == Spec => []EachOnce
<1>1. ASSUME CellInv, looping, ~turned, ~broken
      PROVE  it \notin given /\ (it = NULL => kept \subseteq given)
  <2>1. order \in Seq(Cell) /\ Stands(order, it, given, kept)
    BY <1>1 DEF CellInv, TypeOK, Iterating
  <2> QED
    BY <2>1, StandsOn
<1>2. CellInv => EachOnce
  BY <1>1 DEF EachOnce
<1> QED
  BY <1>2, CellInvariant, PTL

-----------------------------------------------------------------------------
(* Cells and pointers implement the sequences of TagList.                  *)

Content == [i \in DOMAIN order |-> data[order[i]]]

\* Where pointer t is in s.
PlaceIn(s, t) ==
    IF t = NULL THEN -1 ELSE IF t \in ToSet(s) THEN CHOOSE i \in DOMAIN s : s[i] = t ELSE -2

Place == IF ~looping THEN 0 ELSE PlaceIn(order, it)

\* Where an iterator may be that was lost.
Anywhere == Place' \in {0, -1, -2} \cup DOMAIN Content'

\* TagList's actions by Content and Place.
LEMMA SequenceInserts ==
  ASSUME NEW i, NEW x, NEW p,
         p = IF i < Len(Content) THEN i + 1 ELSE Len(Content) + 1,
         Content' = InsertAt(Content, p, x),
         Place = -2 => Anywhere,
         Place # -2 => Place' = IF Place >= p THEN Place + 1 ELSE Place
  PROVE  Sequence!Insert(i, x)
<1> DEFINE q == IF i < Len(Content) THEN i + 1 ELSE Len(Content) + 1
<1>1. Sequence!Insert(i, x) <=>
        /\ Content' = InsertAt(Content, q, x)
        /\ IF Place = -2 THEN Place' \in {0, -1, -2} \cup DOMAIN Content'
           ELSE Place' = IF Place >= q THEN Place + 1 ELSE Place
  BY DEF Sequence!Insert, Sequence!MoveTo, Sequence!NoLoop, Sequence!AtEnd, Sequence!Lost,
         Content, Place, PlaceIn, Sequence!InsertAt, InsertAt
<1>2. p = q
  OBVIOUS
<1> HIDE DEF q
<1> QED
  BY <1>1, <1>2 DEF Anywhere

\* The place of a pointer among cells.
LEMMA PlaceIs ==
  ASSUME NEW s \in Seq(Cell), Distinct(s)
  PROVE  /\ PlaceIn(s, NULL) = -1
         /\ \A i \in 1 .. Len(s) : PlaceIn(s, s[i]) = i
         /\ \A t : t # NULL /\ t \notin ToSet(s) => PlaceIn(s, t) = -2
<1>1. PlaceIn(s, NULL) = -1
  BY DEF PlaceIn
<1>2. ASSUME NEW i \in 1 .. Len(s) PROVE PlaceIn(s, s[i]) = i
  <2>1. s[i] # NULL /\ s[i] \in ToSet(s) /\ i \in DOMAIN s
    BY SeqIs, NoNull
  <2>2. \A j \in DOMAIN s : s[j] = s[i] <=> j = i
    BY <2>1 DEF Distinct
  <2>3. (CHOOSE j \in DOMAIN s : s[j] = s[i]) = i
    BY <2>1, <2>2
  <2> QED
    BY <2>1, <2>3 DEF PlaceIn
<1>3. ASSUME NEW t, t # NULL, t \notin ToSet(s) PROVE PlaceIn(s, t) = -2
  BY <1>3 DEF PlaceIn
<1> QED
  BY <1>1, <1>2, <1>3

\* Delete, by Content and Place.
LEMMA SequenceDeletes ==
  ASSUME NEW p, Content' = RemoveAt(Content, p),
         Place = -2 => Anywhere,
         Place # -2 => Place' = IF Place = p THEN -2 ELSE IF Place > p THEN Place - 1 ELSE Place
  PROVE  Sequence!Delete(p)
<1>1. Sequence!Delete(p) <=>
        /\ Content' = RemoveAt(Content, p)
        /\ IF Place = -2 THEN Place' \in {0, -1, -2} \cup DOMAIN Content'
           ELSE Place' = IF Place = p THEN -2 ELSE IF Place > p THEN Place - 1 ELSE Place
  BY DEF Sequence!Delete, Sequence!MoveTo, Sequence!NoLoop, Sequence!AtEnd, Sequence!Lost,
         Sequence!PlaceWithout, Content, Place, PlaceIn, Sequence!RemoveAt, RemoveAt
<1> QED
  BY <1>1 DEF Anywhere

\* SetKey, of a key that is not there.
LEMMA SequenceSetsNew ==
  ASSUME NEW x, \A p \in DOMAIN Content : Content[p] # x, Sequence!Insert(0, x)
  PROVE  Sequence!SetKey(x)
<1>1. Sequence!SetKey(x) <=>
        IF \E p \in DOMAIN Content : Content[p] = x
        THEN \E p \in DOMAIN Content :
                /\ Content[p] = x
                /\ Content' = <<x>> \o RemoveAt(Content, p)
                /\ IF Place = p THEN Place' \in {-2} \cup DOMAIN Content'
                   ELSE Sequence!MoveTo(IF Place > 0 THEN Sequence!PlaceWithout(p) + 1 ELSE Place)
        ELSE Sequence!Insert(0, x)
  BY DEF Sequence!SetKey, Sequence!Lost, Content, Place, PlaceIn, Sequence!RemoveAt, RemoveAt
<1> QED
  BY <1>1

\* SetKey, of a key that is.
LEMMA SequenceSetsOld ==
  ASSUME NEW x, NEW p \in DOMAIN Content, Content[p] = x,
         Content' = <<x>> \o RemoveAt(Content, p),
         Place = p => Place' \in {-2} \cup DOMAIN Content',
         Place = -2 /\ Place # p => Anywhere,
         Place # -2 /\ Place # p =>
            Place' = IF Place > 0 THEN (IF Place > p THEN Place - 1 ELSE Place) + 1 ELSE Place
  PROVE  Sequence!SetKey(x)
<1>1. Sequence!SetKey(x) <=>
        IF \E q \in DOMAIN Content : Content[q] = x
        THEN \E q \in DOMAIN Content :
                /\ Content[q] = x
                /\ Content' = <<x>> \o RemoveAt(Content, q)
                /\ IF Place = q THEN Place' \in {-2} \cup DOMAIN Content'
                   ELSE IF Place = -2 THEN Place' \in {0, -1, -2} \cup DOMAIN Content'
                   ELSE Place' = IF Place > 0
                                 THEN (IF Place = q THEN -2
                                       ELSE IF Place > q THEN Place - 1 ELSE Place) + 1
                                 ELSE Place
        ELSE Sequence!Insert(0, x)
  BY DEF Sequence!SetKey, Sequence!MoveTo, Sequence!NoLoop, Sequence!AtEnd, Sequence!Lost,
         Sequence!PlaceWithout, Content, Place, PlaceIn, Sequence!RemoveAt, RemoveAt
<1>2. CASE Place = p
  BY <1>1, <1>2
<1>3. CASE Place # p /\ Place = -2
  BY <1>1, <1>3 DEF Anywhere
<1>4. CASE Place # p /\ Place # -2
  BY <1>1, <1>4
<1> QED
  BY <1>2, <1>3, <1>4

\* Turn, by Content and Place.
LEMMA SequenceTurns ==
  ASSUME Content' = Reverse(Content),
         Place = -2 => Anywhere,
         Place # -2 => Place' = IF Place > 0 THEN Len(Content) + 1 - Place ELSE Place
  PROVE  Sequence!Turn
<1>1. Sequence!Turn <=>
        /\ Content' = Reverse(Content)
        /\ IF Place = -2 THEN Place' \in {0, -1, -2} \cup DOMAIN Content'
           ELSE Place' = IF Place > 0 THEN Len(Content) + 1 - Place ELSE Place
  BY DEF Sequence!Turn, Sequence!MoveTo, Sequence!NoLoop, Sequence!AtEnd, Sequence!Lost,
         Content, Place, PlaceIn, Sequence!Reverse, Reverse
<1> QED
  BY <1>1 DEF Anywhere

\* Clear, by Content and Place.
LEMMA SequenceClears ==
  ASSUME Content' = <<>>,
         Place = -2 => Anywhere,
         Place # -2 => Place' = IF Place > 0 THEN -2 ELSE Place
  PROVE  Sequence!Clear
<1>1. Sequence!Clear <=>
        /\ Content' = <<>>
        /\ IF Place = -2 THEN Place' \in {0, -1, -2} \cup DOMAIN Content'
           ELSE Place' = IF Place > 0 THEN -2 ELSE Place
  BY DEF Sequence!Clear, Sequence!MoveTo, Sequence!NoLoop, Sequence!AtEnd, Sequence!Lost,
         Content, Place, PlaceIn
<1> QED
  BY <1>1 DEF Anywhere

\* Begin and LeaveLoop, by Content and Place.
LEMMA SequenceLoops ==
  /\ Content' = Content /\ Place' = (IF Content = <<>> THEN -1 ELSE 1) => Sequence!Begin
  /\ Content' = Content /\ Place' = 0 => Sequence!LeaveLoop
<1>1. Sequence!Begin <=>
        Content' = Content /\ Place' = (IF Content = <<>> THEN -1 ELSE 1)
  BY DEF Sequence!Begin, Sequence!AtEnd, Content, Place, PlaceIn
<1>2. Sequence!LeaveLoop <=> Content' = Content /\ Place' = 0
  BY DEF Sequence!LeaveLoop, Sequence!NoLoop, Content, Place, PlaceIn
<1> QED
  BY <1>1, <1>2

\* Advance, of a place that was not lost.
LEMMA SequenceAdvances ==
  ASSUME Content' = Content, Place # 0, Place # -2,
         Place' = IF Place = -1 THEN 0 ELSE IF Place = Len(Content) THEN -1 ELSE Place + 1
  PROVE  Sequence!Advance
<1>1. Sequence!Advance <=>
        /\ Place # 0
        /\ IF Place = -2 THEN Place' \in {0, -1, -2} \cup DOMAIN Content'
           ELSE Place' = IF Place = -1 THEN 0 ELSE IF Place = Len(Content) THEN -1 ELSE Place + 1
        /\ Content' = Content
  BY DEF Sequence!Advance, Sequence!MoveTo, Sequence!NoLoop, Sequence!AtEnd, Sequence!Lost,
         Content, Place, PlaceIn
<1> QED
  BY <1>1

\* The steps of TagList.
LEMMA SequenceNext ==
  /\ (\E i \in 0 .. Len(Content), x \in Item : Sequence!Insert(i, x)) => Sequence!ListNext
  /\ (\E p \in DOMAIN Content : Sequence!Delete(p)) => Sequence!ListNext
  /\ (\E x \in Item : Sequence!SetKey(x)) => Sequence!ListNext
  /\ Sequence!Turn \/ Sequence!Clear \/ Sequence!Begin \/ Sequence!Advance \/ Sequence!LeaveLoop
        => Sequence!ListNext
  BY DEF Sequence!ListNext, Content

-----------------------------------------------------------------------------
(* What is in the cells, and where pointers are among them.                *)

\* The items of the cells of s, in memory d.
ItemsOf(s, d) == [i \in DOMAIN s |-> d[s[i]]]

\* Where a value of the new sequence comes from.
LEMMA InsertAtComes ==
  ASSUME NEW S, NEW s \in Seq(S), NEW p \in 1 .. Len(s) + 1, NEW y \in S,
         NEW i \in 1 .. Len(s) + 1
  PROVE  \/ i < p /\ i \in 1 .. Len(s) /\ InsertAt(s, p, y)[i] = s[i]
         \/ i = p /\ InsertAt(s, p, y)[i] = y
         \/ i > p /\ i - 1 \in 1 .. Len(s) /\ InsertAt(s, p, y)[i] = s[i - 1]
<1>1. Len(s) \in Nat /\ p \in Nat /\ i \in Nat /\ 1 <= p /\ 1 <= i
  BY SeqIs
<1>2. InsertAt(s, p, y)[p] = y
  BY InsertAtProperties
<1>3. \A j \in 1 .. p - 1 : InsertAt(s, p, y)[j] = s[j]
  BY InsertAtProperties
<1>4. \A j \in p .. Len(s) : InsertAt(s, p, y)[j + 1] = s[j]
  BY InsertAtProperties
<1>5. CASE i < p
  <2>1. i \in 1 .. p - 1 /\ i \in 1 .. Len(s)
    BY <1>1, <1>5
  <2> QED
    BY <1>3, <1>5, <2>1
<1>6. CASE i > p
  <2>1. i - 1 \in p .. Len(s) /\ i - 1 \in 1 .. Len(s) /\ (i - 1) + 1 = i
    BY <1>1, <1>6
  <2> QED
    BY <1>4, <1>6, <2>1
<1>7. i < p \/ i = p \/ i > p
  BY <1>1
<1> QED
  BY <1>2, <1>5, <1>6, <1>7

\* Sequences of the same length are spread alike.
LEMMA InsertedAlike ==
  ASSUME NEW S, NEW s \in Seq(S), NEW T, NEW u \in Seq(T), Len(u) = Len(s),
         NEW p \in 1 .. Len(s) + 1, NEW c \in S, NEW y \in T, NEW i \in 1 .. Len(s) + 1
  PROVE  \/ InsertAt(s, p, c)[i] = c /\ InsertAt(u, p, y)[i] = y
         \/ \E j \in 1 .. Len(s) :
               InsertAt(s, p, c)[i] = s[j] /\ InsertAt(u, p, y)[i] = u[j]
<1>1. \/ i < p /\ i \in 1 .. Len(s) /\ InsertAt(s, p, c)[i] = s[i]
      \/ i = p /\ InsertAt(s, p, c)[i] = c
      \/ i > p /\ i - 1 \in 1 .. Len(s) /\ InsertAt(s, p, c)[i] = s[i - 1]
  BY InsertAtComes
<1>2. p \in 1 .. Len(u) + 1 /\ i \in 1 .. Len(u) + 1
  OBVIOUS
<1>3. \/ i < p /\ i \in 1 .. Len(u) /\ InsertAt(u, p, y)[i] = u[i]
      \/ i = p /\ InsertAt(u, p, y)[i] = y
      \/ i > p /\ i - 1 \in 1 .. Len(u) /\ InsertAt(u, p, y)[i] = u[i - 1]
  BY <1>2, InsertAtComes
<1>4. Len(s) \in Nat /\ p \in Nat /\ i \in Nat
  BY SeqIs
<1>5. ~(i < p /\ i > p) /\ (i = p => ~(i < p) /\ ~(i > p))
  BY <1>4
<1> QED
  BY <1>1, <1>3, <1>5

\* There is one item for each place.
LEMMA ItemsAre ==
  ASSUME NEW s \in Seq(Cell), NEW d \in [Cell -> Item \cup {NULL}]
  PROVE  /\ ItemsOf(s, d) \in Seq(Item \cup {NULL}) /\ Len(ItemsOf(s, d)) = Len(s)
         /\ DOMAIN ItemsOf(s, d) = 1 .. Len(s)
         /\ \A i \in 1 .. Len(s) : ItemsOf(s, d)[i] = d[s[i]]
<1>1. Len(s) \in Nat /\ DOMAIN s = 1 .. Len(s) /\ \A i \in 1 .. Len(s) : s[i] \in Cell
  BY SeqIs
<1>2. ItemsOf(s, d) = [i \in 1 .. Len(s) |-> d[s[i]]]
  BY <1>1 DEF ItemsOf
<1>3. \A i \in 1 .. Len(s) : d[s[i]] \in Item \cup {NULL}
  BY <1>1
<1>4. ItemsOf(s, d) \in Seq(Item \cup {NULL})
  BY <1>1, <1>2, <1>3
<1>5. DOMAIN ItemsOf(s, d) = 1 .. Len(s) /\ Len(ItemsOf(s, d)) = Len(s)
  BY <1>1, <1>2
<1> QED
  BY <1>2, <1>4, <1>5

\* Without a cell there are the items without its item.
LEMMA ItemsRemoved ==
  ASSUME NEW s \in Seq(Cell), Distinct(s), NEW p \in 1 .. Len(s),
         NEW d \in [Cell -> Item \cup {NULL}], NEW e \in [Cell -> Item \cup {NULL}],
         \A b \in ToSet(s) : b # s[p] => e[b] = d[b]
  PROVE  ItemsOf(RemoveAt(s, p), e) = RemoveAt(ItemsOf(s, d), p)
<1>1. PICK r : r = RemoveAt(s, p)
  OBVIOUS
<1>2. r \in Seq(Cell) /\ Len(r) = Len(s) - 1 /\ ToSet(r) = ToSet(s) \ {s[p]}
  BY <1>1, RemovedIs
<1>3. PICK u : u = ItemsOf(s, d)
  OBVIOUS
<1>4. /\ u \in Seq(Item \cup {NULL}) /\ Len(u) = Len(s)
      /\ \A i \in 1 .. Len(s) : u[i] = d[s[i]]
  BY <1>3, ItemsAre
<1>5. p \in 1 .. Len(u)
  BY <1>4
<1>6. RemoveAt(u, p) \in Seq(Item \cup {NULL}) /\ Len(RemoveAt(u, p)) = Len(u) - 1
  BY <1>4, <1>5, RemoveAtProperties
<1>7. PICK v : v = ItemsOf(r, e)
  OBVIOUS
<1>8. /\ v \in Seq(Item \cup {NULL}) /\ Len(v) = Len(r)
      /\ \A i \in 1 .. Len(r) : v[i] = e[r[i]]
  BY <1>2, <1>7, ItemsAre
<1>9. \A i \in 1 .. Len(r) : v[i] = d[r[i]]
  <2>1. \A i \in 1 .. Len(r) : r[i] \in ToSet(r)
    BY <1>2, SeqIs
  <2> QED
    BY <1>2, <1>8, <2>1
<1>10. Len(s) \in Nat /\ p \in Nat
  BY SeqIs
<1>11. ASSUME NEW i \in 1 .. Len(r) PROVE v[i] = RemoveAt(u, p)[i]
  <2>1. CASE i < p
    <3>1. i \in 1 .. p - 1 /\ i \in 1 .. Len(s)
      BY <1>2, <1>10, <2>1
    <3>2. RemoveAt(s, p)[i] = s[i]
      BY <3>1, RemoveAtProperties
    <3>3. RemoveAt(u, p)[i] = u[i]
      BY <1>4, <1>5, <3>1, RemoveAtProperties
    <3> QED
      BY <1>1, <1>4, <1>9, <3>1, <3>2, <3>3
  <2>2. CASE ~(i < p)
    <3>1. i \in p .. Len(s) - 1 /\ i + 1 \in 1 .. Len(s)
      BY <1>2, <1>10, <2>2
    <3>2. RemoveAt(s, p)[i] = s[i + 1]
      BY <3>1, RemoveAtProperties
    <3>3. i \in p .. Len(u) - 1
      BY <1>4, <3>1
    <3>4. RemoveAt(u, p)[i] = u[i + 1]
      BY <1>4, <1>5, <3>3, RemoveAtProperties
    <3> QED
      BY <1>1, <1>4, <1>9, <3>1, <3>2, <3>4
  <2> QED
    BY <2>1, <2>2
<1>12. v = RemoveAt(u, p)
  <2>1. PICK w : w = RemoveAt(u, p)
    OBVIOUS
  <2>2. w \in Seq(Item \cup {NULL}) /\ Len(w) = Len(s) - 1
    BY <1>4, <1>6, <2>1
  <2>3. Len(v) = Len(w)
    BY <1>2, <1>8, <2>2
  <2>4. \A i \in 1 .. Len(v) : v[i] = w[i]
    BY <1>8, <1>11, <2>1
  <2>5. v = w
    BY <1>8, <2>2, <2>3, <2>4, SeqEqual
  <2> QED
    BY <2>1, <2>5
<1> QED
  BY <1>1, <1>3, <1>7, <1>12

\* With a cell put in there are the items with its item put in.
LEMMA ItemsInserted ==
  ASSUME NEW s \in Seq(Cell), Distinct(s), NEW p \in 1 .. Len(s) + 1,
         NEW c \in Cell, c \notin ToSet(s),
         NEW d \in [Cell -> Item \cup {NULL}], NEW e \in [Cell -> Item \cup {NULL}],
         \A b \in ToSet(s) : e[b] = d[b]
  PROVE  ItemsOf(InsertAt(s, p, c), e) = InsertAt(ItemsOf(s, d), p, e[c])
<1>1. PICK r : r = InsertAt(s, p, c)
  OBVIOUS
<1>2. r \in Seq(Cell) /\ Len(r) = Len(s) + 1 /\ r[p] = c
  BY <1>1, InsertedIs
<1>3. PICK u : u = ItemsOf(s, d)
  OBVIOUS
<1>4. /\ u \in Seq(Item \cup {NULL}) /\ Len(u) = Len(s)
      /\ \A i \in 1 .. Len(s) : u[i] = d[s[i]]
  BY <1>3, ItemsAre
<1>5. PICK y \in Item \cup {NULL} : y = e[c]
  OBVIOUS
<1>12. p \in 1 .. Len(u) + 1
  BY <1>4
<1>6. /\ InsertAt(u, p, y) \in Seq(Item \cup {NULL})
      /\ Len(InsertAt(u, p, y)) = Len(u) + 1 /\ InsertAt(u, p, y)[p] = y
  BY <1>12, <1>4, InsertAtProperties
<1>7. PICK v : v = ItemsOf(r, e)
  OBVIOUS
<1>8. /\ v \in Seq(Item \cup {NULL}) /\ Len(v) = Len(r)
      /\ \A i \in 1 .. Len(r) : v[i] = e[r[i]]
  BY <1>2, <1>7, ItemsAre
<1>9. Len(s) \in Nat /\ p \in Nat /\ \A i \in 1 .. Len(s) : s[i] \in ToSet(s)
  BY SeqIs
<1>10. ASSUME NEW i \in 1 .. Len(r) PROVE v[i] = InsertAt(u, p, y)[i]
  <2>1. i \in 1 .. Len(s) + 1
    BY <1>2
  <2>2. \/ InsertAt(s, p, c)[i] = c /\ InsertAt(u, p, y)[i] = y
        \/ \E j \in 1 .. Len(s) :
              InsertAt(s, p, c)[i] = s[j] /\ InsertAt(u, p, y)[i] = u[j]
    <3>1. PICK T : T = Item \cup {NULL}
      OBVIOUS
    <3>2. u \in Seq(T) /\ y \in T /\ Len(u) = Len(s)
      BY <1>4, <1>5, <3>1
    <3> QED
      BY <2>1, <3>2, InsertedAlike
  <2> QED
    BY <1>1, <1>4, <1>5, <1>8, <1>9, <2>2
<1>11. v = InsertAt(u, p, y)
  BY <1>2, <1>4, <1>6, <1>8, <1>10, SeqEqual
<1> QED
  BY <1>1, <1>3, <1>5, <1>7, <1>11

\* A cell that is not in a list is put in front of it; the data of the others stay.
Pushed(s, c, d, e) ==
    /\ s \in Seq(Cell) /\ Distinct(s) /\ c \in Cell /\ c \notin ToSet(s)
    /\ d \in [Cell -> Item \cup {NULL}] /\ e \in [Cell -> Item \cup {NULL}]
    /\ \A b \in ToSet(s) : e[b] = d[b]

\* A cell pushed in front puts its item in front.
LEMMA ItemsPushed ==
  ASSUME NEW s, NEW c, NEW d, NEW e, Pushed(s, c, d, e)
  PROVE  ItemsOf(InsertAt(s, 1, c), e) = InsertAt(ItemsOf(s, d), 1, e[c])
<1>1. /\ s \in Seq(Cell) /\ Distinct(s) /\ c \in Cell /\ c \notin ToSet(s)
      /\ d \in [Cell -> Item \cup {NULL}] /\ e \in [Cell -> Item \cup {NULL}]
      /\ \A b \in ToSet(s) : e[b] = d[b]
  BY DEF Pushed
<1>2. PICK p \in 1 .. Len(s) + 1 : p = 1
  BY <1>1, LenProperties
<1>3. ItemsOf(InsertAt(s, p, c), e) = InsertAt(ItemsOf(s, d), p, e[c])
  BY <1>1, ItemsInserted
<1> QED
  BY <1>2, <1>3

\* The items of reversed cells are reversed.
LEMMA ItemsReversed ==
  ASSUME NEW s \in Seq(Cell), NEW d \in [Cell -> Item \cup {NULL}]
  PROVE  ItemsOf(Reverse(s), d) = Reverse(ItemsOf(s, d))
<1>1. PICK r : r = Reverse(s)
  OBVIOUS
<1>2. /\ r \in Seq(Cell) /\ Len(r) = Len(s)
      /\ \A i \in 1 .. Len(s) : Len(s) - i + 1 \in 1 .. Len(s) /\ r[i] = s[Len(s) - i + 1]
  BY <1>1, ReverseIs
<1>3. PICK u : u = ItemsOf(s, d)
  OBVIOUS
<1>4. /\ u \in Seq(Item \cup {NULL}) /\ Len(u) = Len(s)
      /\ \A i \in 1 .. Len(s) : u[i] = d[s[i]]
  BY <1>3, ItemsAre
<1>5. PICK w : w = Reverse(u)
  OBVIOUS
<1>6. /\ w \in Seq(Item \cup {NULL}) /\ Len(w) = Len(s)
      /\ \A i \in 1 .. Len(s) : w[i] = u[Len(s) - i + 1]
  BY <1>4, <1>5, ReverseIs
<1>7. PICK v : v = ItemsOf(r, d)
  OBVIOUS
<1>8. /\ v \in Seq(Item \cup {NULL}) /\ Len(v) = Len(s)
      /\ \A i \in 1 .. Len(s) : v[i] = d[r[i]]
  BY <1>2, <1>7, ItemsAre
<1>9. ASSUME NEW i \in 1 .. Len(v) PROVE v[i] = w[i]
  <2>1. PICK j \in 1 .. Len(s) : j = Len(s) - i + 1
    BY <1>2, <1>8
  <2>2. v[i] = d[s[j]]
    BY <1>2, <1>8, <2>1
  <2>3. w[i] = u[j]
    BY <1>6, <1>8, <2>1
  <2> QED
    BY <1>4, <2>2, <2>3
<1>10. v = w
  BY <1>6, <1>8, <1>9, SeqEqual
<1> QED
  BY <1>1, <1>3, <1>5, <1>7, <1>10

\* A pointer is at one place, behind the end, or nowhere.
LEMMA PlaceRange ==
  ASSUME NEW s \in Seq(Cell), Distinct(s), NEW t
  PROVE  \/ PlaceIn(s, t) = -1 /\ t = NULL
         \/ PlaceIn(s, t) = -2 /\ t # NULL /\ t \notin ToSet(s)
         \/ PlaceIn(s, t) \in 1 .. Len(s) /\ s[PlaceIn(s, t)] = t
<1>1. CASE t = NULL
  BY <1>1, PlaceIs
<1>2. CASE t # NULL /\ t \notin ToSet(s)
  BY <1>2, PlaceIs
<1>3. CASE t \in ToSet(s)
  <2>1. PICK i \in 1 .. Len(s) : s[i] = t
    BY <1>3, SeqIs
  <2>2. PlaceIn(s, t) = i
    BY <2>1, PlaceIs
  <2> QED
    BY <2>1, <2>2
<1> QED
  BY <1>1, <1>2, <1>3

\* Where a pointer is when a cell was taken out: lost, if it pointed to that one.
LEMMA PlaceRemoved ==
  ASSUME NEW s \in Seq(Cell), Distinct(s), NEW p \in 1 .. Len(s), NEW t,
         PlaceIn(s, t) # -2, NEW q, q = PlaceIn(s, t)
  PROVE  PlaceIn(RemoveAt(s, p), t) = IF q = p THEN -2 ELSE IF q > p THEN q - 1 ELSE q
<1>1. Len(s) \in Nat /\ p \in Nat /\ 1 <= p
  BY SeqIs
<1>2. PICK r : r = RemoveAt(s, p)
  OBVIOUS
<1>3. r \in Seq(Cell) /\ Distinct(r) /\ Len(r) = Len(s) - 1 /\ ToSet(r) = ToSet(s) \ {s[p]}
  BY <1>2, RemovedIs
<1>4. CASE t = NULL
  <2>1. q = -1 /\ PlaceIn(r, t) = -1
    BY <1>3, <1>4, PlaceIs
  <2>2. q # p /\ ~(q > p)
    BY <1>1, <2>1
  <2> QED
    BY <1>2, <2>1, <2>2
<1>5. CASE t # NULL
  <2>1. q \in 1 .. Len(s) /\ s[q] = t
    BY <1>5, PlaceRange
  <2>2. q \in Nat
    BY <1>1, <2>1
  <2>3. CASE q = p
    <3>1. t \notin ToSet(r)
      BY <1>3, <2>1, <2>3
    <3> QED
      BY <1>2, <1>3, <1>5, <2>3, <3>1, PlaceIs
  <2>4. CASE q < p
    <3>1. q \in 1 .. p - 1 /\ q \in 1 .. Len(r) /\ q # p /\ ~(q > p)
      BY <1>1, <1>3, <2>1, <2>2, <2>4
    <3>2. RemoveAt(s, p)[q] = s[q]
      BY <3>1, RemoveAtProperties
    <3> QED
      BY <1>2, <1>3, <2>1, <3>1, <3>2, PlaceIs
  <2>5. CASE q > p
    <3>1. PICK j \in p .. Len(s) - 1 : q = j + 1
      <4>1. q - 1 \in p .. Len(s) - 1 /\ q = (q - 1) + 1
        BY <1>1, <2>1, <2>2, <2>5
      <4> QED
        BY <4>1
    <3>2. j \in 1 .. Len(r) /\ q # p /\ q - 1 = j
      BY <1>1, <1>3, <2>5, <3>1
    <3>3. RemoveAt(s, p)[j] = s[j + 1]
      BY <3>1, RemoveAtProperties
    <3>4. PlaceIn(r, r[j]) = j
      BY <1>3, <3>2, PlaceIs
    <3> QED
      BY <1>2, <2>1, <2>5, <3>1, <3>2, <3>3, <3>4
  <2>6. q = p \/ q < p \/ q > p
    BY <1>1, <2>2
  <2> QED
    BY <2>3, <2>4, <2>5, <2>6
<1> QED
  BY <1>4, <1>5

\* Where a pointer is when a cell was put in.
LEMMA PlaceInserted ==
  ASSUME NEW s \in Seq(Cell), Distinct(s), NEW p \in 1 .. Len(s) + 1,
         NEW c \in Cell, c \notin ToSet(s), NEW t, PlaceIn(s, t) # -2,
         NEW q, q = PlaceIn(s, t)
  PROVE  PlaceIn(InsertAt(s, p, c), t) = IF q >= p THEN q + 1 ELSE q
<1>1. Len(s) \in Nat /\ p \in Nat /\ 1 <= p
  BY SeqIs
<1>2. PICK r : r = InsertAt(s, p, c)
  OBVIOUS
<1>3. r \in Seq(Cell) /\ Distinct(r) /\ Len(r) = Len(s) + 1
  BY <1>2, InsertedIs
<1>4. CASE t = NULL
  <2>1. q = -1 /\ PlaceIn(r, t) = -1
    BY <1>3, <1>4, PlaceIs
  <2>2. ~(q >= p)
    BY <1>1, <2>1
  <2> QED
    BY <1>2, <2>1, <2>2
<1>5. CASE t # NULL
  <2>1. q \in 1 .. Len(s) /\ s[q] = t
    BY <1>5, PlaceRange
  <2>2. q \in Nat
    BY <1>1, <2>1
  <2>3. CASE q < p
    <3>1. q \in 1 .. p - 1 /\ q \in 1 .. Len(r) /\ ~(q >= p)
      BY <1>1, <1>3, <2>1, <2>2, <2>3
    <3>2. InsertAt(s, p, c)[q] = s[q]
      BY <3>1, InsertAtProperties
    <3> QED
      BY <1>2, <1>3, <2>1, <3>1, <3>2, PlaceIs
  <2>4. CASE q >= p
    <3>1. q \in p .. Len(s) /\ q + 1 \in 1 .. Len(r)
      BY <1>1, <1>3, <2>1, <2>2, <2>4
    <3>2. InsertAt(s, p, c)[q + 1] = s[q]
      BY <3>1, InsertAtProperties
    <3>3. PlaceIn(r, r[q + 1]) = q + 1
      BY <1>3, <3>1, PlaceIs
    <3> QED
      BY <1>2, <2>1, <2>4, <3>2, <3>3
  <2>5. q < p \/ q >= p
    BY <1>1, <2>2
  <2> QED
    BY <2>3, <2>4, <2>5
<1> QED
  BY <1>4, <1>5

\* Where a pointer is when the cells were turned round.
LEMMA PlaceReversed ==
  ASSUME NEW s \in Seq(Cell), Distinct(s), NEW t, PlaceIn(s, t) # -2,
         NEW q, q = PlaceIn(s, t)
  PROVE  PlaceIn(Reverse(s), t) = IF q > 0 THEN Len(s) + 1 - q ELSE q
<1>1. Len(s) \in Nat
  BY SeqIs
<1>2. PICK r : r = Reverse(s)
  OBVIOUS
<1>3. /\ r \in Seq(Cell) /\ Distinct(r) /\ Len(r) = Len(s)
      /\ \A i \in 1 .. Len(s) : Len(s) - i + 1 \in 1 .. Len(s) /\ r[i] = s[Len(s) - i + 1]
  BY <1>2, ReverseIs
<1>4. CASE t = NULL
  <2>1. q = -1 /\ PlaceIn(r, t) = -1
    BY <1>3, <1>4, PlaceIs
  <2> QED
    BY <1>2, <2>1
<1>5. CASE t # NULL
  <2>1. q \in 1 .. Len(s) /\ s[q] = t
    BY <1>5, PlaceRange
  <2>2. PICK j \in 1 .. Len(s) : j = Len(s) - q + 1
    BY <1>3, <2>1
  <2>3. Len(s) - j + 1 = q /\ q > 0 /\ j = Len(s) + 1 - q
    BY <1>1, <2>1, <2>2
  <2>4. r[j] = t /\ PlaceIn(r, r[j]) = j
    BY <1>3, <2>1, <2>2, <2>3, PlaceIs
  <2> QED
    BY <1>2, <2>3, <2>4
<1> QED
  BY <1>4, <1>5

-----------------------------------------------------------------------------
(* Each step of the cells is one of the sequence, or none.                 *)

\* Content by ItemsOf, before a step and after it.
LEMMA ContentIs ==
  Content = ItemsOf(order, data) /\ Content' = ItemsOf(order', data')
  BY DEF Content, ItemsOf

\* What the invariant says of the cells and their items.
LEMMA OrderIs ==
  ASSUME CellInv
  PROVE  /\ order \in Seq(Cell) /\ Distinct(order) /\ data \in [Cell -> Item \cup {NULL}]
         /\ Len(Content) = Len(order) /\ DOMAIN Content = 1 .. Len(order)
         /\ Content \in Seq(Item \cup {NULL})
         /\ \A i \in 1 .. Len(order) : Content[i] = data[order[i]]
<1>1. /\ order \in Seq(Cell) /\ Distinct(order) /\ data \in [Cell -> Item \cup {NULL}]
  BY DEF CellInv, TypeOK, InOrder
<1> QED
  BY <1>1, ContentIs, ItemsAre

\* What it says of those after a step.
LEMMA OrderIsNext ==
  ASSUME CellInv'
  PROVE  /\ order' \in Seq(Cell) /\ Distinct(order') /\ data' \in [Cell -> Item \cup {NULL}]
         /\ DOMAIN Content' = 1 .. Len(order')
<1>1. /\ order' \in Seq(Cell) /\ Distinct(order') /\ data' \in [Cell -> Item \cup {NULL}]
  BY DEF CellInv, TypeOK, InOrder
<1> QED
  BY <1>1, ContentIs, ItemsAre

\* A lost iterator is at some place, at the end, lost, or out of a loop.
LEMMA AnywhereIs ==
  ASSUME CellInv'
  PROVE  Anywhere
<1>1. /\ order' \in Seq(Cell) /\ Distinct(order') /\ DOMAIN Content' = 1 .. Len(order')
  BY OrderIsNext
<1>2. Place' = IF ~looping' THEN 0 ELSE PlaceIn(order', it')
  BY DEF Place
<1>3. PlaceIn(order', it') \in {0, -1, -2} \cup DOMAIN Content'
  BY <1>1, PlaceRange
<1> QED
  BY <1>2, <1>3 DEF Anywhere

\* Place after a cell was put in.
LEMMA PlaceAfterInsert ==
  ASSUME CellInv, looping' = looping, it' = it, NEW p \in 1 .. Len(order) + 1,
         NEW c \in Cell, c \notin ToSet(order), order' = InsertAt(order, p, c), Place # -2
  PROVE  Place' = IF Place >= p THEN Place + 1 ELSE Place
<1>1. order \in Seq(Cell) /\ Distinct(order)
  BY OrderIs
<1>2. CASE ~looping
  <2>1. Place = 0 /\ Place' = 0
    BY <1>2 DEF Place
  <2>2. ~(0 >= p)
    BY <1>1, SeqIs
  <2> QED
    BY <2>1, <2>2
<1>3. CASE looping
  <2>1. Place = PlaceIn(order, it) /\ Place' = PlaceIn(InsertAt(order, p, c), it)
    BY <1>3 DEF Place
  <2>2. PICK q : q = PlaceIn(order, it)
    OBVIOUS
  <2>3. PlaceIn(InsertAt(order, p, c), it) = IF q >= p THEN q + 1 ELSE q
    BY <1>1, <2>1, <2>2, PlaceInserted
  <2> QED
    BY <2>1, <2>2, <2>3
<1> QED
  BY <1>2, <1>3

\* Place after a cell was taken out.
LEMMA PlaceAfterRemove ==
  ASSUME CellInv, looping' = looping, it' = it, NEW p \in 1 .. Len(order),
         order' = RemoveAt(order, p), Place # -2
  PROVE  Place' = IF Place = p THEN -2 ELSE IF Place > p THEN Place - 1 ELSE Place
<1>1. order \in Seq(Cell) /\ Distinct(order)
  BY OrderIs
<1>2. CASE ~looping
  <2>1. Place = 0 /\ Place' = 0
    BY <1>2 DEF Place
  <2>2. ~(0 > p) /\ 0 # p
    BY <1>1, SeqIs
  <2> QED
    BY <2>1, <2>2
<1>3. CASE looping
  <2>1. Place = PlaceIn(order, it) /\ Place' = PlaceIn(RemoveAt(order, p), it)
    BY <1>3 DEF Place
  <2>2. PICK q : q = PlaceIn(order, it)
    OBVIOUS
  <2>3. PlaceIn(RemoveAt(order, p), it) = IF q = p THEN -2 ELSE IF q > p THEN q - 1 ELSE q
    BY <1>1, <2>1, <2>2, PlaceRemoved
  <2> QED
    BY <2>1, <2>2, <2>3
<1> QED
  BY <1>2, <1>3

\* What Allocate leaves in memory.
LEMMA WrittenIs ==
  ASSUME NEW c, NEW x, NEW gone, Allocate(c, x, gone)
  PROVE  \A d \in Cell : data'[d] = IF d = c THEN x ELSE IF d \in gone THEN NULL ELSE data[d]
  BY DEF Allocate

\* rs_tag_list_insert is Insert, with an index behind the end brought back to it.
LEMMA ListInsertMaps ==
  ASSUME CellInv, CellInv', NEW i \in 0 .. Cardinality(Cell), NEW x \in Tag, NEW c \in Cell,
         ListInsert(i, x, c)
  PROVE  Sequence!ListNext
<1>1. /\ Idle /\ Allocate(c, x, {}) /\ looping' = looping /\ it' = it
  BY DEF ListInsert, NewCell, loop
<1>2. PICK p : /\ p = IF i < Len(order) THEN i + 1 ELSE Len(order) + 1
               /\ order' = InsertAt(order, p, c)
  BY DEF ListInsert
<1>3. /\ order \in Seq(Cell) /\ Distinct(order) /\ data \in [Cell -> Item \cup {NULL}]
      /\ Len(Content) = Len(order) /\ Len(order) \in Nat /\ data' \in [Cell -> Item \cup {NULL}]
  BY OrderIs, OrderIsNext, SeqIs
<1>4. c \notin ToSet(order)
  BY <1>1, IdleIs DEF Allocate
<1>5. p \in 1 .. Len(order) + 1
  <2>1. i \in Nat
    BY NoNull
  <2> QED
    BY <1>2, <1>3, <2>1
<1>6. \A b \in ToSet(order) : data'[b] = data[b]
  BY <1>1, <1>3, <1>4, WrittenIs, SeqIs
<1>7. data'[c] = x /\ x \in Item
  BY <1>1, WrittenIs, NoNull
<1>8. ItemsOf(InsertAt(order, p, c), data') = InsertAt(ItemsOf(order, data), p, data'[c])
  BY <1>3, <1>4, <1>5, <1>6, ItemsInserted
<1>9. Content' = InsertAt(Content, p, x)
  BY <1>2, <1>7, <1>8, ContentIs
<1>10. Place # -2 => Place' = IF Place >= p THEN Place + 1 ELSE Place
  BY <1>1, <1>2, <1>4, <1>5, PlaceAfterInsert
<1>11. PICK j \in 0 .. Len(Content) : p = IF j < Len(Content) THEN j + 1 ELSE Len(Content) + 1
  <2>1. PICK j : j = p - 1
    OBVIOUS
  <2>2. j \in 0 .. Len(order) /\ p = j + 1 /\ (j < Len(order) \/ j = Len(order))
    BY <1>3, <1>5, <2>1
  <2>3. p = IF j < Len(order) THEN j + 1 ELSE Len(order) + 1
    BY <2>2
  <2> QED
    BY <1>3, <2>2, <2>3
<1>12. Sequence!Insert(j, x)
  BY <1>9, <1>10, <1>11, AnywhereIs, SequenceInserts
<1> QED
  BY <1>7, <1>11, <1>12, SequenceNext

\* Taking out a cell is Delete.
LEMMA CellTakenMaps ==
  ASSUME CellInv, CellInv', NEW p \in 1 .. Len(order), Allocate(NULL, NULL, {order[p]}),
         order' = RemoveAt(order, p), looping' = looping, it' = it
  PROVE  Sequence!ListNext
<1>1. /\ order \in Seq(Cell) /\ Distinct(order) /\ data \in [Cell -> Item \cup {NULL}]
      /\ DOMAIN Content = 1 .. Len(order) /\ data' \in [Cell -> Item \cup {NULL}]
  BY OrderIs, OrderIsNext
<1>2. \A b \in ToSet(order) : b # order[p] => data'[b] = data[b]
  <2>1. \A b \in ToSet(order) : b \in Cell /\ b # NULL
    BY <1>1, SeqIs, NoNull
  <2> QED
    BY <2>1, WrittenIs
<1>3. ItemsOf(RemoveAt(order, p), data') = RemoveAt(ItemsOf(order, data), p)
  BY <1>1, <1>2, ItemsRemoved
<1>4. Content' = RemoveAt(Content, p)
  BY <1>3, ContentIs
<1>5. Place # -2 => Place' = IF Place = p THEN -2 ELSE IF Place > p THEN Place - 1 ELSE Place
  BY PlaceAfterRemove
<1>6. Sequence!Delete(p)
  BY <1>4, <1>5, AnywhereIs, SequenceDeletes
<1> QED
  BY <1>1, <1>6, SequenceNext

\* rs_tag_list_delete is Delete.
LEMMA ListDeleteMaps ==
  ASSUME CellInv, CellInv', NEW i \in 0 .. Cardinality(Cell), ListDelete(i)
  PROVE  Sequence!ListNext
<1>1. /\ Idle /\ Nth[i] # NULL /\ Allocate(NULL, NULL, {Nth[i]})
      /\ order' = RemoveAt(order, i + 1) /\ looping' = looping /\ it' = it
  BY DEF ListDelete, FreeCell, LoopWithout
<1>2. order \in Seq(Cell) /\ Links(items, next, order)
  BY <1>1, IdleIs
<1>3. i < Len(order) /\ Nth[i] = order[i + 1] /\ i \in Nat
  BY <1>1, <1>2, NthIs
<1>4. i + 1 \in 1 .. Len(order)
  BY <1>2, <1>3
<1>5. PICK p \in 1 .. Len(order) : p = i + 1
  BY <1>4
<1> QED
  BY <1>1, <1>3, <1>5, CellTakenMaps

\* rs_tag_compound_delete is Delete of the key's place.
LEMMA CompoundDeleteMaps ==
  ASSUME CellInv, CellInv', NEW x \in Key, CompoundDelete(x)
  PROVE  Sequence!ListNext
<1>1. /\ Idle /\ Keyed(x) # {} /\ Allocate(NULL, NULL, Keyed(x)) /\ order' = Rest(x)
      /\ looping' = looping /\ it' = it
  BY DEF CompoundDelete, LoopWithout
<1>2. order \in Seq(Cell) /\ Distinct(order) /\ Links(items, next, order)
  BY <1>1, IdleIs
<1>3. PICK p \in 1 .. Len(order) : Keyed(x) = {order[p]} /\ Rest(x) = RemoveAt(order, p)
  BY <1>1, <1>2, KeyedIs
<1> QED
  BY <1>1, <1>3, CellTakenMaps

\* rs_tag_compound_set of a new key.
LEMMA CompoundSetNewMaps ==
  ASSUME CellInv, CellInv', NEW x \in Key, NEW c \in Cell, Idle, Allocate(c, x, {}),
         order' = <<c>> \o order, \A i \in 1 .. Len(order) : data[order[i]] # x,
         looping' = looping, it' = it
  PROVE  Sequence!ListNext
<1>1. /\ order \in Seq(Cell) /\ Distinct(order) /\ data \in [Cell -> Item \cup {NULL}]
      /\ Len(Content) = Len(order) /\ Len(order) \in Nat /\ data' \in [Cell -> Item \cup {NULL}]
      /\ DOMAIN Content = 1 .. Len(order) /\ \A i \in 1 .. Len(order) : Content[i] = data[order[i]]
  BY OrderIs, OrderIsNext, SeqIs
<1>2. c \notin ToSet(order)
  BY IdleIs DEF Allocate
<1>3. order' = InsertAt(order, 1, c)
  BY <1>1, PushIs
<1>4. \A b \in ToSet(order) : data'[b] = data[b]
  BY <1>1, <1>2, WrittenIs, SeqIs
<1>5. data'[c] = x /\ x \in Item
  BY WrittenIs, NoNull
<1>6. 1 \in 1 .. Len(order) + 1
  BY <1>1
<1>7. ItemsOf(InsertAt(order, 1, c), data') = InsertAt(ItemsOf(order, data), 1, data'[c])
  <2>1. Pushed(order, c, data, data')
    BY <1>1, <1>2, <1>4 DEF Pushed
  <2> QED
    BY <2>1, ItemsPushed
<1>8. Content' = InsertAt(Content, 1, x)
  BY <1>3, <1>5, <1>7, ContentIs
<1>9. Place # -2 => Place' = IF Place >= 1 THEN Place + 1 ELSE Place
  BY <1>2, <1>3, <1>6, PlaceAfterInsert
<1>10. 1 = IF 0 < Len(Content) THEN 0 + 1 ELSE Len(Content) + 1
  BY <1>1
<1>11. Sequence!Insert(0, x)
  BY <1>8, <1>9, <1>10, AnywhereIs, SequenceInserts
<1>12. Sequence!SetKey(x)
  BY <1>1, <1>11, SequenceSetsNew
<1> QED
  BY <1>5, <1>12, SequenceNext

\* rs_tag_compound_set of a key that is there.
LEMMA CompoundSetOldMaps ==
  ASSUME CellInv, CellInv', NEW x \in Key, NEW c \in Cell, Idle,
         NEW p \in 1 .. Len(order), data[order[p]] = x, Allocate(c, x, {order[p]}),
         order' = <<c>> \o RemoveAt(order, p), looping' = looping, it' = it
  PROVE  Sequence!ListNext
<1>1. /\ order \in Seq(Cell) /\ Distinct(order) /\ data \in [Cell -> Item \cup {NULL}]
      /\ Content \in Seq(Item \cup {NULL}) /\ Len(Content) = Len(order)
      /\ data' \in [Cell -> Item \cup {NULL}]
      /\ DOMAIN Content = 1 .. Len(order) /\ Content[p] = data[order[p]]
  BY OrderIs, OrderIsNext
<1>2. PICK r : r = RemoveAt(order, p)
  OBVIOUS
<1>3. r \in Seq(Cell) /\ Distinct(r) /\ ToSet(r) = ToSet(order) \ {order[p]}
  <2>1. order \in Seq(Cell) /\ Distinct(order)
    BY <1>1
  <2> QED
    BY <1>2, <2>1, RemovedIs
<1>4. c \notin ToSet(r)
  BY <1>3, IdleIs DEF Allocate
<1>5. order' = InsertAt(r, 1, c)
  BY <1>2, <1>3, PushIs
<1>6. \A b \in ToSet(r) : data'[b] = data[b]
  BY <1>3, <1>4, WrittenIs, SeqIs
<1>7. data'[c] = x /\ x \in Item
  BY WrittenIs, NoNull
<1>8. 1 \in 1 .. Len(r) + 1
  BY <1>3, SeqIs
<1>9. ItemsOf(InsertAt(r, 1, c), data') = InsertAt(ItemsOf(r, data), 1, data'[c])
  <2>1. Pushed(r, c, data, data')
    BY <1>1, <1>3, <1>4, <1>6 DEF Pushed
  <2> QED
    BY <2>1, ItemsPushed
<1>10. ItemsOf(r, data) = RemoveAt(ItemsOf(order, data), p)
  BY <1>1, <1>2, ItemsRemoved
<1>11. Content' = <<x>> \o RemoveAt(Content, p)
  <2>1. PICK u : u = RemoveAt(Content, p)
    OBVIOUS
  <2>2. PICK T : T = Item \cup {NULL}
    OBVIOUS
  <2>3. u \in Seq(T) /\ x \in T
    <3>1. p \in 1 .. Len(Content)
      BY <1>1
    <3> QED
      BY <1>1, <1>7, <2>1, <2>2, <3>1, RemoveAtProperties
  <2>4. <<x>> \o u = InsertAt(u, 1, x)
    BY <2>3, PushIs
  <2>5. Content' = InsertAt(u, 1, x)
    BY <1>5, <1>7, <1>9, <1>10, <2>1, ContentIs
  <2> QED
    BY <2>1, <2>4, <2>5
<1>12. p \in Nat /\ 1 <= p
  BY <1>1, SeqIs
<1>13. ASSUME Place = p PROVE Place' \in {-2} \cup DOMAIN Content'
  <2>1. looping /\ PlaceIn(order, it) = p
    BY <1>12, <1>13 DEF Place
  <2>2. it # NULL
    BY <1>1, <1>12, <2>1, PlaceIs
  <2>3. Place' = PlaceIn(order', it)
    BY <2>1 DEF Place
  <2> QED
    BY <2>2, <2>3, OrderIsNext, PlaceRange
<1>14. ASSUME Place # -2, Place # p
       PROVE  Place' = IF Place > 0 THEN (IF Place > p THEN Place - 1 ELSE Place) + 1 ELSE Place
  <2>1. CASE ~looping
    <3>1. Place = 0 /\ Place' = 0
      BY <2>1 DEF Place
    <3> QED
      BY <3>1
  <2>2. CASE looping
    <3>1. PICK q : q = PlaceIn(order, it)
      OBVIOUS
    <3>2. Place = q /\ Place' = PlaceIn(InsertAt(r, 1, c), it)
      BY <1>5, <2>2, <3>1 DEF Place
    <3>3. PlaceIn(RemoveAt(order, p), it) = IF q > p THEN q - 1 ELSE q
      BY <1>1, <1>14, <3>1, <3>2, PlaceRemoved
    <3>4. PICK u : u = PlaceIn(r, it)
      OBVIOUS
    <3>5. u = IF q > p THEN q - 1 ELSE q
      BY <1>2, <3>3, <3>4
    <3>6. q = -1 \/ q \in 1 .. Len(order)
      BY <1>1, <1>14, <3>1, <3>2, PlaceRange
    <3>7. q = -1 \/ (q \in Nat /\ 1 <= q)
      BY <1>1, <3>6, SeqIs
    <3>8. u # -2 /\ (IF u >= 1 THEN u + 1 ELSE u)
                       = IF q > 0 THEN (IF q > p THEN q - 1 ELSE q) + 1 ELSE q
      BY <1>12, <3>5, <3>7
    <3>9. PlaceIn(InsertAt(r, 1, c), it) = IF u >= 1 THEN u + 1 ELSE u
      BY <1>3, <1>4, <1>8, <3>4, <3>8, PlaceInserted
    <3> QED
      BY <3>2, <3>8, <3>9
  <2> QED
    BY <2>1, <2>2
<1>15. Sequence!SetKey(x)
  BY <1>1, <1>11, <1>13, <1>14, AnywhereIs, SequenceSetsOld
<1> QED
  BY <1>7, <1>15, SequenceNext

\* rs_tag_compound_set is SetKey.
LEMMA CompoundSetMaps ==
  ASSUME CellInv, CellInv', NEW x \in Key, NEW c \in Cell, CompoundSet(x, c)
  PROVE  Sequence!ListNext
<1>1. /\ Idle /\ Allocate(c, x, Keyed(x)) /\ order' = <<c>> \o Rest(x)
      /\ looping' = looping /\ it' = it
  BY DEF CompoundSet, LoopWithout
<1>2. order \in Seq(Cell) /\ Distinct(order) /\ Links(items, next, order)
  BY <1>1, IdleIs
<1>3. CASE /\ Keyed(x) = {} /\ Rest(x) = order
           /\ \A i \in 1 .. Len(order) : data[order[i]] # x
  BY <1>1, <1>3, CompoundSetNewMaps
<1>4. ASSUME NEW p \in 1 .. Len(order), Keyed(x) = {order[p]}, data[order[p]] = x,
             Rest(x) = RemoveAt(order, p)
      PROVE  Sequence!ListNext
  BY <1>1, <1>4, CompoundSetOldMaps
<1> QED
  BY <1>2, <1>3, <1>4, KeyedIs

\* The last step of rs_list_reverse is Turn.
LEMMA ReversedMaps ==
  ASSUME CellInv, CellInv', Reversed
  PROVE  Sequence!ListNext
<1>1. order' = Reverse(order) /\ data' = data /\ looping' = looping /\ it' = it
  BY DEF Reversed, memory, loop
<1>2. /\ order \in Seq(Cell) /\ Distinct(order) /\ data \in [Cell -> Item \cup {NULL}]
      /\ Len(Content) = Len(order)
  BY OrderIs
<1>3. ItemsOf(Reverse(order), data) = Reverse(ItemsOf(order, data))
  BY <1>2, ItemsReversed
<1>4. Content' = Reverse(Content)
  BY <1>1, <1>3, ContentIs
<1>5. ASSUME Place # -2
      PROVE  Place' = IF Place > 0 THEN Len(Content) + 1 - Place ELSE Place
  <2>1. CASE ~looping
    <3>1. Place = 0 /\ Place' = 0
      BY <1>1, <2>1 DEF Place
    <3> QED
      BY <3>1
  <2>2. CASE looping
    <3>1. Place = PlaceIn(order, it) /\ Place' = PlaceIn(Reverse(order), it)
      BY <1>1, <2>2 DEF Place
    <3>2. PICK q : q = PlaceIn(order, it)
      OBVIOUS
    <3>3. PlaceIn(Reverse(order), it) = IF q > 0 THEN Len(order) + 1 - q ELSE q
      BY <1>2, <1>5, <3>1, <3>2, PlaceReversed
    <3> QED
      BY <1>2, <3>1, <3>2, <3>3
  <2> QED
    BY <2>1, <2>2
<1>6. Sequence!Turn
  BY <1>4, <1>5, AnywhereIs, SequenceTurns
<1> QED
  BY <1>6, SequenceNext

\* rs_tag_unref of the container is Clear.
LEMMA FreeContainerMaps ==
  ASSUME CellInv, CellInv', FreeContainer
  PROVE  Sequence!ListNext
<1>1. order' = <<>> /\ looping' = looping /\ it' = it
  BY DEF FreeContainer, LoopWithout
<1>2. order \in Seq(Cell) /\ Distinct(order) /\ Len(order) \in Nat
  BY OrderIs, SeqIs
<1>3. ToSet(<<>>) = {} /\ <<>> \in Seq(Cell) /\ Distinct(<<>>)
  BY DEF ToSet, Distinct
<1>4. Content' = <<>>
  BY <1>1 DEF Content
<1>5. ASSUME Place # -2 PROVE Place' = IF Place > 0 THEN -2 ELSE Place
  <2>1. CASE ~looping
    <3>1. Place = 0 /\ Place' = 0
      BY <1>1, <2>1 DEF Place
    <3> QED
      BY <3>1
  <2>2. CASE looping
    <3>1. Place = PlaceIn(order, it) /\ Place' = PlaceIn(<<>>, it)
      BY <1>1, <2>2 DEF Place
    <3>2. CASE it = NULL
      <4>1. Place = -1 /\ Place' = -1
        BY <1>2, <1>3, <3>1, <3>2, PlaceIs
      <4> QED
        BY <4>1
    <3>3. CASE it # NULL
      <4>1. Place \in 1 .. Len(order)
        BY <1>2, <1>5, <3>1, <3>3, PlaceRange
      <4>2. Place > 0
        BY <1>2, <4>1
      <4>3. Place' = -2
        BY <1>3, <3>1, <3>3, PlaceIs
      <4> QED
        BY <4>2, <4>3
    <3> QED
      BY <3>2, <3>3
  <2> QED
    BY <2>1, <2>2
<1>6. Sequence!Clear
  BY <1>4, <1>5, AnywhereIs, SequenceClears
<1> QED
  BY <1>6, SequenceNext

\* rs_tag_list_iterator_init is Begin.
LEMMA IteratorInitMaps ==
  ASSUME CellInv, IteratorInit
  PROVE  Sequence!ListNext
<1>1. Idle /\ looping' /\ it' = items /\ order' = order /\ data' = data
  BY DEF IteratorInit, memory
<1>2. order \in Seq(Cell) /\ Distinct(order) /\ Links(items, next, order)
  BY <1>1, IdleIs
<1>3. Len(Content) = Len(order) /\ Content \in Seq(Item \cup {NULL})
  BY OrderIs
<1>4. Content' = Content
  BY <1>1, ContentIs
<1>5. Place' = PlaceIn(order, items)
  BY <1>1 DEF Place
<1>6. Content = <<>> <=> order = <<>>
  BY <1>2, <1>3, SeqIs
<1>7. Place' = IF Content = <<>> THEN -1 ELSE 1
  <2>1. CASE order = <<>>
    <3>1. items = NULL
      BY <1>2, <2>1, LinksIs
    <3> QED
      BY <1>2, <1>5, <1>6, <2>1, <3>1, PlaceIs
  <2>2. CASE order # <<>>
    <3>1. items = order[1] /\ 1 \in 1 .. Len(order)
      BY <1>2, <2>2, LinksIs, SeqIs
    <3> QED
      BY <1>2, <1>5, <1>6, <2>2, <3>1, PlaceIs
  <2> QED
    BY <2>1, <2>2
<1> QED
  BY <1>4, <1>7, SequenceLoops, SequenceNext

\* rs_tag_list_iterator_next is Advance.
LEMMA IteratorNextMaps ==
  ASSUME CellInv, IteratorNext
  PROVE  Sequence!ListNext
<1>1. /\ Idle /\ looping /\ looping' = looping /\ it \in live /\ it' = next[it]
      /\ order' = order /\ data' = data
  BY DEF IteratorNext, memory
<1>2. /\ order \in Seq(Cell) /\ Distinct(order) /\ Links(items, next, order)
      /\ live = ToSet(order)
  BY <1>1, IdleIs
<1>3. Len(Content) = Len(order)
  BY OrderIs
<1>4. Content' = Content
  BY <1>1, ContentIs
<1>5. PICK p \in 1 .. Len(order) : order[p] = it
  BY <1>1, <1>2, SeqIs
<1>6. Place = p
  BY <1>1, <1>2, <1>5, PlaceIs DEF Place
<1>7. Place' = PlaceIn(order, next[it])
  BY <1>1 DEF Place
<1>8. Len(order) \in Nat /\ p \in Nat /\ 1 <= p /\ p <= Len(order)
  BY <1>2, <1>5, SeqIs
<1>9. p # 0 /\ p # -1 /\ p # -2
  BY <1>8
<1>10. Place' = IF p = Len(order) THEN -1 ELSE p + 1
  <2>1. CASE p = Len(order)
    <3>1. order # <<>>
      BY <1>2, <1>8, <2>1, SeqIs
    <3>2. next[it] = NULL
      BY <1>2, <1>5, <2>1, <3>1, LinksIs
    <3> QED
      BY <1>2, <1>7, <2>1, <3>2, PlaceIs
  <2>2. CASE p # Len(order)
    <3>1. p < Len(order) /\ p + 1 \in 1 .. Len(order)
      BY <1>8, <2>2
    <3>2. next[it] = order[p + 1]
      BY <1>2, <1>5, <3>1, LinksIs
    <3> QED
      BY <1>2, <1>7, <2>2, <3>1, <3>2, PlaceIs
  <2> QED
    BY <2>1, <2>2
<1>11. Place' = IF Place = -1 THEN 0 ELSE IF Place = Len(Content) THEN -1 ELSE Place + 1
  BY <1>3, <1>6, <1>9, <1>10
<1>12. Sequence!Advance
  BY <1>4, <1>6, <1>9, <1>11, SequenceAdvances
<1> QED
  BY <1>12, SequenceNext

\* The end of a loop is LeaveLoop.
LEMMA IteratorEndMaps ==
  ASSUME IteratorEnd
  PROVE  Sequence!ListNext
<1>1. looping' = FALSE /\ order' = order /\ data' = data
  BY DEF IteratorEnd, LoopOver, memory
<1>2. Content' = Content /\ Place' = 0
  BY <1>1, ContentIs DEF Place
<1> QED
  BY <1>2, SequenceLoops, SequenceNext

\* The steps that change pointers only, or what is no longer in the container.
LEMMA OthersStutter ==
  ASSUME CellInv,
         \/ \E t \in Table : SetMemoryFunctions(t)
         \/ \E k \in {"list", "compound"} : New(k)
         \/ ListReverse \/ ReverseCell \/ Pop \/ Freed \/ IteratorFault
         \/ UNCHANGED vars
  PROVE  UNCHANGED Sequence!lvars
<1>1. order' = order /\ looping' = looping /\ it' = it
  BY DEF SetMemoryFunctions, New, ListReverse, ReverseCell, Pop, Freed, IteratorFault, vars, loop
<1>2. Place' = Place
  BY <1>1 DEF Place
<1>3. Content' = Content
  <2>1. CASE Pop
    <3>1. order = <<>>
      BY <2>1 DEF Pop, CellInv, InOrder
    <3> QED
      BY <1>1, <3>1 DEF Content
  <2>2. CASE ~Pop
    <3>1. data' = data
      BY <2>2 DEF SetMemoryFunctions, New, ListReverse, ReverseCell, Freed, IteratorFault, vars,
                  memory
    <3> QED
      BY <1>1, <3>1, ContentIs
  <2> QED
    BY <2>1, <2>2
<1>4. <<Content, Place>>' = <<Content, Place>>
  BY <1>2, <1>3
<1>5. Sequence!lvars' = <<Content, Place>>' /\ Sequence!lvars = <<Content, Place>>
  BY DEF Sequence!lvars, Content, Place, PlaceIn
<1> QED
  BY <1>4, <1>5

\* The first states are first states of TagList.
LEMMA InitMaps ==
  ASSUME Init
  PROVE  Sequence!ListInit
<1>1. order = <<>> /\ looping = FALSE
  BY DEF Init
<1>2. Content = <<>> /\ Place = 0
  BY <1>1 DEF Content, Place
<1>3. Sequence!ListInit <=> Content = <<>> /\ Place = 0
  BY DEF Sequence!ListInit, Sequence!NoLoop, Content, Place, PlaceIn
<1> QED
  BY <1>2, <1>3

\* Every step is one of TagList, or changes nothing there.
LEMMA NextMaps ==
  ASSUME CellInv, CellInv', [Next]_vars
  PROVE  [Sequence!ListNext]_(Sequence!lvars)
<1>1. CASE Next
  <2>1. CASE \/ \E t \in Table : SetMemoryFunctions(t)
             \/ \E k \in {"list", "compound"} : New(k)
             \/ ListReverse \/ ReverseCell \/ Pop \/ Freed \/ IteratorFault
    BY <2>1, OthersStutter
  <2>2. ASSUME NEW i \in 0 .. Cardinality(Cell), NEW x \in Tag, NEW c \in Cell,
               ListInsert(i, x, c)
        PROVE  Sequence!ListNext
    BY <2>2, ListInsertMaps
  <2>3. ASSUME NEW i \in 0 .. Cardinality(Cell), ListDelete(i) PROVE Sequence!ListNext
    BY <2>3, ListDeleteMaps
  <2>4. ASSUME NEW x \in Key, NEW c \in Cell, CompoundSet(x, c) PROVE Sequence!ListNext
    BY <2>4, CompoundSetMaps
  <2>5. ASSUME NEW x \in Key, CompoundDelete(x) PROVE Sequence!ListNext
    BY <2>5, CompoundDeleteMaps
  <2>6. ASSUME Reversed \/ FreeContainer PROVE Sequence!ListNext
    BY <2>6, ReversedMaps, FreeContainerMaps
  <2>7. ASSUME IteratorInit \/ IteratorNext \/ IteratorEnd PROVE Sequence!ListNext
    BY <2>7, IteratorInitMaps, IteratorNextMaps, IteratorEndMaps
  <2> QED
    BY <1>1, <2>1, <2>2, <2>3, <2>4, <2>5, <2>6, <2>7 DEF Next
<1>2. CASE UNCHANGED vars
  BY <1>2, OthersStutter
<1> QED
  BY <1>1, <1>2

\* Linked cells and a pointer implement what tag.h promises of lists, compounds and the
\* loops over them: the sequences of module TagList, and a place in them.
THEOREM CellsImplementLists == Spec => ListSpec
<1>1. Init => Sequence!ListInit
  BY InitMaps
<1>2. CellInv /\ CellInv' /\ [Next]_vars => [Sequence!ListNext]_(Sequence!lvars)
  BY NextMaps
<1> QED
  BY <1>1, <1>2, CellInvariant, PTL DEF Spec, ListSpec, Sequence!ListSpec
=============================================================================
