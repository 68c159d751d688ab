--------------------------- MODULE TagHeapProofs ---------------------------
(***************************************************************************)
(* Proofs about TagHeap: its invariants hold for any number of tags, keys  *)
(* and items.                                                              *)
(*                                                                         *)
(* The argument is about counts.  A reference is never made or dropped     *)
(* without the count of the tag being told, but for those that             *)
(* rs_tag_compound_delete loses; so a tag whose count comes to 0 is held   *)
(* by nobody, and freeing it leaves no pointer to it.  That every          *)
(* reference is counted needs to know, in turn, that a key occurs once in  *)
(* a compound, and that a tag still floating is held by no one.            *)
(***************************************************************************)
EXTENDS TagHeap, SequenceLemmas

\* Containers have room for their items, and nothing else has any; the client
\* waits for rs_tag_unref, and a client that has crashed is in no call.
Shape ==
    /\ TypeOK
    /\ \A t \in Tag : Len(items[t]) <= MaxItems
    /\ \A t \in Tag : type[t] \in {"free", "leaf"} => items[t] = <<>>
    /\ \A t \in Tag : type[t] = "free" => refcount[t] = 0
    /\ crashed => unrefs = <<>>

\* A tag that floats is held by no one, but that the call that frees it may be
\* under way; the count of any other is exact, and 0 for what is free.
Settled(t) == refcount[t] = Holders(t) + lost[t]
Sinking(t) ==
    /\ t \in Floating /\ lost[t] = 0
    /\ Cardinality(Calls(t)) = 1 /\ Holders(t) = 1
Counted == ~crashed => \A t \in Tag : Settled(t) \/ Sinking(t)

\* Every set of tags has one that no other of them contains.
Acyclic ==
    \A X \in SUBSET Tag : X # {} => \E t \in X : \A c \in X : t \notin Contents(c)

TagInv ==
    /\ Shape /\ Counted /\ Acyclic
    /\ NoDangling /\ ListsHomogeneous /\ KeysUnique

-----------------------------------------------------------------------------
(* Cells.                                                                  *)

\* The cells that hold t in the containers m, those outside of l, and the items
\* that hold t.
CellsOf(m, t) == {p \in Tag \X (1 .. MaxItems) :
                     p[2] \in DOMAIN m[p[1]] /\ m[p[1]][p[2]].value = t}
Beside(m, l, t) == {p \in CellsOf(m, t) : p[1] # l}
Holding(t) == {x \in Item : x.value = t}

Rows == {m \in [Tag -> Seq(Item)] : \A c \in Tag : Len(m[c]) <= MaxItems}

\* There are finitely many cells.
LEMMA CellsFinite ==
  ASSUME NEW m \in Rows, NEW t
  PROVE  IsFiniteSet(CellsOf(m, t)) /\ Cardinality(CellsOf(m, t)) \in Nat
<1>1. IsFiniteSet(1 .. MaxItems)
  BY TagAssumption, FS_Interval
<1>2. IsFiniteSet(Tag \X (1 .. MaxItems))
  BY <1>1, TagAssumption, FS_Product
<1>3. CellsOf(m, t) \subseteq Tag \X (1 .. MaxItems)
  BY DEF CellsOf
<1> QED
  BY <1>2, <1>3, FS_Subset, FS_CardinalityType

\* A tag is in some container exactly if some cell holds it.
LEMMA CellsHold ==
  ASSUME NEW m \in Rows, NEW t
  PROVE  Cardinality(CellsOf(m, t)) = 0 <=>
            \A c \in Tag : \A i \in DOMAIN m[c] : m[c][i].value # t
<1>1. Cardinality(CellsOf(m, t)) = 0 <=> CellsOf(m, t) = {}
  BY CellsFinite, FS_EmptySet
<1>2. ASSUME NEW c \in Tag, NEW i \in DOMAIN m[c], m[c][i].value = t
      PROVE  <<c, i>> \in CellsOf(m, t)
  <2>1. Len(m[c]) \in Nat /\ DOMAIN m[c] = 1 .. Len(m[c]) /\ Len(m[c]) <= MaxItems
    BY DEF Rows
  <2>2. i \in 1 .. MaxItems
    BY <2>1, TagAssumption
  <2> QED
    BY <1>2, <2>2 DEF CellsOf
<1>3. ASSUME NEW p \in CellsOf(m, t)
      PROVE  p[1] \in Tag /\ p[2] \in DOMAIN m[p[1]] /\ m[p[1]][p[2]].value = t
  BY DEF CellsOf
<1> QED
  BY <1>1, <1>2, <1>3

\* The cells that hold t are those in l and those beside.
LEMMA CellsSplit ==
  ASSUME NEW m \in Rows, NEW l \in Tag, NEW t
  PROVE  /\ Occurs(m[l], Holding(t)) \in Nat
         /\ Cardinality(Beside(m, l, t)) \in Nat
         /\ Cardinality(CellsOf(m, t)) =
               Cardinality(Beside(m, l, t)) + Occurs(m[l], Holding(t))
<1> DEFINE inside == {p \in CellsOf(m, t) : p[1] = l}
           f == [i \in Places(m[l], Holding(t)) |-> <<l, i>>]
<1>1. IsFiniteSet(CellsOf(m, t))
  BY CellsFinite
<1>2. IsFiniteSet(inside) /\ IsFiniteSet(Beside(m, l, t))
      /\ Cardinality(Beside(m, l, t)) \in Nat
  BY <1>1, FS_Subset, FS_CardinalityType DEF Beside
<1>3. CellsOf(m, t) = Beside(m, l, t) \cup inside /\ Beside(m, l, t) \cap inside = {}
  BY DEF Beside
<1>4. Cardinality(CellsOf(m, t)) = Cardinality(Beside(m, l, t)) + Cardinality(inside)
  <2> HIDE DEF inside
  <2> QED
    BY <1>2, <1>3, DisjointUnion
<1>5. /\ m[l] \in Seq(Item) /\ Len(m[l]) \in Nat /\ DOMAIN m[l] = 1 .. Len(m[l])
      /\ Len(m[l]) <= MaxItems /\ \A i \in DOMAIN m[l] : m[l][i] \in Item
  BY DEF Rows
<1>6. IsFiniteSet(Places(m[l], Holding(t))) /\ Occurs(m[l], Holding(t)) \in Nat
  BY <1>5, PlacesFinite
<1>7. f \in [Places(m[l], Holding(t)) -> inside]
  <2> SUFFICES ASSUME NEW i \in Places(m[l], Holding(t)) PROVE <<l, i>> \in inside
    OBVIOUS
  <2>1. i \in DOMAIN m[l] /\ m[l][i].value = t
    BY DEF Places, Holding
  <2>2. i \in 1 .. MaxItems
    BY <1>5, <2>1, TagAssumption
  <2> QED
    BY <2>1, <2>2 DEF CellsOf
<1>8. \A a, b \in Places(m[l], Holding(t)) : f[a] = f[b] => a = b
  OBVIOUS
<1>9. ASSUME NEW p \in inside PROVE \E i \in Places(m[l], Holding(t)) : f[i] = p
  <2>1. p \in Tag \X (1 .. MaxItems) /\ p[1] = l
        /\ p[2] \in DOMAIN m[l] /\ m[l][p[2]].value = t
    BY DEF CellsOf
  <2>2. p[2] \in Places(m[l], Holding(t))
    BY <1>5, <2>1 DEF Places, Holding
  <2>3. p = <<l, p[2]>>
    BY <2>1
  <2> QED
    BY <2>2, <2>3
<1>10. Cardinality(inside) = Occurs(m[l], Holding(t))
  <2> HIDE DEF inside, f
  <2> QED
    BY <1>6, <1>7, <1>8, <1>9, BijectionCounts DEF Occurs
<1> QED
  BY <1>2, <1>4, <1>6, <1>10

\* When one container changes, the cells that hold t are fewer by those it had and
\* more by those it has.
LEMMA CellsChange ==
  ASSUME NEW m \in Rows, NEW n \in Rows, NEW l \in Tag, NEW t,
         \A c \in Tag \ {l} : n[c] = m[c]
  PROVE  /\ Occurs(m[l], Holding(t)) \in Nat /\ Occurs(n[l], Holding(t)) \in Nat
         /\ Occurs(m[l], Holding(t)) <= Cardinality(CellsOf(m, t))
         /\ Cardinality(CellsOf(n, t)) =
               Cardinality(CellsOf(m, t)) - Occurs(m[l], Holding(t))
                  + Occurs(n[l], Holding(t))
<1>1. Beside(n, l, t) = Beside(m, l, t)
  BY DEF Beside, CellsOf
<1>2. /\ Occurs(m[l], Holding(t)) \in Nat /\ Cardinality(Beside(m, l, t)) \in Nat
      /\ Cardinality(CellsOf(m, t)) =
            Cardinality(Beside(m, l, t)) + Occurs(m[l], Holding(t))
  BY CellsSplit
<1>3. /\ Occurs(n[l], Holding(t)) \in Nat
      /\ Cardinality(CellsOf(n, t)) =
            Cardinality(Beside(n, l, t)) + Occurs(n[l], Holding(t))
  BY CellsSplit
<1> QED
  BY <1>1, <1>2, <1>3

-----------------------------------------------------------------------------
(* What can be reached.                                                    *)

\* What is in S is within S, and so is what that contains.
LEMMA WithinHas ==
  ASSUME NEW S \in SUBSET Tag
  PROVE  /\ S \subseteq Within(S) /\ Within(S) \subseteq Tag
         /\ \A t \in Within(S) : Contents(t) \cap Tag \subseteq Within(S)
  BY DEF Within, Closed

\* Whatever is closed and has S has all that is within S.
LEMMA WithinLeast ==
  ASSUME NEW S, NEW C \in SUBSET Tag, S \subseteq C, Closed(C)
  PROVE  Within(S) \subseteq C
  BY DEF Within

\* The contents of a tag are the values of its items.
LEMMA ContentsAre ==
  ASSUME Shape, NEW t \in Tag
  PROVE  /\ Contents(t) \subseteq Tag
         /\ items[t] \in Seq(Item) /\ Len(items[t]) \in Nat
         /\ DOMAIN items[t] = 1 .. Len(items[t])
         /\ \A i \in DOMAIN items[t] : items[t][i] \in Item /\ items[t][i].value \in Tag
<1>1. items[t] \in Seq(Item)
  BY DEF Shape, TypeOK
<1>2. /\ Len(items[t]) \in Nat /\ DOMAIN items[t] = 1 .. Len(items[t])
      /\ \A i \in DOMAIN items[t] : items[t][i] \in Item
  BY <1>1
<1>3. \A x \in Item : x.value \in Tag
  BY DEF Item
<1> QED
  BY <1>1, <1>2, <1>3 DEF Contents

\* A client can only use what is there.
LEMMA UsableLive ==
  ASSUME Shape, NoDangling
  PROVE  Usable \subseteq Live
<1>1. Live \in SUBSET Tag /\ Closed(Live)
  BY DEF NoDangling, Live, Closed
<1>2. Floating \cup {t \in Tag : owned[t] > 0} \cup ({root} \ {Nil}) \subseteq Live
  BY DEF NoDangling, Floating
<1> QED
  BY <1>1, <1>2, WithinLeast DEF Usable

\* A tag that contains nothing is no container of a tag.
LEMMA ContainersLive ==
  ASSUME Shape, NEW c \in Tag, NEW t \in Contents(c)
  PROVE  c \in Live
  BY DEF Shape, Contents, Live

\* Taking things out makes no cycle.
LEMMA AcyclicLess ==
  ASSUME Acyclic, \A c \in Tag : Contents(c)' \subseteq Contents(c)
  PROVE  Acyclic'
<1> SUFFICES ASSUME NEW X \in SUBSET Tag, X # {}
             PROVE  \E t \in X : \A c \in X : t \notin Contents(c)'
  BY DEF Acyclic
<1>1. PICK t \in X : \A c \in X : t \notin Contents(c)
  BY DEF Acyclic
<1> QED
  BY <1>1

\* Nor does putting v into a container that is not within v: of a set of tags that
\* the container is in, one that is not within v is contained in no other.
LEMMA AcyclicMore ==
  ASSUME Shape, Acyclic, NEW c \in Tag, NEW v \in Tag, c \notin Within({v}),
         \A d \in Tag : Contents(d)' \subseteq
            IF d = c THEN Contents(d) \cup {v} ELSE Contents(d)
  PROVE  Acyclic'
<1> SUFFICES ASSUME NEW X \in SUBSET Tag, X # {}
             PROVE  \E t \in X : \A d \in X : t \notin Contents(d)'
  BY DEF Acyclic
<1>1. CASE c \notin X
  <2>1. PICK t \in X : \A d \in X : t \notin Contents(d)
    BY DEF Acyclic
  <2> QED
    BY <1>1, <2>1
<1>2. CASE c \in X
  <2> DEFINE W == Within({v})
             Y == X \ W
  <2>1. /\ v \in W /\ \A t \in W : Contents(t) \cap Tag \subseteq W
    BY WithinHas
  <2>2. Y \in SUBSET Tag /\ Y # {}
    BY <1>2
  <2>3. PICK t \in Y : \A d \in Y : t \notin Contents(d)
    BY <2>2 DEF Acyclic
  <2>4. ASSUME NEW d \in X PROVE t \notin Contents(d)'
    <3>1. t \notin Contents(d)
      BY <2>1, <2>3
    <3>2. t # v
      BY <2>1, <2>3
    <3> QED
      BY <3>1, <3>2
  <2> QED
    BY <2>3, <2>4
<1> QED
  BY <1>1, <1>2

-----------------------------------------------------------------------------
(* Numbers.                                                                *)

\* Before and after a step, the cells and the calls as the lemmas count them.
LEMMA Numbers ==
  ASSUME Shape, Shape', NEW t \in Tag
  PROVE  /\ items \in Rows /\ items' \in Rows
         /\ Cardinality(Cells(t)) = Cardinality(CellsOf(items, t))
         /\ Cardinality(Cells(t)) \in Nat
         /\ Cardinality(Cells(t))' = Cardinality(CellsOf(items', t))
         /\ Cardinality(Cells(t))' \in Nat
         /\ Cardinality(Calls(t)) = Occurs(unrefs, {t})
         /\ Cardinality(Calls(t)) \in Nat
         /\ Cardinality(Calls(t))' = Occurs(unrefs', {t})
         /\ Cardinality(Calls(t))' \in Nat
         /\ {refcount[t], owned[t], lost[t]} \subseteq Nat
         /\ {refcount'[t], owned'[t], lost'[t]} \subseteq Nat
<1>1. items \in Rows /\ items' \in Rows
  BY DEF Shape, TypeOK, Rows
<1>2. Cells(t) = CellsOf(items, t) /\ Cells(t)' = CellsOf(items', t)
  BY DEF Cells, CellsOf
<1>3. Calls(t) = Places(unrefs, {t}) /\ Calls(t)' = Places(unrefs', {t})
  BY DEF Calls, Places
<1>4. unrefs \in Seq(Tag) /\ unrefs' \in Seq(Tag)
  BY DEF Shape, TypeOK
<1>5. Occurs(unrefs, {t}) \in Nat /\ Occurs(unrefs', {t}) \in Nat
  BY <1>4, PlacesFinite
<1>6. Cardinality(CellsOf(items, t)) \in Nat /\ Cardinality(CellsOf(items', t)) \in Nat
  BY <1>1, CellsFinite
<1>7. /\ {refcount[t], owned[t], lost[t]} \subseteq Nat
      /\ {refcount'[t], owned'[t], lost'[t]} \subseteq Nat
  BY DEF Shape, TypeOK
<1> QED
  BY <1>1, <1>2, <1>3, <1>5, <1>6, <1>7 DEF Occurs

\* The values in a container are as many as its items that hold them.
LEMMA ChildrenAre ==
  ASSUME Shape, NEW l \in Tag, NEW t
  PROVE  /\ Children(l) \in Seq(Tag) /\ Len(Children(l)) = Len(items[l])
         /\ \A i \in DOMAIN Children(l) : Children(l)[i] \in Contents(l)
         /\ Occurs(Children(l), {t}) = Occurs(items[l], Holding(t))
<1>1. /\ items[l] \in Seq(Item) /\ Len(items[l]) \in Nat
      /\ DOMAIN items[l] = 1 .. Len(items[l])
      /\ \A i \in DOMAIN items[l] : items[l][i] \in Item /\ items[l][i].value \in Tag
  BY ContentsAre
<1>2. Children(l) \in [1 .. Len(items[l]) -> Tag]
  BY <1>1 DEF Children
<1>3. Children(l) \in Seq(Tag) /\ Len(Children(l)) = Len(items[l])
  BY <1>1, <1>2
<1>4. Places(Children(l), {t}) = Places(items[l], Holding(t))
  BY <1>1 DEF Places, Holding, Children
<1> QED
  BY <1>1, <1>3, <1>4 DEF Occurs, Children, Contents

-----------------------------------------------------------------------------
(* The items of a compound without a key.                                  *)

\* The cells that have the key are places in the compound, and Min is the first.
LEMMA KeyedFirst ==
  ASSUME Shape, NEW c \in Tag, NEW k, Keyed(c, k) # {}
  PROVE  /\ Min(Keyed(c, k)) \in 1 .. Len(items[c])
         /\ items[c][Min(Keyed(c, k))].key = k
<1>1. DOMAIN items[c] = 1 .. Len(items[c]) /\ Len(items[c]) \in Nat
  BY ContentsAre
<1>2. Keyed(c, k) \in SUBSET Nat
  BY <1>1 DEF Keyed
<1>3. Min(Keyed(c, k)) \in Keyed(c, k)
  BY <1>2, MinProperties
<1> QED
  BY <1>1, <1>3 DEF Keyed

\* Without a key the compound is a sequence of items it had.
LEMMA WithoutKeyItems ==
  ASSUME Shape, NEW c \in Tag, NEW k
  PROVE  /\ WithoutKey(c, k) \in Seq(Item)
         /\ Len(WithoutKey(c, k)) \in Nat /\ Len(WithoutKey(c, k)) <= Len(items[c])
         /\ DOMAIN WithoutKey(c, k) = 1 .. Len(WithoutKey(c, k))
         /\ \A i \in DOMAIN WithoutKey(c, k) :
               \E j \in DOMAIN items[c] : WithoutKey(c, k)[i] = items[c][j]
<1>1. /\ items[c] \in Seq(Item) /\ Len(items[c]) \in Nat
      /\ DOMAIN items[c] = 1 .. Len(items[c])
  BY ContentsAre
<1>2. CASE Keyed(c, k) = {}
  BY <1>1, <1>2 DEF WithoutKey
<1>3. CASE Keyed(c, k) # {}
  <2>1. PICK p \in 1 .. Len(items[c]) : p = Min(Keyed(c, k))
    BY <1>3, KeyedFirst
  <2>2. PICK r \in Seq(Item) :
        /\ r = WithoutKey(c, k) /\ Len(r) = Len(items[c]) - 1
        /\ \A i \in 1 .. p - 1 : r[i] = items[c][i]
        /\ \A i \in p .. Len(items[c]) - 1 : r[i] = items[c][i + 1]
    <3>1. WithoutKey(c, k) = RemoveAt(items[c], p)
      BY <1>3, <2>1 DEF WithoutKey
    <3>2. /\ RemoveAt(items[c], p) \in Seq(Item)
          /\ Len(RemoveAt(items[c], p)) = Len(items[c]) - 1
          /\ \A i \in 1 .. p - 1 : RemoveAt(items[c], p)[i] = items[c][i]
          /\ \A i \in p .. Len(items[c]) - 1 : RemoveAt(items[c], p)[i] = items[c][i + 1]
      BY <1>1, RemoveAtProperties
    <3> QED
      BY <3>1, <3>2
  <2>4. DOMAIN r = 1 .. Len(items[c]) - 1 /\ Len(r) \in Nat /\ Len(r) <= Len(items[c])
    BY <1>1, <2>1, <2>2
  <2>5. ASSUME NEW i \in DOMAIN r PROVE \E j \in DOMAIN items[c] : r[i] = items[c][j]
    <3>1. i \in DOMAIN items[c] /\ i + 1 \in DOMAIN items[c]
      BY <1>1, <2>4
    <3>2. r[i] = items[c][i] \/ r[i] = items[c][i + 1]
      <4>1. i \in 1 .. p - 1 \/ i \in p .. Len(items[c]) - 1
        BY <1>1, <2>4
      <4> QED
        BY <2>2, <4>1
    <3> QED
      BY <3>1, <3>2
  <2> QED
    BY <2>2, <2>4, <2>5
<1> QED
  BY <1>2, <1>3

\* If keys are unique, they still are, and the key is gone.
LEMMA WithoutKeyUnique ==
  ASSUME Shape, NEW c \in Tag, NEW k,
         \A i, j \in DOMAIN items[c] : items[c][i].key = items[c][j].key => i = j
  PROVE  /\ \A i \in DOMAIN WithoutKey(c, k) : WithoutKey(c, k)[i].key # k
         /\ \A i, j \in DOMAIN WithoutKey(c, k) :
               WithoutKey(c, k)[i].key = WithoutKey(c, k)[j].key => i = j
<1>1. /\ items[c] \in Seq(Item) /\ Len(items[c]) \in Nat
      /\ DOMAIN items[c] = 1 .. Len(items[c])
  BY ContentsAre
<1>2. CASE Keyed(c, k) = {}
  BY <1>1, <1>2 DEF WithoutKey, Keyed
<1>3. CASE Keyed(c, k) # {}
  <2>1. PICK p \in 1 .. Len(items[c]) : p = Min(Keyed(c, k)) /\ items[c][p].key = k
    BY <1>3, KeyedFirst
  <2> DEFINE from(i) == IF i < p THEN i ELSE i + 1
  <2>2. PICK r \in Seq(Item) :
        /\ r = WithoutKey(c, k) /\ Len(r) = Len(items[c]) - 1
        /\ \A i \in 1 .. p - 1 : r[i] = items[c][i]
        /\ \A i \in p .. Len(items[c]) - 1 : r[i] = items[c][i + 1]
    <3>1. WithoutKey(c, k) = RemoveAt(items[c], p)
      BY <1>3, <2>1 DEF WithoutKey
    <3>2. /\ RemoveAt(items[c], p) \in Seq(Item)
          /\ Len(RemoveAt(items[c], p)) = Len(items[c]) - 1
          /\ \A i \in 1 .. p - 1 : RemoveAt(items[c], p)[i] = items[c][i]
          /\ \A i \in p .. Len(items[c]) - 1 : RemoveAt(items[c], p)[i] = items[c][i + 1]
      BY <1>1, RemoveAtProperties
    <3> QED
      BY <3>1, <3>2
  <2>4. DOMAIN r = 1 .. Len(items[c]) - 1
    BY <1>1, <2>1, <2>2
  <2>5. ASSUME NEW i \in DOMAIN r
        PROVE  from(i) \in DOMAIN items[c] /\ from(i) # p /\ r[i] = items[c][from(i)]
    BY <1>1, <2>1, <2>2, <2>4, SMTT(30)
  <2>6. ASSUME NEW i \in DOMAIN r, NEW j \in DOMAIN r, from(i) = from(j) PROVE i = j
    BY <1>1, <2>1, <2>4, <2>6
  <2> HIDE DEF from
  <2>7. p \in DOMAIN items[c]
    BY <1>1, <2>1
  <2>8. \A i \in DOMAIN r : r[i].key # k
    BY <2>1, <2>5, <2>7
  <2>9. \A i, j \in DOMAIN r : r[i].key = r[j].key => i = j
    BY <2>5, <2>6
  <2> QED
    BY <2>2, <2>8, <2>9
<1> QED
  BY <1>2, <1>3

\* And each tag that was the value of the key is held once less.
LEMMA WithoutKeyCounts ==
  ASSUME Shape, NEW c \in Tag, NEW k, NEW t,
         \A i, j \in DOMAIN items[c] : items[c][i].key = items[c][j].key => i = j
  PROVE  Occurs(WithoutKey(c, k), Holding(t)) = Occurs(items[c], Holding(t)) -
            (IF \E i \in Keyed(c, k) : items[c][i].value = t THEN 1 ELSE 0)
<1>1. /\ items[c] \in Seq(Item) /\ Len(items[c]) \in Nat
      /\ DOMAIN items[c] = 1 .. Len(items[c])
      /\ \A i \in DOMAIN items[c] : items[c][i] \in Item
  BY ContentsAre
<1>2. Occurs(items[c], Holding(t)) \in Nat
  BY <1>1, PlacesFinite
<1>3. CASE Keyed(c, k) = {}
  BY <1>2, <1>3 DEF WithoutKey
<1>4. CASE Keyed(c, k) # {}
  <2>1. PICK p \in 1 .. Len(items[c]) : p = Min(Keyed(c, k)) /\ items[c][p].key = k
    BY <1>4, KeyedFirst
  <2>2. WithoutKey(c, k) = RemoveAt(items[c], p)
    BY <1>4, <2>1 DEF WithoutKey
  <2>3. Keyed(c, k) = {p}
    BY <1>1, <2>1 DEF Keyed
  <2>4. items[c][p] \in Holding(t) <=> \E i \in Keyed(c, k) : items[c][i].value = t
    BY <1>1, <2>1, <2>3 DEF Holding
  <2>5. Occurs(RemoveAt(items[c], p), Holding(t)) =
           Occurs(items[c], Holding(t)) - (IF items[c][p] \in Holding(t) THEN 1 ELSE 0)
    BY <1>1, <2>1, RemoveAtOccurs
  <2> QED
    BY <2>2, <2>4, <2>5
<1> QED
  BY <1>3, <1>4

-----------------------------------------------------------------------------
(* What the actions do to the items of a container.                        *)

\* How often t is the value of key k in c, if keys are unique.
Keeping(c, k, t) == IF \E i \in Keyed(c, k) : items[c][i].value = t THEN 1 ELSE 0

\* A sequence takes the place of the items of l.
LEMMA ItemsReplaced ==
  ASSUME Shape, NEW l \in Tag, NEW s \in Seq(Item), Len(s) <= MaxItems,
         items' = [items EXCEPT ![l] = s]
  PROVE  /\ items' \in [Tag -> Seq(Item)] /\ items'[l] = s
         /\ \A t \in Tag : Len(items'[t]) <= MaxItems
         /\ \A t \in Tag \ {l} : items'[t] = items[t] /\ Contents(t)' = Contents(t)
         /\ Contents(l)' = {s[i].value : i \in DOMAIN s}
  BY DEF Shape, TypeOK, Contents

\* The list has v once more, and what it had.
LEMMA ListInsertItems ==
  ASSUME Shape, NEW l \in Tag, NEW v \in Tag, NEW i \in 0 .. MaxItems, ListInsert(l, i, v)
  PROVE  /\ items' \in [Tag -> Seq(Item)] /\ \A t \in Tag : Len(items'[t]) <= MaxItems
         /\ \A t \in Tag \ {l} : items'[t] = items[t] /\ Contents(t)' = Contents(t)
         /\ Contents(l)' \subseteq Contents(l) \cup {v}
         /\ \A t : Occurs(items'[l], Holding(t)) =
                      Occurs(items[l], Holding(t)) + (IF v = t THEN 1 ELSE 0)
<1>1. /\ items[l] \in Seq(Item) /\ Len(items[l]) \in Nat
      /\ DOMAIN items[l] = 1 .. Len(items[l]) /\ Len(items[l]) < MaxItems
  BY ContentsAre DEF ListInsert, MayTake
<1>2. PICK x \in Item : x = [key |-> Nil, value |-> v]
  BY DEF Item
<1>3. PICK p \in 1 .. Len(items[l]) + 1 :
        items' = [items EXCEPT ![l] = InsertAt(items[l], p, x)]
  <2>1. (IF i < Len(items[l]) THEN i + 1 ELSE Len(items[l]) + 1) \in 1 .. Len(items[l]) + 1
    BY <1>1, TagAssumption
  <2>2. items' = [items EXCEPT ![l] = InsertAt(items[l],
                     IF i < Len(items[l]) THEN i + 1 ELSE Len(items[l]) + 1, x)]
    BY <1>2 DEF ListInsert, Shape, TypeOK
  <2> QED
    BY <2>1, <2>2
<1>4. PICK s \in Seq(Item) :
        /\ s = InsertAt(items[l], p, x) /\ Len(s) = Len(items[l]) + 1
        /\ \A X : Occurs(s, X) = Occurs(items[l], X) + (IF x \in X THEN 1 ELSE 0)
  <2>0. items[l] \in Seq(Item) /\ p \in 1 .. Len(items[l]) + 1 /\ x \in Item
    BY <1>1, <1>2, <1>3
  <2>1. /\ InsertAt(items[l], p, x) \in Seq(Item)
        /\ Len(InsertAt(items[l], p, x)) = Len(items[l]) + 1
    <3>1. PICK u \in Seq(Item) : u = items[l]
      BY <2>0
    <3>2. p \in 1 .. Len(u) + 1
      BY <2>0, <3>1
    <3>3. InsertAt(u, p, x) \in Seq(Item)
      BY <3>2, InsertAtProperties
    <3>4. Len(InsertAt(u, p, x)) = Len(u) + 1
      BY <3>2, InsertAtProperties
    <3> QED
      BY <3>1, <3>3, <3>4
  <2>2. ASSUME NEW X
        PROVE  Occurs(InsertAt(items[l], p, x), X) =
                  Occurs(items[l], X) + (IF x \in X THEN 1 ELSE 0)
    BY <2>0, InsertAtOccurs
  <2> QED
    BY <2>1, <2>2
<1>5. ASSUME NEW j \in 1 .. Len(s)
      PROVE  s[j] = x \/ \E h \in DOMAIN items[l] : s[j] = items[l][h]
  <2>0. items[l] \in Seq(Item) /\ p \in 1 .. Len(items[l]) + 1 /\ x \in Item
    BY <1>1, <1>2, <1>3
  <2>1. CASE j = p
    BY <1>4, <2>0, <2>1, InsertAtProperties
  <2>2. CASE j # p
    <3>1. PICK h \in 1 .. Len(items[l]) : j = IF h < p THEN h ELSE h + 1
      <4>1. CASE j < p
        BY <1>1, <1>4, <2>0, <4>1
      <4>2. CASE j > p
        <5>1. /\ j - 1 \in 1 .. Len(items[l])
              /\ j = IF j - 1 < p THEN j - 1 ELSE (j - 1) + 1
          BY <1>1, <1>4, <2>0, <4>2
        <5> QED
          BY <5>1
      <4> QED
        BY <2>0, <2>2, <4>1, <4>2
    <3>2. InsertAt(items[l], p, x)[IF h < p THEN h ELSE h + 1] = items[l][h]
      BY <2>0, <3>1, InsertAtPlace
    <3> QED
      BY <1>1, <1>4, <3>1, <3>2
  <2> QED
    BY <2>1, <2>2
<1>6. Len(s) <= MaxItems /\ DOMAIN s = 1 .. Len(items[l]) + 1
  BY <1>1, <1>4, TagAssumption
<1>7. ASSUME NEW j \in DOMAIN s PROVE s[j].value \in Contents(l) \cup {v}
  <2>1. j \in 1 .. Len(s)
    BY <1>4, <1>6
  <2> QED
    BY <1>2, <1>5, <2>1 DEF Contents
<1>8. ASSUME NEW t
      PROVE Occurs(s, Holding(t)) = Occurs(items[l], Holding(t)) + (IF v = t THEN 1 ELSE 0)
  <2>1. x \in Holding(t) <=> v = t
    BY <1>2 DEF Holding
  <2>2. Occurs(s, Holding(t)) =
           Occurs(items[l], Holding(t)) + (IF x \in Holding(t) THEN 1 ELSE 0)
    BY <1>4
  <2> QED
    BY <2>1, <2>2
<1>9. /\ items' \in [Tag -> Seq(Item)] /\ items'[l] = s
      /\ \A t \in Tag : Len(items'[t]) <= MaxItems
      /\ \A t \in Tag \ {l} : items'[t] = items[t] /\ Contents(t)' = Contents(t)
      /\ Contents(l)' = {s[j].value : j \in DOMAIN s}
  BY <1>3, <1>4, <1>6, ItemsReplaced
<1> QED
  BY <1>7, <1>8, <1>9

\* The list has the deleted tag once less, and nothing new.
LEMMA ListDeleteItems ==
  ASSUME Shape, NEW l \in Tag, NEW i \in 0 .. MaxItems - 1, ListDelete(l, i)
  PROVE  /\ items' \in [Tag -> Seq(Item)] /\ \A t \in Tag : Len(items'[t]) <= MaxItems
         /\ \A t \in Tag \ {l} : items'[t] = items[t] /\ Contents(t)' = Contents(t)
         /\ Contents(l)' \subseteq Contents(l)
         /\ items[l][i + 1].value \in Contents(l)
         /\ \A t : Occurs(items'[l], Holding(t)) = Occurs(items[l], Holding(t)) -
                      (IF items[l][i + 1].value = t THEN 1 ELSE 0)
<1>1. /\ items[l] \in Seq(Item) /\ Len(items[l]) \in Nat
      /\ DOMAIN items[l] = 1 .. Len(items[l])
      /\ \A j \in DOMAIN items[l] : items[l][j] \in Item
      /\ Len(items[l]) <= MaxItems
  BY ContentsAre DEF Shape
<1>2. PICK p \in 1 .. Len(items[l]) : p = i + 1
  BY <1>1, TagAssumption DEF ListDelete
<1>3. PICK s \in Seq(Item) : s = RemoveAt(items[l], p) /\ Len(s) = Len(items[l]) - 1
  BY <1>1, RemoveAtProperties
<1>4. /\ \A j \in 1 .. p - 1 : s[j] = items[l][j]
      /\ \A j \in p .. Len(items[l]) - 1 : s[j] = items[l][j + 1]
  BY <1>1, <1>3, RemoveAtProperties
<1>5. Len(s) <= MaxItems /\ DOMAIN s = 1 .. Len(items[l]) - 1
  BY <1>1, <1>3, TagAssumption
<1>6. ASSUME NEW j \in DOMAIN s PROVE s[j].value \in Contents(l)
  <2>1. j \in DOMAIN items[l] /\ j + 1 \in DOMAIN items[l]
    BY <1>1, <1>5
  <2>2. j \in 1 .. p - 1 \/ j \in p .. Len(items[l]) - 1
    BY <1>1, <1>5
  <2> QED
    BY <1>4, <2>1, <2>2 DEF Contents
<1>7. ASSUME NEW t
      PROVE Occurs(s, Holding(t)) = Occurs(items[l], Holding(t)) -
               (IF items[l][p].value = t THEN 1 ELSE 0)
  <2>1. items[l][p] \in Holding(t) <=> items[l][p].value = t
    BY <1>1 DEF Holding
  <2>2. Occurs(s, Holding(t)) =
           Occurs(items[l], Holding(t)) - (IF items[l][p] \in Holding(t) THEN 1 ELSE 0)
    BY <1>1, <1>3, RemoveAtOccurs
  <2> QED
    BY <2>1, <2>2
<1>8. items[l][p].value \in Contents(l)
  BY <1>1 DEF Contents
<1>9. items' = [items EXCEPT ![l] = s]
  BY <1>2, <1>3 DEF ListDelete, Shape, TypeOK
<1>10. /\ items' \in [Tag -> Seq(Item)] /\ items'[l] = s
       /\ \A t \in Tag : Len(items'[t]) <= MaxItems
       /\ \A t \in Tag \ {l} : items'[t] = items[t] /\ Contents(t)' = Contents(t)
       /\ Contents(l)' = {s[j].value : j \in DOMAIN s}
  BY <1>5, <1>9, ItemsReplaced
<1> QED
  BY <1>2, <1>6, <1>7, <1>8, <1>10

\* The list has every tag as often as before.
LEMMA ListReverseItems ==
  ASSUME Shape, NEW l \in Tag, ListReverse(l)
  PROVE  /\ items' \in [Tag -> Seq(Item)] /\ \A t \in Tag : Len(items'[t]) <= MaxItems
         /\ \A t \in Tag \ {l} : items'[t] = items[t] /\ Contents(t)' = Contents(t)
         /\ Contents(l)' \subseteq Contents(l)
         /\ \A t : Occurs(items'[l], Holding(t)) = Occurs(items[l], Holding(t))
<1>1. /\ items[l] \in Seq(Item) /\ Len(items[l]) \in Nat
      /\ DOMAIN items[l] = 1 .. Len(items[l]) /\ Len(items[l]) <= MaxItems
  BY ContentsAre DEF Shape
<1>2. PICK s \in Seq(Item) : s = Reverse(items[l]) /\ Len(s) = Len(items[l])
  BY <1>1, OccursReverse
<1>3. ASSUME NEW j \in DOMAIN s PROVE s[j].value \in Contents(l)
  <2>1. j \in 1 .. Len(items[l]) /\ s[j] = items[l][(Len(items[l]) - j) + 1]
    BY <1>1, <1>2 DEF Reverse
  <2>2. (Len(items[l]) - j) + 1 \in DOMAIN items[l]
    BY <1>1, <2>1
  <2> QED
    BY <2>1, <2>2 DEF Contents
<1>4. \A t : Occurs(s, Holding(t)) = Occurs(items[l], Holding(t))
  BY <1>1, <1>2, OccursReverse
<1>5. items' = [items EXCEPT ![l] = s]
  BY <1>2 DEF ListReverse, Shape, TypeOK
<1>6. /\ items' \in [Tag -> Seq(Item)] /\ items'[l] = s
      /\ \A t \in Tag : Len(items'[t]) <= MaxItems
      /\ \A t \in Tag \ {l} : items'[t] = items[t] /\ Contents(t)' = Contents(t)
      /\ Contents(l)' = {s[j].value : j \in DOMAIN s}
  BY <1>1, <1>2, <1>5, ItemsReplaced
<1> QED
  BY <1>3, <1>4, <1>6

\* The keys in a sequence of items differ.
KeysDiffer(s) == \A i, j \in DOMAIN s : s[i].key = s[j].key => i = j

\* A compound that is in use has each key once.
LEMMA CompoundKeys ==
  ASSUME Shape, NoDangling, KeysUnique, NEW c \in Usable, type[c] = "compound"
  PROVE  c \in Live /\ KeysDiffer(items[c])
  BY UsableLive DEF KeysUnique, KeysDiffer

\* What is lost is counted.
LEMMA LoseCounts ==
  ASSUME Shape, NEW c \in Tag, NEW k, Lose(c, k), NEW t \in Tag
  PROVE  /\ lost' \in [Tag -> Nat] /\ lost'[t] = lost[t] + Keeping(c, k, t)
         /\ Keeping(c, k, t) \in {0, 1}
<1>1. lost \in [Tag -> Nat]
  BY DEF Shape, TypeOK
<1>2. lost' = [u \in Tag |-> IF \E i \in Keyed(c, k) : items[c][i].value = u
                             THEN lost[u] + 1 ELSE lost[u]]
  BY DEF Lose
<1> QED
  BY <1>1, <1>2 DEF Keeping

\* Each key of the compound still differs, and the value of the deleted one is held
\* once less.
LEMMA CompoundDeleteItems ==
  ASSUME Shape, NEW c \in Tag, NEW k, KeysDiffer(items[c]),
         items' = [items EXCEPT ![c] = WithoutKey(c, k)]
  PROVE  /\ items' \in [Tag -> Seq(Item)] /\ \A t \in Tag : Len(items'[t]) <= MaxItems
         /\ \A t \in Tag \ {c} : items'[t] = items[t] /\ Contents(t)' = Contents(t)
         /\ Contents(c)' \subseteq Contents(c)
         /\ KeysDiffer(items'[c])
         /\ \A t : Occurs(items'[c], Holding(t)) =
                      Occurs(items[c], Holding(t)) - Keeping(c, k, t)
<1>1. Len(items[c]) \in Nat /\ Len(items[c]) <= MaxItems
  BY ContentsAre DEF Shape
<1>2. PICK s \in Seq(Item) :
        /\ s = WithoutKey(c, k) /\ Len(s) <= MaxItems
        /\ \A i \in DOMAIN s : \E j \in DOMAIN items[c] : s[i] = items[c][j]
  BY <1>1, WithoutKeyItems, TagAssumption
<1>3. KeysDiffer(s)
  BY <1>2, WithoutKeyUnique DEF KeysDiffer
<1>4. ASSUME NEW t
      PROVE  Occurs(s, Holding(t)) = Occurs(items[c], Holding(t)) - Keeping(c, k, t)
  BY <1>2, WithoutKeyCounts DEF KeysDiffer, Keeping
<1>5. /\ items' \in [Tag -> Seq(Item)] /\ items'[c] = s
      /\ \A t \in Tag : Len(items'[t]) <= MaxItems
      /\ \A t \in Tag \ {c} : items'[t] = items[t] /\ Contents(t)' = Contents(t)
      /\ Contents(c)' = {s[j].value : j \in DOMAIN s}
  BY <1>2, ItemsReplaced
<1>6. Contents(c)' \subseteq Contents(c)
  BY <1>2, <1>5 DEF Contents
<1> QED
  BY <1>3, <1>4, <1>5, <1>6

\* The compound has v once more, the value of the key once less, and each key once.
LEMMA CompoundSetItems ==
  ASSUME Shape, NEW c \in Tag, NEW k \in Key, NEW v \in Tag, KeysDiffer(items[c]),
         CompoundSet(c, k, v)
  PROVE  /\ items' \in [Tag -> Seq(Item)] /\ \A t \in Tag : Len(items'[t]) <= MaxItems
         /\ \A t \in Tag \ {c} : items'[t] = items[t] /\ Contents(t)' = Contents(t)
         /\ Contents(c)' \subseteq Contents(c) \cup {v}
         /\ KeysDiffer(items'[c])
         /\ \A t : Occurs(items'[c], Holding(t)) =
               Occurs(items[c], Holding(t)) - Keeping(c, k, t) + (IF v = t THEN 1 ELSE 0)
<1>1. Len(items[c]) \in Nat /\ Len(items[c]) < MaxItems
  BY ContentsAre DEF CompoundSet, MayTake
<1>2. PICK x \in Item : x = [key |-> k, value |-> v]
  BY DEF Item
<1>3. PICK r \in Seq(Item) :
        /\ r = WithoutKey(c, k) /\ Len(r) \in Nat /\ Len(r) <= Len(items[c])
        /\ DOMAIN r = 1 .. Len(r)
        /\ \A i \in DOMAIN r : \E j \in DOMAIN items[c] : r[i] = items[c][j]
  BY WithoutKeyItems
<1>4. KeysDiffer(r) /\ \A i \in DOMAIN r : r[i].key # k
  BY <1>3, WithoutKeyUnique DEF KeysDiffer
<1>5. <<x>> \in Seq(Item) /\ Len(<<x>>) = 1 /\ <<x>>[1] = x
  BY <1>2
<1>6. PICK s \in Seq(Item) :
        /\ s = <<x>> \o r /\ Len(s) = Len(r) + 1 /\ DOMAIN s = 1 .. Len(r) + 1
        /\ s[1] = x /\ \A i \in 2 .. Len(r) + 1 : s[i] = r[i - 1]
  <2>1. /\ <<x>> \o r \in Seq(Item) /\ Len(<<x>> \o r) = Len(<<x>>) + Len(r)
        /\ \A i \in 1 .. Len(<<x>>) + Len(r) : (<<x>> \o r)[i] =
              IF i <= Len(<<x>>) THEN <<x>>[i] ELSE r[i - Len(<<x>>)]
    BY <1>3, <1>5, ConcatProperties
  <2>2. Len(<<x>> \o r) = Len(r) + 1 /\ (<<x>> \o r)[1] = x
    BY <1>3, <1>5, <2>1
  <2>3. ASSUME NEW i \in 2 .. Len(r) + 1 PROVE (<<x>> \o r)[i] = r[i - 1]
    BY <1>3, <1>5, <2>1
  <2>4. DOMAIN (<<x>> \o r) = 1 .. Len(r) + 1
    BY <2>1, <2>2
  <2> QED
    BY <2>1, <2>2, <2>3, <2>4
<1>7. items' = [items EXCEPT ![c] = s]
  BY <1>2, <1>3, <1>6 DEF CompoundSet
<1>8. Len(s) <= MaxItems
  BY <1>1, <1>3, <1>6, TagAssumption
<1>9. ASSUME NEW i \in DOMAIN s PROVE i = 1 \/ (i - 1 \in DOMAIN r /\ s[i] = r[i - 1])
  BY <1>3, <1>6
<1>10. KeysDiffer(s)
  <2> SUFFICES ASSUME NEW i \in DOMAIN s, NEW j \in DOMAIN s, s[i].key = s[j].key
               PROVE  i = j
    BY DEF KeysDiffer
  <2>1. x.key = k /\ i \in Nat /\ j \in Nat
    BY <1>2, <1>3, <1>6
  <2>2. CASE i = 1
    BY <1>4, <1>6, <1>9, <2>1, <2>2
  <2>3. CASE j = 1
    BY <1>4, <1>6, <1>9, <2>1, <2>3
  <2>4. CASE i # 1 /\ j # 1
    <3>1. i - 1 = j - 1
      BY <1>4, <1>9, <2>4 DEF KeysDiffer
    <3> QED
      BY <2>1, <3>1
  <2> QED
    BY <2>2, <2>3, <2>4
<1>11. ASSUME NEW i \in DOMAIN s PROVE s[i].value \in Contents(c) \cup {v}
  BY <1>2, <1>3, <1>6, <1>9 DEF Contents
<1>12. ASSUME NEW t
       PROVE  Occurs(s, Holding(t)) =
                 Occurs(items[c], Holding(t)) - Keeping(c, k, t) + (IF v = t THEN 1 ELSE 0)
  <2>1. Occurs(s, Holding(t)) = Occurs(<<x>>, Holding(t)) + Occurs(r, Holding(t))
    BY <1>5, <1>6, OccursConcat, ZenonT(40)
  <2>2. Occurs(<<x>>, Holding(t)) = IF v = t THEN 1 ELSE 0
    BY <1>2, OccursOnce DEF Holding
  <2>3. Occurs(r, Holding(t)) = Occurs(items[c], Holding(t)) - Keeping(c, k, t)
    BY <1>3, WithoutKeyCounts DEF KeysDiffer, Keeping
  <2>4. Occurs(r, Holding(t)) \in Nat
    BY PlacesFinite
  <2> QED
    BY <2>1, <2>2, <2>3, <2>4
<1>13. /\ items' \in [Tag -> Seq(Item)] /\ items'[c] = s
       /\ \A t \in Tag : Len(items'[t]) <= MaxItems
       /\ \A t \in Tag \ {c} : items'[t] = items[t] /\ Contents(t)' = Contents(t)
       /\ Contents(c)' = {s[j].value : j \in DOMAIN s}
  BY <1>7, <1>8, ItemsReplaced
<1> QED
  BY <1>10, <1>11, <1>12, <1>13

-----------------------------------------------------------------------------
(* The shape of the heap.                                                  *)

\* At first there is nothing.
LEMMA ShapeInit ==
  Init => Shape
<1> SUFFICES ASSUME Init PROVE Shape
  OBVIOUS
<1>1. TypeOK
  <2>1. <<>> \in Seq(Item) /\ <<>> \in Seq(Tag)
    OBVIOUS
  <2>2. items \in [Tag -> Seq(Item)]
    BY <2>1 DEF Init
  <2>3. /\ type \in [Tag -> Types \cup {"free"}]
        /\ subtype \in [Tag -> Types \cup {"end"}]
        /\ refcount \in [Tag -> Nat] /\ owned \in [Tag -> Nat] /\ lost \in [Tag -> Nat]
    BY DEF Init
  <2> QED
    BY <2>1, <2>2, <2>3 DEF Init, TypeOK
<1>2. \A t \in Tag : items[t] = <<>> /\ Len(<<>>) <= MaxItems
  BY TagAssumption DEF Init
<1> QED
  BY <1>1, <1>2 DEF Init, Shape

\* Where one container is changed, and no tag made or freed, the rest of the shape
\* is that of the other variables.
LEMMA ShapeItems ==
  ASSUME Shape, NEW l \in Live, type[l] # "leaf",
         items' \in [Tag -> Seq(Item)], \A t \in Tag : Len(items'[t]) <= MaxItems,
         \A t \in Tag \ {l} : items'[t] = items[t],
         UNCHANGED <<type, subtype, crashed>>, ~crashed,
         \A t \in Tag : type[t] = "free" => refcount'[t] = 0,
         refcount' \in [Tag -> Nat], owned' \in [Tag -> Nat], lost' \in [Tag -> Nat],
         root' \in Tag \cup {Nil}, unrefs' \in Seq(Tag)
  PROVE  Shape'
  BY DEF Shape, TypeOK, Live

\* A live tag gets a reference.
LEMMA RefTagCounts ==
  ASSUME Shape, NEW v \in Live, RefTag(v)
  PROVE  /\ refcount' \in [Tag -> Nat]
         /\ \A t \in Tag : refcount'[t] = refcount[t] + (IF t = v THEN 1 ELSE 0)
         /\ \A t \in Tag : type[t] = "free" => refcount'[t] = 0
<1>1. refcount \in [Tag -> Nat] /\ v \in Tag /\ type[v] # "free"
  BY DEF Shape, TypeOK, Live
<1>2. refcount' = [refcount EXCEPT ![v] = refcount[v] + 1]
  BY DEF RefTag
<1> QED
  BY <1>1, <1>2 DEF Shape

\* Inserting into a list: MayTake sees to it that there is room.
LEMMA ShapeListInsert ==
  ASSUME Shape, NoDangling, NEW l \in Tag, NEW v \in Tag, NEW i \in 0 .. MaxItems,
         ListInsert(l, i, v)
  PROVE  Shape'
<1>1. l \in Live /\ v \in Live /\ type[l] = "list" /\ ~crashed
  BY UsableLive DEF ListInsert, MayTake, Ready
<1>2. /\ items' \in [Tag -> Seq(Item)] /\ \A t \in Tag : Len(items'[t]) <= MaxItems
      /\ \A t \in Tag \ {l} : items'[t] = items[t]
  BY ListInsertItems
<1>3. /\ refcount' \in [Tag -> Nat]
      /\ \A t \in Tag : type[t] = "free" => refcount'[t] = 0
  BY <1>1, RefTagCounts DEF ListInsert
<1>4. /\ UNCHANGED <<type, subtype, crashed>>
      /\ owned' \in [Tag -> Nat] /\ lost' \in [Tag -> Nat]
      /\ root' \in Tag \cup {Nil} /\ unrefs' \in Seq(Tag)
  BY DEF ListInsert, Shape, TypeOK
<1> QED
  BY <1>1, <1>2, <1>3, <1>4, ShapeItems

\* Deleting from a list.
LEMMA ShapeListDelete ==
  ASSUME Shape, NoDangling, NEW l \in Tag, NEW i \in 0 .. MaxItems - 1, ListDelete(l, i)
  PROVE  Shape'
<1>1. l \in Live /\ type[l] = "list" /\ ~crashed
  BY UsableLive DEF ListDelete, Ready
<1>2. /\ items' \in [Tag -> Seq(Item)] /\ \A t \in Tag : Len(items'[t]) <= MaxItems
      /\ \A t \in Tag \ {l} : items'[t] = items[t]
      /\ items[l][i + 1].value \in Tag
  BY ListDeleteItems, ContentsAre
<1>3. /\ refcount' \in [Tag -> Nat]
      /\ \A t \in Tag : type[t] = "free" => refcount'[t] = 0
  BY DEF ListDelete, Shape, TypeOK
<1>4. /\ UNCHANGED <<type, subtype, crashed>>
      /\ owned' \in [Tag -> Nat] /\ lost' \in [Tag -> Nat]
      /\ root' \in Tag \cup {Nil}
  BY DEF ListDelete, Shape, TypeOK
<1>5. unrefs' \in Seq(Tag)
  BY <1>2 DEF ListDelete
<1> QED
  BY <1>1, <1>2, <1>3, <1>4, <1>5, ShapeItems

\* Reversing a list.
LEMMA ShapeListReverse ==
  ASSUME Shape, NoDangling, NEW l \in Tag, ListReverse(l)
  PROVE  Shape'
<1>1. l \in Live /\ type[l] = "list" /\ ~crashed
  BY UsableLive DEF ListReverse, Ready
<1>2. /\ items' \in [Tag -> Seq(Item)] /\ \A t \in Tag : Len(items'[t]) <= MaxItems
      /\ \A t \in Tag \ {l} : items'[t] = items[t]
  BY ListReverseItems
<1>3. /\ refcount' \in [Tag -> Nat]
      /\ \A t \in Tag : type[t] = "free" => refcount'[t] = 0
  BY DEF ListReverse, Shape, TypeOK
<1>4. /\ UNCHANGED <<type, subtype, crashed>>
      /\ owned' \in [Tag -> Nat] /\ lost' \in [Tag -> Nat]
      /\ root' \in Tag \cup {Nil} /\ unrefs' \in Seq(Tag)
  BY DEF ListReverse, Shape, TypeOK
<1> QED
  BY <1>1, <1>2, <1>3, <1>4, ShapeItems

\* Setting a key: what goes makes room, or MayTake has seen to it.
LEMMA ShapeCompoundSet ==
  ASSUME Shape, NoDangling, KeysUnique, NEW c \in Tag, NEW v \in Tag, NEW k \in Key,
         CompoundSet(c, k, v)
  PROVE  Shape'
<1>1. c \in Usable /\ v \in Live /\ type[c] = "compound" /\ ~crashed
  BY UsableLive DEF CompoundSet, MayTake, Ready
<1>2. c \in Live /\ KeysDiffer(items[c])
  BY <1>1, CompoundKeys
<1>3. /\ items' \in [Tag -> Seq(Item)] /\ \A t \in Tag : Len(items'[t]) <= MaxItems
      /\ \A t \in Tag \ {c} : items'[t] = items[t]
  BY <1>2, CompoundSetItems
<1>4. /\ refcount' \in [Tag -> Nat]
      /\ \A t \in Tag : type[t] = "free" => refcount'[t] = 0
  BY <1>1, RefTagCounts DEF CompoundSet
<1>5. lost' \in [Tag -> Nat]
  BY LoseCounts DEF CompoundSet
<1>6. /\ UNCHANGED <<type, subtype, crashed>> /\ owned' \in [Tag -> Nat]
      /\ root' \in Tag \cup {Nil} /\ unrefs' \in Seq(Tag)
  BY DEF CompoundSet, Shape, TypeOK
<1> QED
  BY <1>1, <1>2, <1>3, <1>4, <1>5, <1>6, ShapeItems

\* Deleting a key.
LEMMA ShapeCompoundDelete ==
  ASSUME Shape, NoDangling, KeysUnique, NEW c \in Tag, NEW k \in Key,
         CompoundDelete(c, k)
  PROVE  Shape'
<1>1. c \in Usable /\ type[c] = "compound" /\ ~crashed
  BY DEF CompoundDelete, Ready
<1>2. c \in Live /\ KeysDiffer(items[c])
  BY <1>1, CompoundKeys
<1>3. /\ items' \in [Tag -> Seq(Item)] /\ \A t \in Tag : Len(items'[t]) <= MaxItems
      /\ \A t \in Tag \ {c} : items'[t] = items[t]
  BY <1>2, CompoundDeleteItems DEF CompoundDelete
<1>4. /\ refcount' \in [Tag -> Nat]
      /\ \A t \in Tag : type[t] = "free" => refcount'[t] = 0
  BY DEF CompoundDelete, Shape, TypeOK
<1>5. lost' \in [Tag -> Nat]
  BY LoseCounts DEF CompoundDelete
<1>6. /\ UNCHANGED <<type, subtype, crashed>> /\ owned' \in [Tag -> Nat]
      /\ root' \in Tag \cup {Nil} /\ unrefs' \in Seq(Tag)
  BY DEF CompoundDelete, Shape, TypeOK
<1> QED
  BY <1>1, <1>2, <1>3, <1>4, <1>5, <1>6, ShapeItems

\* One call of rs_tag_unref: the count goes down only if it is above one.
LEMMA ShapeUnrefStep ==
  ASSUME Shape, UnrefStep
  PROVE  /\ Shape' /\ ~crashed
         /\ Head(unrefs) \in Tag /\ Tail(unrefs) \in Seq(Tag)
<1>1. unrefs \in Seq(Tag) /\ unrefs # <<>>
  BY DEF Shape, TypeOK, UnrefStep
<1>2. Head(unrefs) \in Tag /\ Tail(unrefs) \in Seq(Tag)
  BY <1>1
<1>3. PICK t \in Tag : t = Head(unrefs)
  BY <1>2
<1>4. Children(t) \o Tail(unrefs) \in Seq(Tag)
  BY <1>2, ChildrenAre, ConcatProperties
<1>5. unrefs' \in Seq(Tag) /\ ~crashed
  BY <1>1, <1>2, <1>3, <1>4 DEF UnrefStep, Shape
<1>6. CASE LastReference(t)
  <2>1. Free(t)
    BY <1>3, <1>6 DEF UnrefStep
  <2>2. /\ type' \in [Tag -> Types \cup {"free"}] /\ refcount' \in [Tag -> Nat]
        /\ subtype' \in [Tag -> Types \cup {"end"}] /\ items' \in [Tag -> Seq(Item)]
    <3>1. <<>> \in Seq(Item)
      OBVIOUS
    <3> QED
      BY <2>1, <3>1 DEF Free, Shape, TypeOK
  <2>3. TypeOK'
    BY <1>5, <2>2 DEF UnrefStep, Shape, TypeOK
  <2>4. \A u \in Tag : items'[u] = IF u = t THEN <<>> ELSE items[u]
    BY <2>1 DEF Free, Shape, TypeOK
  <2>5. \A u \in Tag : /\ Len(items'[u]) <= MaxItems
                       /\ type'[u] \in {"free", "leaf"} => items'[u] = <<>>
                       /\ type'[u] = "free" => refcount'[u] = 0
    <3>1. Len(<<>>) <= MaxItems
      BY TagAssumption
    <3> QED
      BY <2>1, <2>4, <3>1 DEF Free, Shape, TypeOK
  <2> QED
    BY <1>2, <1>5, <2>3, <2>5 DEF Shape, UnrefStep
<1>7. CASE ~LastReference(t)
  <2>1. Drop(t)
    BY <1>3, <1>7 DEF UnrefStep
  <2>2. refcount[t] \in Nat /\ refcount[t] > 1
    BY <1>7 DEF LastReference, Shape, TypeOK
  <2>3. /\ refcount' \in [Tag -> Nat]
        /\ \A u \in Tag : type[u] = "free" => refcount'[u] = 0
    <3>1. refcount' = [refcount EXCEPT ![t] = refcount[t] - 1] /\ refcount \in [Tag -> Nat]
      BY <2>1 DEF Drop, Shape, TypeOK
    <3>2. refcount[t] - 1 \in Nat
      BY <2>2
    <3>3. \A u \in Tag : type[u] = "free" => refcount[u] = 0
      BY DEF Shape
    <3>4. \A u \in Tag : type[u] = "free" => u # t
      BY <2>2, <3>3
    <3> QED
      BY <3>1, <3>2, <3>3, <3>4
  <2> QED
    BY <1>2, <1>5, <2>1, <2>3 DEF Drop, UnrefStep, Shape, TypeOK
<1> QED
  BY <1>6, <1>7

\* The other actions.
LEMMA ShapeOthers ==
  ASSUME Shape, NoDangling, NEW t \in Tag, NEW ty \in Types,
         \/ New(t, ty) \/ Ref(t) \/ Unref(t) \/ ListSetType(t, ty)
         \/ \E l \in Tag, i \in 0 .. MaxItems : ListInsertCrash(l, i, t)
  PROVE  Shape'
<1>1. <<>> \in Seq(Item) /\ <<>> \in Seq(Tag) /\ <<t>> \in Seq(Tag) /\ Len(<<>>) <= MaxItems
  BY TagAssumption
<1>2. CASE New(t, ty)
  <2>1. TypeOK'
    BY <1>1, <1>2 DEF New, Shape, TypeOK
  <2>2. \A u \in Tag : items'[u] = IF u = t THEN <<>> ELSE items[u]
    BY <1>2 DEF New, Shape, TypeOK
  <2>3. \A u \in Tag : refcount'[u] = IF u = t THEN 0 ELSE refcount[u]
    BY <1>2 DEF New, Shape, TypeOK
  <2>4. \A u \in Tag : type'[u] = IF u = t THEN ty ELSE type[u]
    BY <1>2 DEF New, Shape, TypeOK
  <2> QED
    BY <1>1, <1>2, <2>1, <2>2, <2>3, <2>4 DEF New, Shape
<1>3. CASE Ref(t)
  <2>1. t \in Live
    BY <1>3, UsableLive DEF Ref
  <2>2. /\ refcount' \in [Tag -> Nat]
        /\ \A u \in Tag : type[u] = "free" => refcount'[u] = 0
    BY <1>3, <2>1, RefTagCounts DEF Ref
  <2>3. owned' \in [Tag -> Nat]
    <3>1. owned \in [Tag -> Nat] /\ owned' = [owned EXCEPT ![t] = @ + 1]
      BY <1>3 DEF Ref, Shape, TypeOK
    <3> QED
      BY <3>1
  <2> QED
    BY <1>3, <2>2, <2>3 DEF Ref, Shape, TypeOK
<1>4. CASE Unref(t)
  <2>1. owned' \in [Tag -> Nat]
    <3>1. owned \in [Tag -> Nat]
      BY DEF Shape, TypeOK
    <3>2. CASE owned[t] > 0 /\ owned' = [owned EXCEPT ![t] = @ - 1]
      <4>1. owned[t] - 1 \in Nat
        BY <3>1, <3>2
      <4> QED
        BY <3>1, <3>2, <4>1
    <3>3. CASE UNCHANGED owned
      BY <3>1, <3>3
    <3> QED
      BY <1>4, <3>2, <3>3 DEF Unref
  <2> QED
    BY <1>1, <1>4, <2>1 DEF Unref, Ready, tags, Shape, TypeOK
<1>5. CASE ListSetType(t, ty)
  BY <1>5 DEF ListSetType, Shape, TypeOK
<1>6. ASSUME NEW l \in Tag, NEW i \in 0 .. MaxItems, ListInsertCrash(l, i, t)
      PROVE  Shape'
  <2>1. t \in Live /\ RefTag(t)
    BY <1>6, UsableLive DEF ListInsertCrash, MayTake
  <2>2. /\ refcount' \in [Tag -> Nat]
        /\ \A u \in Tag : type[u] = "free" => refcount'[u] = 0
    BY <2>1, RefTagCounts
  <2> QED
    BY <1>6, <2>2 DEF ListInsertCrash, MayTake, Ready, Shape, TypeOK
<1> QED
  BY <1>2, <1>3, <1>4, <1>5, <1>6

\* The root of a file is set.
LEMMA ShapeSetRoot ==
  ASSUME Shape, NoDangling, NEW t \in Tag \cup {Nil}, SetRoot(t)
  PROVE  Shape'
<1>1. unrefs' \in Seq(Tag) /\ ~crashed
  <2>1. CASE root = Nil
    BY <2>1 DEF SetRoot, Ready
  <2>2. CASE root # Nil
    BY <2>2 DEF SetRoot, Ready, Shape, TypeOK
  <2> QED
    BY <2>1, <2>2
<1>2. /\ refcount' \in [Tag -> Nat]
      /\ \A u \in Tag : type[u] = "free" => refcount'[u] = 0
  <2>1. CASE t = Nil
    BY <2>1 DEF SetRoot, Shape, TypeOK
  <2>2. CASE t # Nil
    <3>1. t \in Live /\ RefTag(t)
      BY <2>2, UsableLive DEF SetRoot
    <3> QED
      BY <3>1, RefTagCounts
  <2> QED
    BY <2>1, <2>2
<1> QED
  BY <1>1, <1>2 DEF SetRoot, Shape, TypeOK

-----------------------------------------------------------------------------
(* The counts.                                                             *)

\* With no call to come every count is exact.
LEMMA ReadySettled ==
  ASSUME Shape, Counted, Ready, NEW t \in Tag
  PROVE  /\ Settled(t) /\ Cardinality(Calls(t)) = 0
<1>1. Calls(t) = {}
  BY DEF Ready, Calls
<1>2. Cardinality(Calls(t)) = 0
  BY <1>1, FS_EmptySet
<1>3. ~Sinking(t)
  BY <1>2 DEF Sinking
<1> QED
  BY <1>2, <1>3 DEF Counted, Ready

\* The calls in a sequence of one.
LEMMA OneCall ==
  ASSUME NEW u, NEW t
  PROVE  Occurs(<<u>>, {t}) = IF u = t THEN 1 ELSE 0
  BY OccursOnce

\* At first nothing is held and nothing counted.
LEMMA CountedInit ==
  Init => Counted
<1> SUFFICES ASSUME Init, NEW t \in Tag PROVE Settled(t)
  BY DEF Counted
<1>1. Cells(t) = {} /\ Calls(t) = {}
  BY DEF Init, Cells, Calls
<1>2. Cardinality(Cells(t)) = 0 /\ Cardinality(Calls(t)) = 0
  BY <1>1, FS_EmptySet
<1>3. root # t
  BY TagAssumption DEF Init
<1> QED
  BY <1>2, <1>3 DEF Init, Settled, Holders

\* No call to come: as many as there are.
LEMMA NoCalls ==
  ASSUME Shape, Shape', Ready, UNCHANGED unrefs, NEW t \in Tag
  PROVE  Cardinality(Calls(t))' = 0
<1>1. Calls(t)' = {}
  BY DEF Ready, Calls
<1> QED
  BY <1>1, FS_EmptySet

\* Where one container changes: what it had goes, and what it has comes.
LEMMA CellsMove ==
  ASSUME Shape, Shape', NEW l \in Tag, NEW t \in Tag,
         \A d \in Tag \ {l} : items'[d] = items[d]
  PROVE  /\ Occurs(items[l], Holding(t)) \in Nat
         /\ Cardinality(Cells(t))' = Cardinality(Cells(t))
               - Occurs(items[l], Holding(t)) + Occurs(items'[l], Holding(t))
<1>1. items \in Rows /\ items' \in Rows
  BY Numbers
<1>2. /\ Occurs(items[l], Holding(t)) \in Nat
      /\ Cardinality(CellsOf(items', t)) = Cardinality(CellsOf(items, t))
            - Occurs(items[l], Holding(t)) + Occurs(items'[l], Holding(t))
  BY <1>1, CellsChange
<1> QED
  BY <1>2, Numbers

\* What a count of t is about, before and after an action that waits for no call.
LEMMA Standing ==
  ASSUME Shape, Shape', Counted, Ready, NEW t \in Tag
  PROVE  /\ Nil # t
         /\ refcount[t] = owned[t] + Cardinality(Cells(t)) + (IF root = t THEN 1 ELSE 0) + lost[t]
         /\ {refcount[t], owned[t], lost[t], Cardinality(Cells(t))} \subseteq Nat
<1>1. {refcount[t], owned[t], lost[t], Cardinality(Cells(t))} \subseteq Nat
  BY Numbers
<1> QED
  BY <1>1, ReadySettled, TagAssumption DEF Settled, Holders

\* One more cell holds v, and v is ref'd.
LEMMA CountedListInsert ==
  ASSUME TagInv, Shape', NEW l \in Tag, NEW v \in Tag, NEW i \in 0 .. MaxItems,
         ListInsert(l, i, v)
  PROVE  Counted'
<1> USE DEF TagInv
<1> SUFFICES ASSUME NEW t \in Tag PROVE Settled(t)'
  BY DEF Counted
<1>1. v \in Live /\ Ready
  BY UsableLive DEF ListInsert, MayTake
<1>2. Cardinality(Calls(t))' = 0
  BY <1>1, NoCalls DEF ListInsert
<1>3. refcount'[t] = refcount[t] + (IF t = v THEN 1 ELSE 0)
  BY <1>1, RefTagCounts DEF ListInsert
<1>4. Cardinality(Cells(t))' = Cardinality(Cells(t)) + (IF t = v THEN 1 ELSE 0)
  <2>1. /\ \A d \in Tag \ {l} : items'[d] = items[d]
        /\ Occurs(items'[l], Holding(t)) =
              Occurs(items[l], Holding(t)) + (IF v = t THEN 1 ELSE 0)
    BY ListInsertItems
  <2>2. Cardinality(Cells(t)) \in Nat
    BY Numbers
  <2> QED
    BY <2>1, <2>2, CellsMove
<1>5. UNCHANGED <<root, owned, lost>>
  BY DEF ListInsert
<1> QED
  BY <1>1, <1>2, <1>3, <1>4, <1>5, Standing DEF Settled, Holders

\* The reference of the cell goes to the call of rs_tag_unref.
LEMMA CountedListDelete ==
  ASSUME TagInv, Shape', NEW l \in Tag, NEW i \in 0 .. MaxItems - 1, ListDelete(l, i)
  PROVE  Counted'
<1> USE DEF TagInv
<1> SUFFICES ASSUME NEW t \in Tag PROVE Settled(t)'
  BY DEF Counted
<1>1. PICK w : w = items[l][i + 1].value
  OBVIOUS
<1>2. Cardinality(Calls(t))' = IF w = t THEN 1 ELSE 0
  <2>1. unrefs' = <<w>>
    BY <1>1 DEF ListDelete
  <2>2. Cardinality(Calls(t))' = Occurs(unrefs', {t})
    BY Numbers
  <2> QED
    BY <2>1, <2>2, OneCall
<1>3. Cardinality(Cells(t))' = Cardinality(Cells(t)) - (IF w = t THEN 1 ELSE 0)
  <2>1. /\ \A d \in Tag \ {l} : items'[d] = items[d]
        /\ Occurs(items'[l], Holding(t)) =
              Occurs(items[l], Holding(t)) - (IF w = t THEN 1 ELSE 0)
    BY <1>1, ListDeleteItems
  <2>2. Cardinality(Cells(t)) \in Nat
    BY Numbers
  <2> QED
    BY <2>1, <2>2, CellsMove
<1>4. UNCHANGED <<refcount, root, owned, lost>> /\ Ready
  BY DEF ListDelete
<1> QED
  BY <1>2, <1>3, <1>4, Standing DEF Settled, Holders

\* Cells move.
LEMMA CountedListReverse ==
  ASSUME TagInv, Shape', NEW l \in Tag, ListReverse(l)
  PROVE  Counted'
<1> USE DEF TagInv
<1> SUFFICES ASSUME NEW t \in Tag PROVE Settled(t)'
  BY DEF Counted
<1>1. Cardinality(Calls(t))' = 0
  BY NoCalls DEF ListReverse
<1>2. Cardinality(Cells(t))' = Cardinality(Cells(t))
  <2>1. /\ \A d \in Tag \ {l} : items'[d] = items[d]
        /\ Occurs(items'[l], Holding(t)) = Occurs(items[l], Holding(t))
    BY ListReverseItems
  <2>2. Cardinality(Cells(t)) \in Nat
    BY Numbers
  <2> QED
    BY <2>1, <2>2, CellsMove
<1> QED
  BY <1>1, <1>2, Standing DEF Settled, Holders, ListReverse

\* One more cell holds v, which is ref'd; the old value is in one cell less, and
\* lost.
LEMMA CountedCompoundSet ==
  ASSUME TagInv, Shape', NEW c \in Tag, NEW v \in Tag, NEW k \in Key,
         CompoundSet(c, k, v)
  PROVE  Counted'
<1> USE DEF TagInv
<1> SUFFICES ASSUME NEW t \in Tag PROVE Settled(t)'
  BY DEF Counted
<1>1. v \in Live /\ Ready /\ KeysDiffer(items[c])
  BY UsableLive, CompoundKeys DEF CompoundSet, MayTake
<1>2. Cardinality(Calls(t))' = 0
  BY <1>1, NoCalls DEF CompoundSet
<1>3. refcount'[t] = refcount[t] + (IF t = v THEN 1 ELSE 0)
  BY <1>1, RefTagCounts DEF CompoundSet
<1>4. lost'[t] = lost[t] + Keeping(c, k, t) /\ Keeping(c, k, t) \in {0, 1}
  BY LoseCounts DEF CompoundSet
<1>5. Cardinality(Cells(t))' =
         Cardinality(Cells(t)) - Keeping(c, k, t) + (IF t = v THEN 1 ELSE 0)
  <2>1. \A d \in Tag \ {c} : items'[d] = items[d]
    BY <1>1, CompoundSetItems
  <2>2. Occurs(items'[c], Holding(t)) =
           Occurs(items[c], Holding(t)) - Keeping(c, k, t) + (IF v = t THEN 1 ELSE 0)
    BY <1>1, CompoundSetItems
  <2>3. Cardinality(Cells(t)) \in Nat
    BY Numbers
  <2> QED
    BY <1>4, <2>1, <2>2, <2>3, CellsMove
<1>6. UNCHANGED <<root, owned>>
  BY DEF CompoundSet
<1> QED
  BY <1>1, <1>2, <1>3, <1>4, <1>5, <1>6, Standing DEF Settled, Holders

\* The value is in one cell less, and lost: that it is so only once needs unique
\* keys.
LEMMA CountedCompoundDelete ==
  ASSUME TagInv, Shape', NEW c \in Tag, NEW k \in Key, CompoundDelete(c, k)
  PROVE  Counted'
<1> USE DEF TagInv
<1> SUFFICES ASSUME NEW t \in Tag PROVE Settled(t)'
  BY DEF Counted
<1>1. Ready /\ KeysDiffer(items[c])
  BY CompoundKeys DEF CompoundDelete
<1>2. Cardinality(Calls(t))' = 0
  BY <1>1, NoCalls DEF CompoundDelete
<1>3. lost'[t] = lost[t] + Keeping(c, k, t) /\ Keeping(c, k, t) \in {0, 1}
  BY LoseCounts DEF CompoundDelete
<1>4. Cardinality(Cells(t))' = Cardinality(Cells(t)) - Keeping(c, k, t)
  <2>1. items' = [items EXCEPT ![c] = WithoutKey(c, k)]
    BY DEF CompoundDelete
  <2>2. /\ \A d \in Tag \ {c} : items'[d] = items[d]
        /\ Occurs(items'[c], Holding(t)) =
              Occurs(items[c], Holding(t)) - Keeping(c, k, t)
    BY <1>1, <2>1, CompoundDeleteItems
  <2>3. Cardinality(Cells(t)) \in Nat
    BY Numbers
  <2> QED
    BY <1>3, <2>2, <2>3, CellsMove
<1> QED
  BY <1>1, <1>2, <1>3, <1>4, Standing DEF Settled, Holders, CompoundDelete

\* An action that changes no items: cells stay.
LEMMA SameCells ==
  ASSUME UNCHANGED items, NEW t
  PROVE  Cardinality(Cells(t))' = Cardinality(Cells(t))
<1>1. Cells(t)' = Cells(t)
  BY DEF Cells
<1> QED
  BY <1>1

\* A new tag is held by no one, and floats.
LEMMA CountedNew ==
  ASSUME TagInv, Shape', NEW u \in Tag, NEW ty \in Types, New(u, ty)
  PROVE  Counted'
<1> USE DEF TagInv
<1> SUFFICES ASSUME NEW t \in Tag PROVE Settled(t)'
  BY DEF Counted
<1>1. Cardinality(Calls(t))' = 0
  BY NoCalls DEF New
<1>2. UNCHANGED items
  <2>1. items \in [Tag -> Seq(Item)] /\ items[u] = <<>>
    BY DEF New, Shape, TypeOK
  <2> QED
    BY <2>1 DEF New
<1>3. Cardinality(Cells(t))' = Cardinality(Cells(t))
  BY <1>2, SameCells
<1>4. UNCHANGED <<refcount, root, owned, lost>> /\ Ready
  <2>1. refcount \in [Tag -> Nat] /\ refcount[u] = 0
    BY DEF New, Shape, TypeOK
  <2> QED
    BY <2>1 DEF New
<1> QED
  BY <1>1, <1>3, <1>4, Standing DEF Settled, Holders

\* The client's references and the count go up together.
LEMMA CountedRef ==
  ASSUME TagInv, Shape', NEW u \in Tag, Ref(u)
  PROVE  Counted'
<1> USE DEF TagInv
<1> SUFFICES ASSUME NEW t \in Tag PROVE Settled(t)'
  BY DEF Counted
<1>1. u \in Live /\ Ready
  BY UsableLive DEF Ref
<1>2. Cardinality(Calls(t))' = 0
  BY <1>1, NoCalls DEF Ref
<1>3. Cardinality(Cells(t))' = Cardinality(Cells(t))
  BY SameCells DEF Ref
<1>4. refcount'[t] = refcount[t] + (IF t = u THEN 1 ELSE 0)
  BY <1>1, RefTagCounts DEF Ref
<1>5. owned'[t] = owned[t] + (IF t = u THEN 1 ELSE 0)
  <2>1. owned \in [Tag -> Nat]
    BY DEF Shape, TypeOK
  <2>2. owned' = [owned EXCEPT ![u] = owned[u] + 1]
    BY DEF Ref
  <2> QED
    BY <2>1, <2>2
<1>6. UNCHANGED <<root, lost>>
  BY DEF Ref
<1> QED
  BY <1>1, <1>2, <1>3, <1>4, <1>5, <1>6, Standing DEF Settled, Holders

\* The client gives one of its references to the call, or a tag that floats.
LEMMA CountedUnref ==
  ASSUME TagInv, Shape', NEW u \in Tag, Unref(u)
  PROVE  Counted'
<1> USE DEF TagInv
<1> SUFFICES ASSUME NEW t \in Tag PROVE Settled(t)' \/ Sinking(t)'
  BY DEF Counted
<1>1. Cardinality(Calls(t))' = IF u = t THEN 1 ELSE 0
  <2>1. unrefs' = <<u>>
    BY DEF Unref
  <2>2. Cardinality(Calls(t))' = Occurs(unrefs', {t})
    BY Numbers
  <2> QED
    BY <2>1, <2>2, OneCall
<1>2. UNCHANGED <<type, refcount, items, root, lost>> /\ Ready
  BY DEF Unref, tags
<1>3. Cardinality(Cells(t))' = Cardinality(Cells(t))
  BY <1>2, SameCells
<1>4. CASE owned[u] > 0 /\ owned' = [owned EXCEPT ![u] = @ - 1]
  <2>1. owned \in [Tag -> Nat]
    BY DEF Shape, TypeOK
  <2>2. owned'[t] = owned[t] - (IF t = u THEN 1 ELSE 0)
    BY <1>4, <2>1
  <2> QED
    BY <1>1, <1>2, <1>3, <2>2, Standing DEF Settled, Holders
<1>5. CASE u \in Floating /\ UNCHANGED owned
  <2>1. CASE t # u
    BY <1>1, <1>2, <1>3, <1>5, <2>1, Standing DEF Settled, Holders
  <2>2. CASE t = u
    <3>1. t \in Floating /\ (t \in Floating)'
      BY <1>2, <1>5, <2>2 DEF Floating, Live
    <3>2. refcount[t] = 0
      BY <3>1 DEF Floating
    <3>3. /\ lost[t] = 0 /\ owned[t] = 0 /\ root # t /\ Cardinality(Cells(t)) = 0
      <4> DEFINE z == IF root = t THEN 1 ELSE 0
      <4>1. /\ refcount[t] = owned[t] + Cardinality(Cells(t)) + z + lost[t]
            /\ refcount[t] \in Nat /\ owned[t] \in Nat /\ lost[t] \in Nat
            /\ Cardinality(Cells(t)) \in Nat
        BY <1>2, Standing
      <4>2. z \in Nat
        OBVIOUS
      <4> HIDE DEF z
      <4>3. lost[t] = 0 /\ owned[t] = 0 /\ z = 0 /\ Cardinality(Cells(t)) = 0
        <5>1. owned[t] + Cardinality(Cells(t)) + z + lost[t] = 0
          BY <3>2, <4>1
        <5> QED
          BY <4>1, <4>2, <5>1
      <4> QED
        BY <4>3 DEF z
    <3> QED
      BY <1>1, <1>2, <1>3, <1>5, <2>2, <3>1, <3>3 DEF Sinking, Holders
  <2> QED
    BY <2>1, <2>2
<1> QED
  BY <1>4, <1>5 DEF Unref

\* The new root is ref'd before the old one is unref'd: they may be the same.
LEMMA CountedSetRoot ==
  ASSUME TagInv, Shape', NEW u \in Tag \cup {Nil}, SetRoot(u)
  PROVE  Counted'
<1> USE DEF TagInv
<1> SUFFICES ASSUME NEW t \in Tag PROVE Settled(t)'
  BY DEF Counted
<1>1. Nil # t
  BY TagAssumption
<1>2. Cardinality(Calls(t))' = IF root = t THEN 1 ELSE 0
  <2>1. Cardinality(Calls(t))' = Occurs(unrefs', {t})
    BY Numbers
  <2>2. unrefs' = IF root = Nil THEN <<>> ELSE <<root>>
    BY DEF SetRoot
  <2> QED
    BY <1>1, <2>1, <2>2, OneCall, OccursNowhere
<1>3. Cardinality(Cells(t))' = Cardinality(Cells(t))
  BY SameCells DEF SetRoot
<1>4. refcount'[t] = refcount[t] + (IF t = u THEN 1 ELSE 0)
  <2>1. CASE u = Nil
    <3>1. refcount' = refcount /\ refcount[t] \in Nat
      BY <2>1 DEF SetRoot, Shape, TypeOK
    <3> QED
      BY <1>1, <2>1, <3>1
  <2>2. CASE u # Nil
    <3>1. u \in Live /\ RefTag(u)
      BY <2>2, UsableLive DEF SetRoot
    <3> QED
      BY <3>1, RefTagCounts
  <2> QED
    BY <2>1, <2>2
<1>5. UNCHANGED <<owned, lost>> /\ Ready /\ root' = u
  BY DEF SetRoot
<1> QED
  BY <1>1, <1>2, <1>3, <1>4, <1>5, Standing DEF Settled, Holders

\* The actions that neither make nor drop a reference; after a crash nothing is
\* counted.
LEMMA CountedSame ==
  ASSUME TagInv, Shape',
         \/ UNCHANGED vars
         \/ \E l \in Tag, ty \in Types : ListSetType(l, ty)
         \/ \E l, v \in Tag, i \in 0 .. MaxItems : ListInsertCrash(l, i, v)
  PROVE  Counted'
<1> USE DEF TagInv
<1>1. CASE \E l, v \in Tag, i \in 0 .. MaxItems : ListInsertCrash(l, i, v)
  BY <1>1 DEF ListInsertCrash, Counted
<1>2. CASE UNCHANGED vars \/ \E l \in Tag, ty \in Types : ListSetType(l, ty)
  <2> SUFFICES ASSUME ~crashed', NEW t \in Tag PROVE Settled(t)' \/ Sinking(t)'
    BY DEF Counted
  <2>1. UNCHANGED <<type, refcount, items, root, owned, unrefs, lost, crashed>>
    BY <1>2 DEF ListSetType, vars, tags
  <2>2. Cells(t)' = Cells(t) /\ Calls(t)' = Calls(t)
    BY <2>1 DEF Cells, Calls
  <2>3. Holders(t)' = Holders(t)
    BY <2>1, <2>2 DEF Holders
  <2>4. Settled(t) \/ Sinking(t)
    BY <2>1 DEF Counted
  <2> QED
    BY <2>1, <2>2, <2>3, <2>4 DEF Settled, Sinking, Floating, Live
<1> QED
  BY <1>1, <1>2

\* A call that frees its tag: the cells of the tag become calls, and the tag itself
\* is held by one less.
LEMMA FreeMoves ==
  ASSUME Shape, Shape', UnrefStep, NEW t \in Tag, t = Head(unrefs), LastReference(t),
         NEW u \in Tag
  PROVE  /\ refcount'[u] = IF u = t THEN 0 ELSE refcount[u]
         /\ type'[u] = IF u = t THEN "free" ELSE type[u]
         /\ items'[u] = IF u = t THEN <<>> ELSE items[u]
         /\ Occurs(items[t], Holding(u)) \in Nat
         /\ Occurs(items[t], Holding(u)) <= Cardinality(Cells(u))
         /\ Cardinality(Cells(u))' =
               Cardinality(Cells(u)) - Occurs(items[t], Holding(u))
         /\ Cardinality(Calls(u))' = Cardinality(Calls(u))
               + Occurs(items[t], Holding(u)) - (IF u = t THEN 1 ELSE 0)
         /\ u = t => Cardinality(Calls(u)) >= 1
<1>1. Free(t) /\ unrefs' = Children(t) \o Tail(unrefs)
  BY DEF UnrefStep
<1>2. \A d \in Tag : /\ items'[d] = IF d = t THEN <<>> ELSE items[d]
                     /\ refcount'[d] = IF d = t THEN 0 ELSE refcount[d]
                     /\ type'[d] = IF d = t THEN "free" ELSE type[d]
  BY <1>1 DEF Free, Shape, TypeOK
<1>3. Occurs(items'[t], Holding(u)) = 0
  BY <1>2, OccursNowhere
<1>4. /\ Occurs(items[t], Holding(u)) \in Nat
      /\ Cardinality(Cells(u))' =
            Cardinality(Cells(u)) - Occurs(items[t], Holding(u)) + Occurs(items'[t], Holding(u))
  <2>1. \A d \in Tag \ {t} : items'[d] = items[d]
    BY <1>2
  <2> QED
    BY <2>1, CellsMove
<1>5. /\ Cardinality(Cells(u)) \in Nat /\ Cardinality(Cells(u))' \in Nat
      /\ Cardinality(Calls(u)) = Occurs(unrefs, {u})
      /\ Cardinality(Calls(u))' = Occurs(unrefs', {u})
  BY Numbers
<1>6. unrefs \in Seq(Tag) /\ unrefs # <<>>
  BY DEF Shape, TypeOK, UnrefStep
<1>7. /\ Occurs(unrefs, {u}) = (IF u = t THEN 1 ELSE 0) + Occurs(Tail(unrefs), {u})
      /\ Occurs(Tail(unrefs), {u}) \in Nat
  BY <1>6, OccursHeadTail
<1>8. Occurs(unrefs', {u}) = Occurs(items[t], Holding(u)) + Occurs(Tail(unrefs), {u})
  <2>1. Tail(unrefs) \in Seq(Tag)
    BY <1>6
  <2>2. PICK s \in Seq(Tag) :
          s = Children(t) /\ Occurs(s, {u}) = Occurs(items[t], Holding(u))
    BY ChildrenAre
  <2>3. ASSUME NEW X
        PROVE  Occurs(s \o Tail(unrefs), X) = Occurs(s, X) + Occurs(Tail(unrefs), X)
    BY <2>1, OccursConcat
  <2> QED
    BY <1>1, <2>2, <2>3
<1>9. Cardinality(Cells(u))' = Cardinality(Cells(u)) - Occurs(items[t], Holding(u))
  BY <1>3, <1>4, <1>5
<1>10. Occurs(items[t], Holding(u)) <= Cardinality(Cells(u))
  BY <1>4, <1>5, <1>9
<1>11. /\ Cardinality(Calls(u))' = Cardinality(Calls(u))
             + Occurs(items[t], Holding(u)) - (IF u = t THEN 1 ELSE 0)
       /\ u = t => Cardinality(Calls(u)) >= 1
  BY <1>4, <1>5, <1>7, <1>8
<1> QED
  BY <1>2, <1>4, <1>9, <1>10, <1>11

\* Nobody holds a tag that is freed.
LEMMA FreedUnheld ==
  ASSUME TagInv, Shape', UnrefStep, NEW t \in Tag, t = Head(unrefs), LastReference(t)
  PROVE  /\ owned[t] = 0 /\ root # t /\ lost[t] = 0
         /\ Cardinality(Cells(t)) = 0 /\ Cardinality(Cells(t))' = 0
         /\ Cardinality(Calls(t)) = 1 /\ Cardinality(Calls(t))' = 0
<1>1. ~crashed
  BY ShapeUnrefStep DEF TagInv
<1>2. Settled(t) \/ Sinking(t)
  BY <1>1 DEF TagInv, Counted
<1>3. {refcount[t], owned[t], lost[t], Cardinality(Cells(t)), Cardinality(Calls(t))} \subseteq Nat
  BY Numbers, ZenonT(40) DEF TagInv
<1>4. Cardinality(Calls(t)) >= 1
  BY FreeMoves DEF TagInv
<1>5. refcount[t] <= 1
  BY DEF LastReference
<1>6. /\ owned[t] = 0 /\ root # t /\ lost[t] = 0
      /\ Cardinality(Cells(t)) = 0 /\ Cardinality(Calls(t)) = 1
  <2>1. /\ owned[t] \in Nat /\ lost[t] \in Nat /\ Cardinality(Cells(t)) \in Nat
        /\ refcount[t] \in Nat /\ Cardinality(Calls(t)) \in Nat
        /\ (IF root = t THEN 1 ELSE 0) \in Nat
    BY <1>3
  <2>2. Holders(t) + lost[t] <= 1
    BY <1>2, <1>5, <2>1 DEF Settled, Sinking, Holders
  <2> QED
    BY <1>4, <2>1, <2>2 DEF Holders
<1>7. /\ Occurs(items[t], Holding(t)) \in Nat
      /\ Occurs(items[t], Holding(t)) <= Cardinality(Cells(t))
      /\ Cardinality(Cells(t))' = Cardinality(Cells(t)) - Occurs(items[t], Holding(t))
      /\ Cardinality(Calls(t))' = Cardinality(Calls(t)) + Occurs(items[t], Holding(t)) - 1
  BY FreeMoves DEF TagInv
<1> QED
  BY <1>6, <1>7

\* The call is done: its reference goes, those of a freed container become calls.
LEMMA CountedUnrefStep ==
  ASSUME TagInv, Shape', UnrefStep
  PROVE  Counted'
<1> USE DEF TagInv
<1> SUFFICES ASSUME NEW u \in Tag PROVE Settled(u)' \/ Sinking(u)'
  BY DEF Counted
<1>1. PICK t \in Tag : t = Head(unrefs)
  BY ShapeUnrefStep
<1>2. ~crashed
  BY ShapeUnrefStep
<1>3. Settled(u) \/ Sinking(u)
  BY <1>2 DEF Counted
<1>4. UNCHANGED <<root, owned, lost>>
  BY DEF UnrefStep
<1>5. {refcount[u], owned[u], lost[u], Cardinality(Cells(u)), Cardinality(Calls(u))} \subseteq Nat
  BY Numbers
<1>6. CASE LastReference(t)
  <2>1. /\ refcount'[u] = IF u = t THEN 0 ELSE refcount[u]
        /\ type'[u] = IF u = t THEN "free" ELSE type[u]
        /\ Occurs(items[t], Holding(u)) \in Nat
        /\ Occurs(items[t], Holding(u)) <= Cardinality(Cells(u))
        /\ Cardinality(Cells(u))' =
              Cardinality(Cells(u)) - Occurs(items[t], Holding(u))
        /\ Cardinality(Calls(u))' = Cardinality(Calls(u))
              + Occurs(items[t], Holding(u)) - (IF u = t THEN 1 ELSE 0)
    BY <1>1, <1>6, FreeMoves
  <2>2. CASE u = t
    <3>1. /\ owned[t] = 0 /\ root # t /\ lost[t] = 0
          /\ Cardinality(Cells(t))' = 0 /\ Cardinality(Calls(t))' = 0
      BY <1>1, <1>6, FreedUnheld
    <3> QED
      BY <1>4, <2>1, <2>2, <3>1 DEF Settled, Holders
  <2>3. CASE u # t /\ Settled(u)
    BY <1>4, <1>5, <2>1, <2>3 DEF Settled, Holders
  <2>4. CASE u # t /\ Sinking(u)
    <3>1. /\ lost[u] = 0 /\ owned[u] = 0 /\ root # u
          /\ Cardinality(Cells(u)) = 0 /\ Cardinality(Calls(u)) = 1
      BY <1>5, <2>4 DEF Sinking, Holders
    <3>2. Cardinality(Cells(u))' = 0 /\ Cardinality(Calls(u))' = 1
      BY <2>1, <2>4, <3>1
    <3>3. (u \in Floating)'
      BY <2>1, <2>4 DEF Sinking, Floating, Live
    <3> QED
      BY <1>4, <3>1, <3>2, <3>3 DEF Sinking, Holders
  <2> QED
    BY <1>3, <2>2, <2>3, <2>4
<1>7. CASE ~LastReference(t)
  <2>1. Drop(t) /\ unrefs' = Tail(unrefs)
    BY <1>1, <1>7 DEF UnrefStep
  <2>2. refcount'[u] = refcount[u] - (IF u = t THEN 1 ELSE 0)
    <3>1. refcount \in [Tag -> Nat]
      BY DEF Shape, TypeOK
    <3> QED
      BY <2>1, <3>1 DEF Drop
  <2>3. Cardinality(Cells(u))' = Cardinality(Cells(u))
    BY <2>1, SameCells DEF Drop
  <2>4. /\ Cardinality(Calls(u))' = Cardinality(Calls(u)) - (IF u = t THEN 1 ELSE 0)
        /\ Cardinality(Calls(u))' \in Nat
    <3>1. unrefs \in Seq(Tag) /\ unrefs # <<>>
      BY DEF Shape, TypeOK, UnrefStep
    <3>2. /\ Occurs(unrefs, {u}) = (IF u = t THEN 1 ELSE 0) + Occurs(Tail(unrefs), {u})
          /\ Occurs(Tail(unrefs), {u}) \in Nat
      BY <1>1, <3>1, OccursHeadTail
    <3>3. /\ Cardinality(Calls(u)) = Occurs(unrefs, {u})
          /\ Cardinality(Calls(u))' = Occurs(Tail(unrefs), {u})
      BY <2>1, Numbers
    <3> QED
      BY <3>2, <3>3
  <2>5. CASE Settled(u)
    BY <1>4, <1>5, <2>2, <2>3, <2>4, <2>5 DEF Settled, Holders
  <2>6. CASE Sinking(u)
    <3>1. u # t
      BY <1>7, <2>6 DEF Sinking, Floating, LastReference
    <3>2. (u \in Floating)'
      BY <1>5, <2>1, <2>2, <2>6, <3>1 DEF Sinking, Floating, Live, Drop
    <3> QED
      BY <1>4, <1>5, <2>3, <2>4, <2>6, <3>1, <3>2 DEF Sinking, Holders
  <2> QED
    BY <1>3, <2>5, <2>6
<1> QED
  BY <1>6, <1>7

-----------------------------------------------------------------------------
(* What points where.                                                      *)

\* What is put into a container, or is to be unref'd, is live; no tag goes.
Pointing ==
    /\ UNCHANGED type
    /\ \A t \in Tag : owned'[t] > 0 => t \in Live
    /\ root' # Nil => root' \in Live
    /\ \A i \in DOMAIN unrefs' : unrefs'[i] \in Live

\* A step that only takes things out of containers.
LEMMA LessInside ==
  ASSUME TagInv, Pointing, \A c \in Tag : Contents(c)' \subseteq Contents(c),
         \A l \in Live : type[l] = "list" => subtype'[l] = subtype[l] \/ Contents(l)' = {},
         \A c \in Live : type[c] = "compound" => KeysDiffer(items'[c])
  PROVE  Acyclic' /\ NoDangling' /\ ListsHomogeneous' /\ KeysUnique'
<1>1. Acyclic'
  BY AcyclicLess DEF TagInv
<1>2. NoDangling'
  BY DEF TagInv, NoDangling, Pointing, Live
<1>3. ListsHomogeneous'
  BY DEF TagInv, ListsHomogeneous, Pointing, Live
<1>4. KeysUnique'
  BY DEF KeysUnique, KeysDiffer, Pointing, Live
<1> QED
  BY <1>1, <1>2, <1>3, <1>4

\* A step that puts v into c.
LEMMA MoreInside ==
  ASSUME TagInv, Pointing, NEW c \in Live, NEW v \in Live, c \notin Within({v}),
         \A d \in Tag \ {c} : Contents(d)' = Contents(d),
         Contents(c)' \subseteq Contents(c) \cup {v},
         UNCHANGED subtype, type[c] = "list" => type[v] = subtype[c],
         \A d \in Live : type[d] = "compound" => KeysDiffer(items'[d])
  PROVE  Acyclic' /\ NoDangling' /\ ListsHomogeneous' /\ KeysUnique'
<1>1. Acyclic'
  <2>1. c \in Tag /\ v \in Tag
    BY DEF Live
  <2>2. \A d \in Tag : Contents(d)' \subseteq
           IF d = c THEN Contents(d) \cup {v} ELSE Contents(d)
    OBVIOUS
  <2> QED
    BY <2>1, <2>2, AcyclicMore DEF TagInv
<1>2. NoDangling'
  <2>1. \A d \in Live : Contents(d)' \subseteq Live
    BY DEF TagInv, NoDangling, Live
  <2> QED
    BY <2>1 DEF NoDangling, Pointing, Live
<1>3. ListsHomogeneous'
  <2> SUFFICES ASSUME NEW l \in Live, type[l] = "list", NEW u \in Contents(l)'
               PROVE  type[u] = subtype[l]
    BY DEF ListsHomogeneous, Pointing, Live
  <2>1. \A w \in Contents(l) : type[w] = subtype[l]
    BY DEF TagInv, ListsHomogeneous
  <2>2. l \in Tag
    BY DEF Live
  <2> QED
    BY <2>1, <2>2
<1>4. KeysUnique'
  BY DEF KeysUnique, KeysDiffer, Pointing, Live
<1> QED
  BY <1>1, <1>2, <1>3, <1>4

\* The keys of the containers that stay as they are.
LEMMA SameKeys ==
  ASSUME TagInv, NEW l, type[l] # "compound", \A d \in Tag \ {l} : items'[d] = items[d]
  PROVE  \A c \in Live : type[c] = "compound" => KeysDiffer(items'[c])
<1>1. \A c \in Live : type[c] = "compound" => c \in Tag \ {l} /\ KeysDiffer(items[c])
  BY DEF TagInv, KeysUnique, KeysDiffer, Live
<1> QED
  BY <1>1

\* Inserting into a list.
LEMMA TreesListInsert ==
  ASSUME TagInv, NEW l \in Tag, NEW v \in Tag, NEW i \in 0 .. MaxItems,
         ListInsert(l, i, v)
  PROVE  Acyclic' /\ NoDangling' /\ ListsHomogeneous' /\ KeysUnique'
<1> USE DEF TagInv
<1>1. /\ l \in Live /\ v \in Live /\ type[l] = "list" /\ type[v] = subtype[l]
      /\ l \notin Within({v})
  BY UsableLive DEF ListInsert, MayTake
<1>2. /\ \A d \in Tag \ {l} : items'[d] = items[d] /\ Contents(d)' = Contents(d)
      /\ Contents(l)' \subseteq Contents(l) \cup {v}
  BY ListInsertItems
<1>3. Pointing /\ UNCHANGED subtype
  <2>1. UNCHANGED <<type, subtype, owned, root, unrefs>>
    BY DEF ListInsert
  <2> QED
    BY <2>1 DEF NoDangling, Pointing
<1>4. \A c \in Live : type[c] = "compound" => KeysDiffer(items'[c])
  BY <1>1, <1>2, SameKeys
<1> QED
  BY <1>1, <1>2, <1>3, <1>4, MoreInside

\* Taking an item out of a list.
LEMMA TreesListDelete ==
  ASSUME TagInv, NEW l \in Tag, NEW i \in 0 .. MaxItems - 1, ListDelete(l, i)
  PROVE  Acyclic' /\ NoDangling' /\ ListsHomogeneous' /\ KeysUnique'
<1> USE DEF TagInv
<1>1. l \in Live /\ type[l] = "list"
  BY UsableLive DEF ListDelete
<1>2. /\ \A d \in Tag \ {l} : items'[d] = items[d] /\ Contents(d)' = Contents(d)
      /\ Contents(l)' \subseteq Contents(l)
      /\ items[l][i + 1].value \in Contents(l)
  BY ListDeleteItems
<1>3. Pointing /\ UNCHANGED subtype
  <2>1. UNCHANGED <<type, subtype, owned, root>>
    BY DEF ListDelete
  <2>2. items[l][i + 1].value \in Live
    BY <1>1, <1>2 DEF NoDangling
  <2>3. \A j \in DOMAIN unrefs' : unrefs'[j] = items[l][i + 1].value
    BY DEF ListDelete
  <2> QED
    BY <2>1, <2>2, <2>3 DEF NoDangling, Pointing
<1>4. \A c \in Live : type[c] = "compound" => KeysDiffer(items'[c])
  BY <1>1, <1>2, SameKeys
<1>5. \A d \in Tag : Contents(d)' \subseteq Contents(d)
  BY <1>2
<1> QED
  BY <1>3, <1>4, <1>5, LessInside

\* Reversing a list.
LEMMA TreesListReverse ==
  ASSUME TagInv, NEW l \in Tag, ListReverse(l)
  PROVE  Acyclic' /\ NoDangling' /\ ListsHomogeneous' /\ KeysUnique'
<1> USE DEF TagInv
<1>1. l \in Live /\ type[l] = "list"
  BY UsableLive DEF ListReverse
<1>2. /\ \A d \in Tag \ {l} : items'[d] = items[d] /\ Contents(d)' = Contents(d)
      /\ Contents(l)' \subseteq Contents(l)
  BY ListReverseItems
<1>3. Pointing /\ UNCHANGED subtype
  <2>1. UNCHANGED <<type, subtype, owned, root, unrefs>>
    BY DEF ListReverse
  <2> QED
    BY <2>1 DEF NoDangling, Pointing
<1>4. \A c \in Live : type[c] = "compound" => KeysDiffer(items'[c])
  BY <1>1, <1>2, SameKeys
<1>5. \A d \in Tag : Contents(d)' \subseteq Contents(d)
  BY <1>2
<1> QED
  BY <1>3, <1>4, <1>5, LessInside

\* Setting a key of a compound.
LEMMA TreesCompoundSet ==
  ASSUME TagInv, NEW c \in Tag, NEW v \in Tag, NEW k \in Key, CompoundSet(c, k, v)
  PROVE  Acyclic' /\ NoDangling' /\ ListsHomogeneous' /\ KeysUnique'
<1> USE DEF TagInv
<1>1. /\ c \in Live /\ v \in Live /\ type[c] = "compound" /\ KeysDiffer(items[c])
      /\ c \notin Within({v})
  BY UsableLive, CompoundKeys DEF CompoundSet, MayTake
<1>2. /\ \A d \in Tag \ {c} : items'[d] = items[d] /\ Contents(d)' = Contents(d)
      /\ Contents(c)' \subseteq Contents(c) \cup {v} /\ KeysDiffer(items'[c])
  BY <1>1, CompoundSetItems
<1>3. Pointing /\ UNCHANGED subtype
  <2>1. UNCHANGED <<type, subtype, owned, root, unrefs>>
    BY DEF CompoundSet
  <2> QED
    BY <2>1 DEF NoDangling, Pointing
<1>4. ASSUME NEW d \in Live, type[d] = "compound" PROVE KeysDiffer(items'[d])
  <2>1. KeysDiffer(items[d]) /\ d \in Tag
    BY <1>4 DEF KeysUnique, KeysDiffer, Live
  <2> QED
    BY <1>2, <2>1
<1> QED
  BY <1>1, <1>2, <1>3, <1>4, MoreInside

\* Deleting a key of a compound.
LEMMA TreesCompoundDelete ==
  ASSUME TagInv, NEW c \in Tag, NEW k \in Key, CompoundDelete(c, k)
  PROVE  Acyclic' /\ NoDangling' /\ ListsHomogeneous' /\ KeysUnique'
<1> USE DEF TagInv
<1>1. c \in Live /\ KeysDiffer(items[c])
  BY CompoundKeys DEF CompoundDelete
<1>2. /\ \A d \in Tag \ {c} : items'[d] = items[d] /\ Contents(d)' = Contents(d)
      /\ Contents(c)' \subseteq Contents(c) /\ KeysDiffer(items'[c])
  BY <1>1, CompoundDeleteItems DEF CompoundDelete
<1>3. Pointing /\ UNCHANGED subtype
  <2>1. UNCHANGED <<type, subtype, owned, root, unrefs>>
    BY DEF CompoundDelete
  <2> QED
    BY <2>1 DEF NoDangling, Pointing
<1>4. ASSUME NEW d \in Live, type[d] = "compound" PROVE KeysDiffer(items'[d])
  <2>1. KeysDiffer(items[d]) /\ d \in Tag
    BY <1>4 DEF KeysUnique, KeysDiffer, Live
  <2> QED
    BY <1>2, <2>1
<1>5. \A d \in Tag : Contents(d)' \subseteq Contents(d)
  BY <1>2
<1> QED
  BY <1>3, <1>4, <1>5, LessInside

\* The actions that change no items, and make or free no tag.
LEMMA TreesSame ==
  ASSUME TagInv, UNCHANGED <<type, items>>,
         \/ UNCHANGED vars
         \/ \E t \in Tag : Ref(t) \/ Unref(t)
         \/ \E l \in Tag, ty \in Types : ListSetType(l, ty)
         \/ \E l, v \in Tag, i \in 0 .. MaxItems : ListInsertCrash(l, i, v)
         \/ \E t \in Tag \cup {Nil} : SetRoot(t)
         \/ UnrefStep
  PROVE  Acyclic' /\ NoDangling' /\ ListsHomogeneous' /\ KeysUnique'
<1> USE DEF TagInv
<1>1. \A d \in Tag : Contents(d)' = Contents(d)
  BY DEF Contents
<1>2. \A c \in Live : type[c] = "compound" => KeysDiffer(items'[c])
  BY DEF KeysUnique, KeysDiffer
<1>3. \A l \in Live : type[l] = "list" => subtype'[l] = subtype[l] \/ Contents(l)' = {}
  <2>1. CASE UNCHANGED subtype
    BY <2>1
  <2>2. ASSUME NEW l \in Tag, NEW ty \in Types, ListSetType(l, ty)
        PROVE  \A d \in Live : type[d] = "list" =>
                  subtype'[d] = subtype[d] \/ Contents(d)' = {}
    <3>1. Contents(l)' = {}
      BY <2>2 DEF ListSetType, Contents
    <3>2. \A d \in Tag \ {l} : subtype'[d] = subtype[d]
      BY <2>2 DEF ListSetType, Shape, TypeOK
    <3> QED
      BY <3>1, <3>2 DEF Live
  <2>3. CASE UnrefStep
    <3>1. PICK t \in Tag : t = Head(unrefs)
      BY <2>3, ShapeUnrefStep
    <3>2. CASE LastReference(t)
      <4>1. type'[t] = "free" /\ Free(t)
        BY <2>3, <3>1, <3>2 DEF UnrefStep, Free, Shape, TypeOK
      <4>2. \A d \in Tag \ {t} : subtype'[d] = subtype[d]
        BY <4>1 DEF Free, Shape, TypeOK
      <4> QED
        BY <4>1, <4>2 DEF Live
    <3>3. CASE ~LastReference(t)
      BY <2>3, <3>1, <3>3 DEF UnrefStep, Drop
    <3> QED
      BY <3>2, <3>3
  <2> QED
    BY <2>1, <2>2, <2>3 DEF vars, tags, Ref, Unref, ListInsertCrash, SetRoot
<1>4. Pointing
  <2>1. CASE UNCHANGED <<owned, root, unrefs>>
    BY <2>1 DEF NoDangling, Pointing
  <2>2. ASSUME NEW t \in Tag, Ref(t) PROVE Pointing
    <3>1. t \in Live /\ UNCHANGED <<root, unrefs>>
      BY <2>2, UsableLive DEF Ref
    <3>2. \A u \in Tag : u = t \/ owned'[u] = owned[u]
      BY <2>2 DEF Ref, Shape, TypeOK
    <3> QED
      BY <3>1, <3>2 DEF NoDangling, Pointing
  <2>3. ASSUME NEW t \in Tag, Unref(t) PROVE Pointing
    <3>1. t \in Live /\ UNCHANGED root /\ unrefs' = <<t>>
      BY <2>3 DEF Unref, NoDangling, Floating
    <3>2. \A u \in Tag : u = t \/ owned'[u] = owned[u]
      BY <2>3 DEF Unref, Shape, TypeOK
    <3> QED
      BY <3>1, <3>2 DEF NoDangling, Pointing
  <2>4. ASSUME NEW t \in Tag \cup {Nil}, SetRoot(t) PROVE Pointing
    <3>1. t # Nil => t \in Live
      BY <2>4, UsableLive DEF SetRoot
    <3>2. \A i \in DOMAIN unrefs' : unrefs'[i] = root /\ root # Nil
      BY <2>4 DEF SetRoot
    <3>3. root' = t /\ UNCHANGED owned
      BY <2>4 DEF SetRoot
    <3> QED
      BY <3>1, <3>2, <3>3 DEF NoDangling, Pointing
  <2>5. CASE UnrefStep
    <3>1. unrefs \in Seq(Tag) /\ unrefs # <<>>
      BY <2>5 DEF UnrefStep, Shape, TypeOK
    <3>2. PICK t \in Tag : t = Head(unrefs)
      BY <3>1
    <3>3. t \in Live
      BY <3>1, <3>2 DEF NoDangling
    <3>4. ~LastReference(t)
      BY <2>5, <3>2, <3>3 DEF UnrefStep, Free, Live, Shape, TypeOK
    <3>5. unrefs' = Tail(unrefs) /\ UNCHANGED <<owned, root>>
      BY <2>5, <3>2, <3>4 DEF UnrefStep
    <3>6. \A i \in DOMAIN Tail(unrefs) : \E j \in DOMAIN unrefs : Tail(unrefs)[i] = unrefs[j]
      BY <3>1
    <3> QED
      BY <3>5, <3>6 DEF NoDangling, Pointing
  <2>6. \/ UNCHANGED <<owned, root, unrefs>>
        \/ \E t \in Tag : Ref(t) \/ Unref(t)
        \/ \E t \in Tag \cup {Nil} : SetRoot(t)
        \/ UnrefStep
    BY DEF vars, tags, ListSetType, ListInsertCrash
  <2> QED
    BY <2>1, <2>2, <2>3, <2>4, <2>5, <2>6
<1> QED
  BY <1>1, <1>2, <1>3, <1>4, LessInside

\* A new tag is at an address that nothing points to.
LEMMA TreesNew ==
  ASSUME TagInv, NEW t \in Tag, NEW ty \in Types, New(t, ty)
  PROVE  Acyclic' /\ NoDangling' /\ ListsHomogeneous' /\ KeysUnique'
<1> USE DEF TagInv
<1>1. t \notin Live /\ items[t] = <<>> /\ UNCHANGED <<owned, root, unrefs>>
  BY DEF New, Live, Shape
<1>2. UNCHANGED items
  BY <1>1 DEF New, Shape, TypeOK
<1>3. \A d \in Tag : Contents(d)' = Contents(d)
  BY <1>2 DEF Contents
<1>4. Contents(t) = {}
  BY <1>1 DEF Contents
<1>5. /\ \A d \in Tag \ {t} : type'[d] = type[d] /\ subtype'[d] = subtype[d]
      /\ t \in Live' /\ type'[t] = ty
  BY DEF New, Shape, TypeOK, Live, Types
<1>6. Live' = Live \cup {t}
  BY <1>5 DEF Live
<1>7. \A d \in Live : Contents(d) \subseteq Live
  BY DEF NoDangling
<1>8. Acyclic'
  BY <1>3, AcyclicLess
<1>9. NoDangling'
  <2>1. \A d \in Live' : Contents(d)' \subseteq Live'
    <3>1. Live \subseteq Tag
      BY DEF Live
    <3> QED
      BY <1>3, <1>4, <1>6, <1>7, <3>1
  <2> QED
    BY <1>1, <1>6, <2>1 DEF NoDangling
<1>10. ListsHomogeneous'
  <2> SUFFICES ASSUME NEW l \in Live', type'[l] = "list", NEW v \in Contents(l)'
               PROVE  type'[v] = subtype'[l]
    BY DEF ListsHomogeneous
  <2>1. l \in Live /\ l # t /\ l \in Tag /\ v \in Contents(l)
    BY <1>1, <1>3, <1>4, <1>6 DEF Live
  <2>2. v \in Live /\ v # t /\ v \in Tag
    BY <1>1, <1>7, <2>1 DEF Live
  <2>3. type[v] = subtype[l]
    BY <1>5, <2>1 DEF ListsHomogeneous
  <2> QED
    BY <1>5, <2>1, <2>2, <2>3
<1>11. KeysUnique'
  <2> SUFFICES ASSUME NEW c \in Live', type'[c] = "compound" PROVE KeysDiffer(items'[c])
    BY DEF KeysUnique, KeysDiffer
  <2>1. CASE c = t
    BY <1>1, <1>2, <2>1 DEF KeysDiffer
  <2>2. CASE c # t
    <3>1. c \in Live /\ type[c] = "compound"
      BY <1>5, <1>6, <2>2 DEF Live
    <3> QED
      BY <1>2, <3>1 DEF KeysUnique, KeysDiffer
  <2> QED
    BY <2>1, <2>2
<1> QED
  BY <1>8, <1>9, <1>10, <1>11

\* A tag is freed that nothing points to any more.
LEMMA TreesFree ==
  ASSUME TagInv, Shape', UnrefStep, NEW t \in Tag, t = Head(unrefs), LastReference(t)
  PROVE  Acyclic' /\ NoDangling' /\ ListsHomogeneous' /\ KeysUnique'
<1> USE DEF TagInv
<1>1. Free(t) /\ unrefs' = Children(t) \o Tail(unrefs) /\ UNCHANGED <<owned, root>>
  BY DEF UnrefStep
<1>2. /\ \A d \in Tag \ {t} : type'[d] = type[d] /\ subtype'[d] = subtype[d]
                              /\ items'[d] = items[d] /\ Contents(d)' = Contents(d)
      /\ type'[t] = "free" /\ items'[t] = <<>> /\ Contents(t)' = {}
  <2>1. /\ \A d \in Tag \ {t} : type'[d] = type[d] /\ subtype'[d] = subtype[d]
                                /\ items'[d] = items[d]
        /\ type'[t] = "free" /\ items'[t] = <<>>
    BY <1>1, SMTT(30) DEF Free, Shape, TypeOK
  <2> QED
    BY <2>1 DEF Contents
<1>3. Live' = Live \ {t}
  BY <1>2 DEF Live
<1>4. /\ owned[t] = 0 /\ root # t
      /\ Cardinality(Cells(t)) = 0 /\ Cardinality(Calls(t))' = 0
  BY FreedUnheld
<1>5. \A d \in Tag : t \notin Contents(d)
  <2>1. items \in Rows /\ Cardinality(CellsOf(items, t)) = 0
    BY <1>4, Numbers
  <2> QED
    BY <2>1, CellsHold DEF Contents
<1>6. \A d \in Live : Contents(d) \subseteq Live
  BY DEF NoDangling
<1>7. \A d \in Tag : Contents(d)' \subseteq Contents(d)
  BY <1>2
<1>8. Acyclic'
  BY <1>7, AcyclicLess
<1>9. ASSUME NEW i \in DOMAIN unrefs' PROVE unrefs'[i] \in Live'
  <2>1. unrefs \in Seq(Tag) /\ unrefs # <<>> /\ Tail(unrefs) \in Seq(Tag)
    BY DEF Shape, TypeOK, UnrefStep
  <2>2. t \in Live
    BY <2>1 DEF NoDangling
  <2>3. PICK s \in Seq(Tag) : s = Children(t) /\ \A j \in DOMAIN s : s[j] \in Live
    BY <1>6, <2>2, ChildrenAre
  <2>4. PICK r \in Seq(Tag) : r = Tail(unrefs) /\ \A j \in DOMAIN r : r[j] \in Live
    <3>1. \A j \in DOMAIN Tail(unrefs) : \E h \in DOMAIN unrefs : Tail(unrefs)[j] = unrefs[h]
      BY <2>1
    <3> QED
      BY <2>1, <3>1 DEF NoDangling
  <2>5. /\ unrefs' = s \o r /\ i \in 1 .. Len(s) + Len(r)
        /\ unrefs'[i] = IF i <= Len(s) THEN s[i] ELSE r[i - Len(s)]
    BY <1>1, <2>3, <2>4, ConcatProperties
  <2>6. unrefs'[i] \in Live
    BY <2>3, <2>4, <2>5
  <2>7. unrefs'[i] # t
    <3>1. Calls(t)' = Places(unrefs', {t}) /\ unrefs' \in Seq(Tag)
      BY DEF Calls, Places, Shape, TypeOK
    <3>2. IsFiniteSet(Calls(t)')
      BY <3>1, PlacesFinite
    <3>3. Calls(t)' = {}
      BY <1>4, <3>2, FS_EmptySet
    <3> QED
      BY <3>3 DEF Calls
  <2> QED
    BY <1>3, <2>6, <2>7
<1>10. NoDangling'
  <2>1. \A d \in Live' : Contents(d)' \subseteq Live'
    <3>1. Live \subseteq Tag
      BY DEF Live
    <3> QED
      BY <1>2, <1>3, <1>5, <1>6, <3>1
  <2>2. \A u \in Tag : owned'[u] > 0 => u \in Live'
    <3>1. \A u \in Tag : owned[u] > 0 => u \in Live /\ u # t
      BY <1>4 DEF NoDangling
    <3> QED
      BY <1>1, <1>3, <3>1
  <2>3. root' # Nil => root' \in Live'
    BY <1>1, <1>3, <1>4 DEF NoDangling
  <2> QED
    BY <1>9, <2>1, <2>2, <2>3 DEF NoDangling
<1>11. ListsHomogeneous'
  <2> SUFFICES ASSUME NEW l \in Live', type'[l] = "list", NEW v \in Contents(l)'
               PROVE  type'[v] = subtype'[l]
    BY DEF ListsHomogeneous
  <2>1. l \in Live /\ l # t /\ l \in Tag /\ v \in Contents(l)
    BY <1>2, <1>3 DEF Live
  <2>2. v # t /\ v \in Tag
    BY <1>5, <1>6, <2>1 DEF Live
  <2>3. type[v] = subtype[l]
    BY <1>2, <2>1 DEF ListsHomogeneous
  <2> QED
    BY <1>2, <2>1, <2>2, <2>3
<1>12. KeysUnique'
  <2> SUFFICES ASSUME NEW c \in Live', type'[c] = "compound" PROVE KeysDiffer(items'[c])
    BY DEF KeysUnique, KeysDiffer
  <2>1. c \in Live /\ type[c] = "compound" /\ items'[c] = items[c]
    BY <1>2, <1>3 DEF Live
  <2> QED
    BY <2>1 DEF KeysUnique, KeysDiffer
<1> QED
  BY <1>8, <1>10, <1>11, <1>12

-----------------------------------------------------------------------------
(* The invariant.                                                          *)

\* Before the first call there is no tag.
LEMMA TagInvInit ==
  Init => TagInv
<1> SUFFICES ASSUME Init PROVE TagInv
  OBVIOUS
<1>1. Live = {} /\ \A t \in Tag : Contents(t) = {}
  BY DEF Init, Live, Contents
<1>2. Acyclic
  BY <1>1 DEF Acyclic
<1>3. NoDangling
  BY <1>1 DEF NoDangling, Init
<1>4. ListsHomogeneous /\ KeysUnique
  BY <1>1 DEF ListsHomogeneous, KeysUnique
<1> QED
  BY <1>2, <1>3, <1>4, ShapeInit, CountedInit DEF TagInv

\* Each action keeps the invariant.
LEMMA TagInvNext ==
  TagInv /\ [Next]_vars => TagInv'
<1> SUFFICES ASSUME TagInv, [Next]_vars PROVE TagInv'
  OBVIOUS
<1>1. ASSUME NEW t \in Tag, NEW ty \in Types, New(t, ty) PROVE TagInv'
  <2>1. Shape'
    BY <1>1, ShapeOthers DEF TagInv
  <2> QED
    BY <1>1, <2>1, CountedNew, TreesNew DEF TagInv
<1>2. ASSUME NEW t \in Tag, Ref(t) PROVE TagInv'
  <2>1. Shape'
    BY <1>2, ShapeOthers DEF TagInv, Types
  <2> QED
    BY <1>2, <2>1, CountedRef, TreesSame DEF TagInv, Ref
<1>3. ASSUME NEW t \in Tag, Unref(t) PROVE TagInv'
  <2>1. Shape'
    BY <1>3, ShapeOthers DEF TagInv, Types
  <2> QED
    BY <1>3, <2>1, CountedUnref, TreesSame DEF TagInv, Unref, tags
<1>4. ASSUME NEW t \in Tag, NEW ty \in Types, ListSetType(t, ty) PROVE TagInv'
  <2>1. Shape'
    BY <1>4, ShapeOthers DEF TagInv
  <2> QED
    BY <1>4, <2>1, CountedSame, TreesSame DEF TagInv, ListSetType
<1>5. ASSUME NEW t \in Tag, ListReverse(t) PROVE TagInv'
  <2>1. Shape'
    BY <1>5, ShapeListReverse DEF TagInv
  <2> QED
    BY <1>5, <2>1, CountedListReverse, TreesListReverse DEF TagInv
<1>6. ASSUME NEW l \in Tag, NEW v \in Tag, NEW i \in 0 .. MaxItems, ListInsert(l, i, v)
      PROVE  TagInv'
  <2>1. Shape'
    BY <1>6, ShapeListInsert DEF TagInv
  <2> QED
    BY <1>6, <2>1, CountedListInsert, TreesListInsert DEF TagInv
<1>7. ASSUME NEW l \in Tag, NEW v \in Tag, NEW i \in 0 .. MaxItems,
             ListInsertCrash(l, i, v)
      PROVE  TagInv'
  <2>1. Shape'
    BY <1>7, ShapeOthers DEF TagInv, Types
  <2> QED
    BY <1>7, <2>1, CountedSame, TreesSame DEF TagInv, ListInsertCrash
<1>8. ASSUME NEW l \in Tag, NEW i \in 0 .. MaxItems - 1, ListDelete(l, i) PROVE TagInv'
  <2>1. Shape'
    BY <1>8, ShapeListDelete DEF TagInv
  <2> QED
    BY <1>8, <2>1, CountedListDelete, TreesListDelete DEF TagInv
<1>9. ASSUME NEW c \in Tag, NEW v \in Tag, NEW k \in Key, CompoundSet(c, k, v)
      PROVE  TagInv'
  <2>1. Shape'
    BY <1>9, ShapeCompoundSet DEF TagInv
  <2> QED
    BY <1>9, <2>1, CountedCompoundSet, TreesCompoundSet DEF TagInv
<1>10. ASSUME NEW c \in Tag, NEW k \in Key, CompoundDelete(c, k) PROVE TagInv'
  <2>1. Shape'
    BY <1>10, ShapeCompoundDelete DEF TagInv
  <2> QED
    BY <1>10, <2>1, CountedCompoundDelete, TreesCompoundDelete DEF TagInv
<1>11. ASSUME NEW t \in Tag \cup {Nil}, SetRoot(t) PROVE TagInv'
  <2>1. Shape'
    BY <1>11, ShapeSetRoot DEF TagInv
  <2> QED
    BY <1>11, <2>1, CountedSetRoot, TreesSame DEF TagInv, SetRoot
<1>12. CASE UnrefStep
  <2>1. PICK t \in Tag : t = Head(unrefs)
    BY <1>12, ShapeUnrefStep DEF TagInv
  <2>2. Shape'
    BY <1>12, ShapeUnrefStep DEF TagInv
  <2>3. Acyclic' /\ NoDangling' /\ ListsHomogeneous' /\ KeysUnique'
    <3>1. CASE LastReference(t)
      BY <1>12, <2>1, <2>2, <3>1, TreesFree
    <3>2. CASE ~LastReference(t)
      <4>1. UNCHANGED <<type, items>>
        BY <1>12, <2>1, <3>2 DEF UnrefStep, Drop
      <4> QED
        BY <1>12, <4>1, TreesSame
    <3> QED
      BY <3>1, <3>2
  <2> QED
    BY <1>12, <2>2, <2>3, CountedUnrefStep DEF TagInv
<1>13. CASE UNCHANGED vars
  <2>1. Shape'
    BY <1>13 DEF TagInv, Shape, TypeOK, vars, tags
  <2> QED
    BY <1>13, <2>1, CountedSame, TreesSame DEF TagInv, vars, tags
<1> QED
  BY <1>1, <1>2, <1>3, <1>4, <1>5, <1>6, <1>7, <1>8, <1>9, <1>10, <1>11, <1>12, <1>13
     DEF Next

\* The invariant holds of every behaviour.
LEMMA TagInvariant ==
  Spec => []TagInv
BY TagInvInit, TagInvNext, PTL DEF Spec

-----------------------------------------------------------------------------
(* What the invariant says.                                                *)

\* The counts that the client sees are exact.
LEMMA CountsAreExact ==
  ASSUME TagInv
  PROVE  CountExact
<1> SUFFICES ASSUME ~crashed, NEW t \in Live \ Floating PROVE Settled(t)
  BY DEF CountExact, Settled
<1>1. ~Sinking(t)
  BY DEF Sinking
<1> QED
  BY <1>1 DEF TagInv, Counted, Live

\* What cannot be reached was lost, or is inside of what was.  If not, take of the
\* other tags one that is in none of them.  Its count is not 0, so some cell holds
\* it; but the container is not one of these tags, so it can be reached or is inside
\* of what was lost, and so is the tag.
LEMMA LeaksWereLost ==
  ASSUME TagInv, Ready
  PROVE  Live \subseteq Usable \cup Within({t \in Live : lost[t] > 0})
<1> USE DEF TagInv
<1> DEFINE start == Floating \cup {t \in Tag : owned[t] > 0} \cup ({root} \ {Nil})
           gone == {t \in Live : lost[t] > 0}
           X == Live \ (Usable \cup Within(gone))
<1>1. start \in SUBSET Tag /\ gone \in SUBSET Tag
  BY DEF Live, Floating, Shape, TypeOK
<1>2. /\ start \subseteq Usable /\ \A c \in Usable : Contents(c) \cap Tag \subseteq Usable
      /\ gone \subseteq Within(gone)
      /\ \A c \in Within(gone) : Contents(c) \cap Tag \subseteq Within(gone)
  <2> HIDE DEF gone
  <2> QED
    BY <1>1, WithinHas DEF Usable
<1> SUFFICES ASSUME X # {} PROVE FALSE
  OBVIOUS
<1>3. PICK t \in X : \A c \in X : t \notin Contents(c)
  <2>1. X \in SUBSET Tag
    BY DEF Live
  <2> QED
    BY <2>1 DEF Acyclic
<1>4. t \in Live /\ t \in Tag /\ t \notin start /\ t \notin gone
  BY <1>2 DEF Live
<1>5. refcount[t] # 0 /\ owned[t] = 0 /\ root # t /\ lost[t] = 0
  <2>1. owned[t] \in Nat /\ lost[t] \in Nat
    BY <1>4 DEF Shape, TypeOK
  <2>2. ~(owned[t] > 0) /\ ~(lost[t] > 0)
    BY <1>4
  <2>3. refcount[t] # 0 /\ root # t
    BY <1>4, TagAssumption DEF Floating
  <2> QED
    BY <2>1, <2>2, <2>3
<1>6. Settled(t) /\ Cardinality(Calls(t)) = 0
  BY <1>4, ReadySettled
<1>7. items \in Rows /\ Cells(t) = CellsOf(items, t)
  BY DEF Rows, Shape, TypeOK, Cells, CellsOf
<1>8. Cardinality(CellsOf(items, t)) # 0
  <2>1. Cardinality(CellsOf(items, t)) \in Nat
    BY <1>7, CellsFinite
  <2> QED
    BY <1>5, <1>6, <1>7, <2>1 DEF Settled, Holders
<1>9. PICK c \in Tag : \E i \in DOMAIN items[c] : items[c][i].value = t
  BY <1>7, <1>8, CellsHold
<1>10. t \in Contents(c)
  BY <1>9 DEF Contents
<1>11. c \in Live
  BY <1>10, ContainersLive
<1>12. c \in Usable \/ c \in Within(gone)
  BY <1>3, <1>10, <1>11
<1>13. t \in Usable \/ t \in Within(gone)
  BY <1>2, <1>4, <1>10, <1>12
<1> QED
  BY <1>3, <1>13

\* A count is never below zero (rs_tag_unref does not count a floating tag down, and
\* nothing is unref'd more often than it was ref'd), and containers hold tags.
THEOREM TypeCorrect ==
  Spec => []TypeOK
<1>1. TagInv => TypeOK
  BY DEF TagInv, Shape
<1> QED
  BY <1>1, TagInvariant, PTL

\* Between any two steps, half-way through the recursion of rs_tag_unref too, the
\* contents of live tags, the root, what the client owns and what is still to be
\* unref'd are live: nothing that rs_tag_unref frees is used afterwards.
THEOREM NothingDangles ==
  Spec => []NoDangling
<1>1. TagInv => NoDangling
  BY DEF TagInv
<1> QED
  BY <1>1, TagInvariant, PTL

\* A list holds tags of its type only, so that rs_nbt_write may write one type for
\* all of them.
THEOREM ListsAreHomogeneous ==
  Spec => []ListsHomogeneous
<1>1. TagInv => ListsHomogeneous
  BY DEF TagInv
<1> QED
  BY <1>1, TagInvariant, PTL

\* rs_tag_compound_set leaves one value for a key.
THEOREM KeysAreUnique ==
  Spec => []KeysUnique
<1>1. TagInv => KeysUnique
  BY DEF TagInv
<1> QED
  BY <1>1, TagInvariant, PTL

\* The count of a tag is the number of references to it, and of those that
\* rs_tag_compound_delete has dropped.
THEOREM CountsExact ==
  Spec => []CountExact
BY CountsAreExact, TagInvariant, PTL

\* Whatever leaks was dropped by rs_tag_compound_delete, or is inside of such a tag.
THEOREM OnlyLostTagsLeak ==
  Spec => []OnlyLostLeaks
<1>1. TagInv => OnlyLostLeaks
  BY LeaksWereLost DEF OnlyLostLeaks
<1> QED
  BY <1>1, TagInvariant, PTL
=============================================================================
