----------------------------- MODULE NBTProofs -----------------------------
(***************************************************************************)
(* Theorems about NBT that hold for all trees, names and files: the parser *)
(* stays inside of what it reads, the writer fills its buffer exactly, and *)
(* a file that was damaged is refused.                                     *)
(*                                                                         *)
(* Trees are not recursed over.  State gives the tags of a state a set T   *)
(* in which each has its contents, and the two passes of the writer are    *)
(* compared step by step: both do the same list of steps (Run), since what *)
(* is to be done next depends on nothing else.  A parser in a damaged file *)
(* is followed along the steps by which the file was written (Track), as   *)
(* far as both files agree.                                                *)
(***************************************************************************)
EXTENDS NBT, SequenceLemmas

\* The nodes of compounds, what is still to be written, and the calls in containers.
Node(T) == [key : Seq(0 .. 255), value : T]
Entry(T) ==
    [what : {"tag"}, key : {<<>>}, tag : T]
    \cup [what : {"node"}, key : Seq(0 .. 255), tag : T]
    \cup {TheEnd}
Call(T) ==
    [type : {TAG_LIST}, subtype : 0 .. 255, count : Nat \ {0}, key : {<<>>}, items : Seq(T)]
    \cup [type : {TAG_COMPOUND}, subtype : {TAG_END}, count : {0}, key : Seq(0 .. 255),
          items : Seq(Node(T))]

\* T has all tags that are around, and with each tag what that contains.
Closed(T) == Tags \subseteq T /\ \A t \in T : TagOver(T, t)

Reading == {"parse", "node", "return"}

FileTyped ==
    /\ bytes \in Seq(0 .. 255) /\ at \in 0 .. Len(bytes)
    /\ pc \in {"idle", "measure", "write"} => at = 0
    /\ pc \in {"idle", "measure", "write", "failed", "crashed"} \cup Reading

WriterTyped(T) ==
    /\ root \in T \cup {Nil} /\ root_name \in Seq(0 .. 255)
    /\ rawlen \in Nat /\ todo \in Seq(Entry(T))
    /\ pc \in {"measure", "write"} => root \in T

ParserTyped(T) ==
    /\ pc = "return" => arg \in T \cup {Nil}
    /\ pc \in Reading => name \in Seq(0 .. 255)
    /\ stack \in Seq(Call(T))
    /\ stack # <<>> => pc \in Reading \cup {"crashed"}
    /\ pc = "node" => InA(TAG_COMPOUND)

\* The steps of a pass over the tree t: what is left to do, and how many bytes the
\* part that is done was counted with.
Steps(T) == Seq([left : Seq(Entry(T)), sum : Nat])

Follows(s, t) ==
    /\ s.left # <<>>
    /\ t.left = Parts(Head(s.left)) \o Tail(s.left)
    /\ t.sum = s.sum + LengthOf(Head(s.left))

Run(T, t, h) ==
    /\ h \in Steps(T) /\ h # <<>>
    /\ h[1] = [left |-> <<ATag(t)>>, sum |-> 0]
    /\ \A i \in 1 .. Len(h) - 1 : Follows(h[i], h[i + 1])
    /\ \A i \in 1 .. Len(h) : h[i].sum <= h[Len(h)].sum

\* How many compounds are still to be ended: their last byte was counted with
\* their beginning.
Ends(s) == Occurs(s, {TheEnd})

\* The first pass has done the steps of some run, the second those of the first up to
\* one of them, and rawlen is what the whole run counts.
Measured(T) ==
    /\ pc = "measure" =>
          \E h \in Steps(T) : Run(T, root, h) /\ h[Len(h)] = [left |-> todo, sum |-> rawlen]
    /\ pc = "write" =>
          \E h \in Steps(T) :
             /\ Run(T, root, h) /\ h[Len(h)].left = <<>>
             /\ rawlen = h[Len(h)].sum + 3 + Len(root_name)
             /\ \E i \in 1 .. Len(h) :
                   /\ h[i].left = todo
                   /\ Len(bytes) + Ends(todo) = 3 + Len(root_name) + h[i].sum

State(T) ==
    Closed(T) /\ FileTyped /\ WriterTyped(T) /\ ParserTyped(T) /\ Measured(T)

NBTInv == \E T : State(T)

-----------------------------------------------------------------------------
(* Lemmas about the operators.                                             *)

\* A sequence over a set is one over every larger set.
LEMMA SeqWider ==
  ASSUME NEW S, NEW T, S \subseteq T
  PROVE  Seq(S) \subseteq Seq(T)
  OBVIOUS

\* With more tags around, what was typed stays so.
LEMMA Wider ==
  ASSUME NEW T, NEW U, T \subseteq U
  PROVE  /\ Entry(T) \subseteq Entry(U) /\ Seq(Entry(T)) \subseteq Seq(Entry(U))
         /\ Call(T) \subseteq Call(U) /\ Seq(Call(T)) \subseteq Seq(Call(U))
         /\ \A t : TagOver(T, t) => TagOver(U, t)
<1>1. Seq(T) \subseteq Seq(U)
  BY SeqWider
<1>2. Node(T) \subseteq Node(U)
  BY DEF Node
<1>3. Seq(Node(T)) \subseteq Seq(Node(U))
  BY <1>2, SeqWider
<1>4. Entry(T) \subseteq Entry(U)
  BY DEF Entry
<1>5. Call(T) \subseteq Call(U)
  <2>1. PICK A, B, C, D : A = Seq(T) /\ B = Seq(U) /\ C = Seq(Node(T)) /\ D = Seq(Node(U))
    OBVIOUS
  <2> QED
    BY <1>1, <1>3 DEF Call
<1>6. ASSUME NEW t, TagOver(T, t) PROVE TagOver(U, t)
  <2>1. CASE t.type \in Scalar /\ t.int \in Int
    BY <2>1 DEF TagOver
  <2>2. CASE t.type \in Array /\ t.data \in Seq(Int)
    BY <2>2 DEF TagOver
  <2>3. CASE t.type = TAG_STRING /\ t.string \in Seq(0 .. 255)
    BY <2>3 DEF TagOver
  <2>4. CASE t.type = TAG_LIST /\ t.subtype \in 0 .. 255 /\ t.items \in Seq(T)
    <3>1. t.items \in Seq(U)
      BY <1>1, <2>4
    <3> QED
      BY <2>4, <3>1 DEF TagOver
  <2>5. CASE t.type = TAG_COMPOUND /\ t.items \in Seq(Node(T))
    <3>1. t.items \in Seq(Node(U))
      BY <1>3, <2>5
    <3> QED
      BY <2>5, <3>1 DEF TagOver, Node
  <2> QED
    BY <1>6, <2>1, <2>2, <2>3, <2>4, <2>5 DEF TagOver, Node
<1> QED
  BY <1>4, <1>5, <1>6, SeqWider

\* A tag over tags that are around may be one more.
LEMMA OneMoreTag ==
  ASSUME NEW T, Closed(T), NEW x, TagOver(T, x)
  PROVE  Closed(T \cup {x})
<1>1. \A t : TagOver(T, t) => TagOver(T \cup {x}, t)
  BY Wider
<1> QED
  BY <1>1 DEF Closed

\* One byte.
LEMMA OneByte ==
  ASSUME NEW x \in 0 .. 255
  PROVE  <<x>> \in Seq(0 .. 255) /\ Len(<<x>>) = 1
  OBVIOUS

\* Bytes behind bytes are bytes.
LEMMA MoreBytes ==
  ASSUME NEW a \in Seq(0 .. 255), NEW b \in Seq(0 .. 255)
  PROVE  a \o b \in Seq(0 .. 255) /\ Len(a \o b) = Len(a) + Len(b)
<1>1. \A S : \A c, d \in Seq(S) : c \o d \in Seq(S) /\ Len(c \o d) = Len(c) + Len(d)
  BY ConcatProperties
<1> QED
  BY <1>1

\* Numbers have as many bytes as they are wide.
LEMMA BigEndianBytes ==
  ASSUME NEW n \in Int, NEW w \in {1, 2, 4}
  PROVE  BigEndian(n, w) \in Seq(0 .. 255) /\ Len(BigEndian(n, w)) = w
<1>1. \A m \in Int : m % 256 \in 0 .. 255
  OBVIOUS
<1>2. n \div 256 \in Int /\ n \div 65536 \in Int /\ n \div 16777216 \in Int
  BY SMT
<1>3. CASE w = 1
  BY <1>1, <1>3, SMT DEF BigEndian
<1>4. CASE w = 2
  BY <1>1, <1>2, <1>4, SMT DEF BigEndian
<1>5. CASE w = 4
  BY <1>1, <1>2, <1>5, SMT DEF BigEndian
<1> QED
  BY <1>3, <1>4, <1>5

\* A byte is a number of eight bits.
LEMMA ByteNumber ==
  ASSUME NEW s \in Seq(0 .. 255), NEW i \in 1 .. Len(s)
  PROVE  s[i] \in 0 .. 255 /\ s[i] \in Nat
<1>1. PICK x \in 0 .. 255 : x = s[i]
  BY ElementOfSeq
<1>2. x \in Nat
  OBVIOUS
<1> QED
  BY <1>1, <1>2

\* Bytes are a number.
LEMMA ValueNumbers ==
  ASSUME NEW b \in Seq(0 .. 255), Len(b) \in {1, 2, 4}
  PROVE  Unsigned(b) \in Nat /\ Signed(b) \in Int
<1>1. \A i \in 1 .. Len(b) : b[i] \in Nat
  BY ByteNumber
<1>2. \A f \in Int : ValueOf(b, f) \in Int /\ (f >= 0 => ValueOf(b, f) >= 0)
  <2> SUFFICES ASSUME NEW f \in Int
               PROVE  ValueOf(b, f) \in Int /\ (f >= 0 => ValueOf(b, f) >= 0)
    OBVIOUS
  <2>1. CASE Len(b) = 1
    BY <2>1 DEF ValueOf
  <2>2. CASE Len(b) = 2
    <3>1. b[2] \in Nat
      BY <1>1, <2>2
    <3> QED
      BY <2>2, <3>1 DEF ValueOf
  <2>3. CASE Len(b) = 4
    <3>1. b[2] \in Nat /\ b[3] \in Nat /\ b[4] \in Nat
      BY <1>1, <2>3
    <3> QED
      BY <2>3, <3>1 DEF ValueOf
  <2> QED
    BY <2>1, <2>2, <2>3
<1>3. b[1] \in Nat
  BY <1>1
<1> QED
  <2>1. Huge \in Nat
    BY SMT DEF Huge
  <2>2. Unsigned(b) \in Nat
    <3>1. PICK f \in Nat : f = b[1]
      BY <1>3
    <3>2. ValueOf(b, f) \in Nat
      BY <1>2
    <3> QED
      BY <2>1, <3>1, <3>2 DEF Unsigned
  <2>3. Signed(b) \in Int
    <3>1. PICK f \in Int : f = IF b[1] < 128 THEN b[1] ELSE b[1] - 256
      BY <1>3
    <3> QED
      BY <1>2, <3>1 DEF Signed
  <2> QED
    BY <2>2, <2>3

\* Some bytes of the file: k of them, from the m-th to the n-th.
Part(s, m, n, k) ==
    /\ s \in Seq(0 .. 255) /\ m \in Nat /\ n \in Nat /\ k \in Nat
    /\ m >= 1 /\ n <= Len(s) /\ k = n - m + 1

Octets(s, k) == s \in Seq(0 .. 255) /\ Len(s) = k

\* A part of a file is as many bytes as it is long.
LEMMA SomeBytes ==
  ASSUME NEW s, NEW m, NEW n, NEW k, Part(s, m, n, k)
  PROVE  Octets(SubSeq(s, m, n), k)
<1>1. /\ s \in Seq(0 .. 255) /\ m \in Nat /\ n \in Nat /\ m >= 1 /\ n <= Len(s)
      /\ k = IF m <= n THEN n - m + 1 ELSE 0
  BY DEF Part
<1>2. ASSUME NEW i \in m .. n PROVE s[i] \in 0 .. 255
  <2>1. i \in 1 .. Len(s)
    BY <1>1, LenProperties
  <2> QED
    BY <1>1, <2>1, ByteNumber
<1>3. /\ SubSeq(s, m, n) \in Seq(0 .. 255)
      /\ Len(SubSeq(s, m, n)) = IF m <= n THEN n - m + 1 ELSE 0
  BY <1>1, <1>2, SubSeqProperties
<1> QED
  BY <1>1, <1>3 DEF Octets

-----------------------------------------------------------------------------
(* What is written, entry by entry.                                        *)

\* What a tag of each type has.
LEMMA TagKinds ==
  ASSUME NEW T, NEW t, TagOver(T, t)
  PROVE  /\ t.type \in Scalar \cup Array \cup {TAG_STRING} \cup Container
         /\ t.type \in Scalar => t.int \in Int
         /\ t.type \in Array => t.data \in Seq(Int)
         /\ t.type = TAG_STRING => t.string \in Seq(0 .. 255)
         /\ t.type = TAG_LIST => t.subtype \in 0 .. 255 /\ t.items \in Seq(T)
         /\ t.type = TAG_COMPOUND => t.items \in Seq(Node(T))
  BY DEF TagOver, Node, Scalar, Array, Container, TAG_BYTE, TAG_SHORT, TAG_INT,
         TAG_BYTE_ARRAY, TAG_STRING, TAG_LIST, TAG_COMPOUND, TAG_INT_ARRAY

\* How many ends of compounds there are.
LEMMA EndsCount ==
  ASSUME NEW T, NEW s \in Seq(Entry(T)), NEW t \in Seq(Entry(T))
  PROVE  /\ Ends(s) \in Nat
         /\ Ends(s \o t) = Ends(s) + Ends(t)
         /\ s # <<>> => Ends(s) = (IF Head(s) = TheEnd THEN 1 ELSE 0) + Ends(Tail(s))
<1>1. \A X : /\ Occurs(s, X) \in Nat
            /\ Occurs(s \o t, X) = Occurs(s, X) + Occurs(t, X)
  BY PlacesFinite, OccursConcat
<1>2. ASSUME s # <<>>, NEW X
      PROVE  Occurs(s, X) = (IF Head(s) \in X THEN 1 ELSE 0) + Occurs(Tail(s), X)
  BY <1>2, OccursHeadTail
<1>3. Head(s) \in {TheEnd} <=> Head(s) = TheEnd
  OBVIOUS
<1> QED
  BY <1>1, <1>2, <1>3 DEF Ends

\* The types are bytes.
LEMMA TypeBytes ==
  ASSUME NEW x \in Scalar \cup Array \cup {TAG_STRING} \cup Container
  PROVE  x \in 1 .. 11 /\ x \in 0 .. 255
  BY DEF Scalar, Array, Container, TAG_BYTE, TAG_SHORT, TAG_INT,
         TAG_BYTE_ARRAY, TAG_STRING, TAG_LIST, TAG_COMPOUND, TAG_INT_ARRAY

\* How wide numbers are.
LEMMA Widths ==
  /\ \A x : Width(x) \in {1, 2, 4}
  /\ \A x \in Array : Width(x) \in {1, 4}
  BY DEF Width, Array, TAG_BYTE, TAG_SHORT, TAG_INT, TAG_BYTE_ARRAY, TAG_INT_ARRAY

\* An entry is a tag, a node or the end of a compound.
LEMMA EntryKinds ==
  ASSUME NEW T, NEW e \in Entry(T)
  PROVE  \/ e.what = "tag" /\ e.tag \in T /\ e # TheEnd
         \/ e.what = "node" /\ e.tag \in T /\ e.key \in Seq(0 .. 255) /\ e # TheEnd
         \/ e.what = "end" /\ e = TheEnd
  BY DEF Entry, TheEnd

\* What follows an entry are entries; only a compound has an end among them.
LEMMA PartsEntries ==
  ASSUME NEW T, Closed(T), NEW e \in Entry(T)
  PROVE  /\ Parts(e) \in Seq(Entry(T))
         /\ Ends(Parts(e)) = IF e.what = "tag" /\ e.tag.type = TAG_COMPOUND THEN 1 ELSE 0
<1>1. \A t \in T : ATag(t) \in Entry(T) /\ ATag(t) # TheEnd
  BY DEF Entry, ATag, TheEnd
<1>2. \A n \in Node(T) : ANode(n) \in Entry(T) /\ ANode(n) # TheEnd
  BY DEF Entry, ANode, TheEnd, Node
<1>3. TheEnd \in Entry(T)
  BY DEF Entry
<1>4. CASE e.what = "node"
  <2>1. Parts(e) = <<ATag(e.tag)>> /\ e.tag \in T
    BY <1>4, EntryKinds DEF Parts
  <2>2. Parts(e) \in Seq(Entry(T))
    BY <1>1, <2>1
  <2>3. Ends(Parts(e)) = 0
    BY <1>1, <2>1, OccursOnce DEF Ends
  <2> QED
    BY <1>4, <2>2, <2>3
<1>5. CASE e.what = "tag" /\ e.tag.type = TAG_LIST
  <2>1. e.tag \in T /\ e.tag.items \in Seq(T)
    BY <1>5, EntryKinds, TagKinds DEF Closed
  <2> DEFINE p == [i \in DOMAIN e.tag.items |-> ATag(e.tag.items[i])]
  <2>2. Parts(e) = p
    BY <1>5 DEF Parts
  <2>3. \A i \in DOMAIN e.tag.items : e.tag.items[i] \in T
    BY <2>1
  <2>4. DOMAIN e.tag.items = 1 .. Len(e.tag.items) /\ Len(e.tag.items) \in Nat
    BY <2>1
  <2>5. p \in Seq(Entry(T)) /\ DOMAIN p = 1 .. Len(e.tag.items) /\ \A i \in DOMAIN p : p[i] \notin {TheEnd}
    BY <1>1, <2>3, <2>4
  <2>6. Ends(p) = 0
    BY <2>5, PlacesFinite DEF Ends
  <2> HIDE DEF p
  <2> QED
    BY <1>5, <2>2, <2>5, <2>6 DEF TAG_LIST, TAG_COMPOUND
<1>6. CASE e.what = "tag" /\ e.tag.type = TAG_COMPOUND
  <2>1. e.tag \in T /\ e.tag.items \in Seq(Node(T))
    BY <1>6, EntryKinds, TagKinds DEF Closed
  <2> DEFINE p == [i \in DOMAIN e.tag.items |-> ANode(e.tag.items[i])]
  <2>2. Parts(e) = Append(p, TheEnd)
    BY <1>6 DEF Parts, TAG_LIST, TAG_COMPOUND
  <2>3. \A i \in DOMAIN e.tag.items : e.tag.items[i] \in Node(T)
    BY <2>1
  <2>4. DOMAIN e.tag.items = 1 .. Len(e.tag.items) /\ Len(e.tag.items) \in Nat
    BY <2>1
  <2>5. p \in Seq(Entry(T)) /\ DOMAIN p = 1 .. Len(e.tag.items) /\ \A i \in DOMAIN p : p[i] \notin {TheEnd}
    BY <1>2, <2>3, <2>4
  <2>6. Ends(p) = 0
    BY <2>5, PlacesFinite DEF Ends
  <2> HIDE DEF p
  <2>7. Append(p, TheEnd) = p \o <<TheEnd>> /\ <<TheEnd>> \in Seq(Entry(T))
    BY <1>3, <2>5, AppendIsConcat
  <2>8. Ends(Parts(e)) = Ends(p) + Ends(<<TheEnd>>)
    <3>1. p \in Seq(Entry(T))
      BY <2>5
    <3> QED
      BY <2>2, <2>7, <3>1, EndsCount
  <2>9. Ends(<<TheEnd>>) = 1
    BY OccursOnce DEF Ends
  <2> QED
    BY <1>3, <1>6, <2>2, <2>5, <2>6, <2>8, <2>9, AppendProperties
<1>7. CASE e.what # "node" /\ ~(e.what = "tag" /\ e.tag.type \in Container)
  <2>1. Parts(e) = <<>>
    BY <1>7 DEF Parts, Container
  <2> QED
    BY <1>7, <2>1, OccursNowhere DEF Ends, Container
<1> QED
  BY <1>4, <1>5, <1>6, <1>7 DEF Container

\* Strings and arrays have as many bytes as they are counted with.
LEMMA StringCounted ==
  ASSUME NEW s \in Seq(0 .. 255)
  PROVE  StringBytes(s) \in Seq(0 .. 255) /\ Len(StringBytes(s)) = 2 + Len(s)
<1>1. PICK b \in Seq(0 .. 255) : b = BigEndian(Len(s), 2) /\ Len(b) = 2
  BY BigEndianBytes
<1>2. b \o s \in Seq(0 .. 255) /\ Len(b \o s) = Len(b) + Len(s)
  BY MoreBytes
<1> QED
  BY <1>1, <1>2 DEF StringBytes

\* An array is written in four bytes and those of its numbers.
LEMMA ArrayCounted ==
  ASSUME NEW t, t.type \in Array, t.data \in Seq(Int)
  PROVE  /\ ArrayBytes(t) \in Seq(0 .. 255)
         /\ Len(ArrayBytes(t)) = 4 + Width(t.type) * Len(t.data)
         /\ Width(t.type) * Len(t.data) \in Nat
<1>1. PICK w \in {1, 4} : w = Width(t.type)
  BY Widths
<1>2. PICK n \in Nat : n = Len(t.data)
  OBVIOUS
<1>3. PICK m \in Nat : m = w * n
  <2>1. CASE w = 1
    BY <2>1
  <2>2. CASE w = 4
    BY <2>2
  <2> QED
    BY <2>1, <2>2
<1> DEFINE b == [i \in 1 .. m |-> BigEndian(t.data[((i - 1) \div w) + 1], w)[((i - 1) % w) + 1]]
<1>4. ASSUME NEW i \in 1 .. m PROVE b[i] \in 0 .. 255
  <2>1. PICK j \in 1 .. n : j = ((i - 1) \div w) + 1
    <3>1. CASE w = 1
      BY <1>3, <3>1
    <3>2. CASE w = 4
      BY <1>3, <3>2
    <3> QED
      BY <3>1, <3>2
  <2>2. PICK k \in 1 .. w : k = ((i - 1) % w) + 1
    <3>1. CASE w = 1
      BY <1>3, <3>1
    <3>2. CASE w = 4
      BY <1>3, <3>2
    <3> QED
      BY <3>1, <3>2
  <2>3. t.data[j] \in Int
    BY <1>2, ElementOfSeq
  <2>4. PICK c \in Seq(0 .. 255) : c = BigEndian(t.data[j], w) /\ Len(c) = w
    BY <2>3, BigEndianBytes
  <2>5. c[k] \in 0 .. 255
    BY <2>4, ByteNumber
  <2> QED
    BY <2>1, <2>2, <2>4, <2>5
<1>5. b \in Seq(0 .. 255) /\ Len(b) = m
  <2>1. b \in [1 .. m -> 0 .. 255]
    BY <1>4
  <2> HIDE DEF b
  <2>2. \A S : \A f \in [1 .. m -> S] : f \in Seq(S) /\ Len(f) = m
    OBVIOUS
  <2> QED
    BY <2>1, <2>2
<1> HIDE DEF b
<1>6. PICK a \in Seq(0 .. 255) : a = BigEndian(n, 4) /\ Len(a) = 4
  BY BigEndianBytes
<1>7. a \o b \in Seq(0 .. 255) /\ Len(a \o b) = Len(a) + Len(b)
  BY <1>5, MoreBytes
<1>8. ArrayBytes(t) = a \o b
  BY <1>1, <1>2, <1>3, <1>6 DEF ArrayBytes, b
<1> QED
  BY <1>1, <1>2, <1>3, <1>5, <1>6, <1>7, <1>8

\* The two passes agree on every entry, but for the last byte of a compound.
LEMMA EntryCounted ==
  ASSUME NEW T, Closed(T), NEW e \in Entry(T)
  PROVE  /\ LengthOf(e) \in Nat
         /\ BytesOf(e) \in Seq(0 .. 255)
         /\ Len(BytesOf(e)) + Ends(Parts(e)) = LengthOf(e) + (IF e = TheEnd THEN 1 ELSE 0)
<1>1. Ends(Parts(e)) = IF e.what = "tag" /\ e.tag.type = TAG_COMPOUND THEN 1 ELSE 0
  BY PartsEntries
<1>2. CASE e.what = "node"
  <2>1. e.tag \in T /\ e.key \in Seq(0 .. 255) /\ e # TheEnd
    BY <1>2, EntryKinds
  <2>2. e.tag.type \in 0 .. 255
    BY <2>1, TagKinds, TypeBytes DEF Closed
  <2>3. PICK b \in Seq(0 .. 255) : b = StringBytes(e.key) /\ Len(b) = 2 + Len(e.key)
    BY <2>1, StringCounted
  <2>4. PICK a \in Seq(0 .. 255) : a = <<e.tag.type>> /\ Len(a) = 1
    BY <2>2, OneByte
  <2>5. a \o b \in Seq(0 .. 255) /\ Len(a \o b) = Len(a) + Len(b)
    BY MoreBytes
  <2>6. BytesOf(e) = a \o b /\ LengthOf(e) = 3 + Len(e.key)
    BY <1>2, <2>1, <2>3, <2>4 DEF BytesOf, LengthOf
  <2> QED
    BY <1>1, <1>2, <2>1, <2>3, <2>4, <2>5, <2>6
<1>3. CASE e.what = "end"
  <2>1. e = TheEnd
    BY <1>3, EntryKinds
  <2>2. BytesOf(e) = <<0>> /\ LengthOf(e) = 0
    BY <1>3 DEF BytesOf, LengthOf, TAG_END
  <2>3. <<0>> \in Seq(0 .. 255) /\ Len(<<0>>) = 1
    OBVIOUS
  <2> QED
    BY <1>1, <1>3, <2>1, <2>2, <2>3
<1>4. CASE e.what = "tag"
  <2>1. PICK t \in T : t = e.tag /\ e # TheEnd
    BY <1>4, EntryKinds
  <2>2. TagOver(T, t)
    BY DEF Closed
  <2>3. BytesOf(e) = TagBytes(t) /\ LengthOf(e) = TagLength(t)
    BY <1>4, <2>1 DEF BytesOf, LengthOf
  <2>4. CASE t.type \in Scalar
    <3>1. PICK w \in {1, 2, 4} : w = Width(t.type)
      BY Widths
    <3>2. TagBytes(t) = BigEndian(t.int, w) /\ TagLength(t) = w /\ t.type # TAG_COMPOUND
      BY <2>4, <3>1 DEF TagBytes, TagLength, Scalar, TAG_BYTE, TAG_SHORT, TAG_INT, TAG_COMPOUND
    <3>3. t.int \in Int
      BY <2>2, <2>4, TagKinds
    <3>4. PICK c \in Seq(0 .. 255) : c = BytesOf(e) /\ Len(c) = w
      <4>1. BigEndian(t.int, w) \in Seq(0 .. 255) /\ Len(BigEndian(t.int, w)) = w
        BY <3>3, BigEndianBytes
      <4>2. BytesOf(e) = BigEndian(t.int, w)
        BY <2>3, <3>2
      <4> QED
        BY <4>1, <4>2
    <3>5. Ends(Parts(e)) = 0 /\ LengthOf(e) = w
      BY <1>1, <2>1, <2>3, <3>2
    <3> QED
      BY <2>1, <3>4, <3>5
  <2>5. CASE t.type \in Array
    <3>1. t.type \notin Scalar /\ t.type # TAG_COMPOUND
      BY <2>5 DEF Scalar, Array, TAG_BYTE, TAG_SHORT, TAG_INT, TAG_COMPOUND, TAG_BYTE_ARRAY, TAG_INT_ARRAY
    <3>2. TagBytes(t) = ArrayBytes(t) /\ TagLength(t) = 4 + Width(t.type) * Len(t.data)
      BY <2>5, <3>1 DEF TagBytes, TagLength
    <3>3. t.data \in Seq(Int)
      BY <2>2, <2>5, TagKinds
    <3>4. PICK n \in Nat : n = Width(t.type) * Len(t.data)
      BY <2>5, <3>3, ArrayCounted
    <3>5. ArrayBytes(t) \in Seq(0 .. 255) /\ Len(ArrayBytes(t)) = 4 + n
      BY <2>5, <3>3, <3>4, ArrayCounted
    <3> QED
      BY <1>1, <2>1, <2>3, <3>1, <3>2, <3>4, <3>5
  <2>6. CASE t.type = TAG_STRING
    <3>1. t.type \notin Scalar \cup Array /\ t.type # TAG_COMPOUND
      BY <2>6 DEF Scalar, Array, TAG_BYTE, TAG_SHORT, TAG_INT, TAG_COMPOUND, TAG_BYTE_ARRAY,
                  TAG_INT_ARRAY, TAG_STRING
    <3>2. TagBytes(t) = StringBytes(t.string) /\ TagLength(t) = 2 + Len(t.string)
      BY <2>6, <3>1 DEF TagBytes, TagLength
    <3>3. t.string \in Seq(0 .. 255)
      BY <2>2, <2>6, TagKinds
    <3> QED
      BY <1>1, <2>1, <2>3, <3>1, <3>2, <3>3, StringCounted
  <2>7. CASE t.type = TAG_LIST
    <3>1. t.type \notin Scalar \cup Array \cup {TAG_STRING, TAG_COMPOUND}
      BY <2>7 DEF Scalar, Array, TAG_BYTE, TAG_SHORT, TAG_INT, TAG_COMPOUND, TAG_BYTE_ARRAY,
                  TAG_INT_ARRAY, TAG_STRING, TAG_LIST
    <3>2. TagBytes(t) = <<t.subtype>> \o BigEndian(Len(t.items), 4) /\ TagLength(t) = 5
      BY <2>7, <3>1 DEF TagBytes, TagLength
    <3>3. t.subtype \in 0 .. 255 /\ t.items \in Seq(T)
      BY <2>2, <2>7, TagKinds
    <3>4. PICK b \in Seq(0 .. 255) : b = BigEndian(Len(t.items), 4) /\ Len(b) = 4
      <4>1. Len(t.items) \in Int
        BY <3>3
      <4> QED
        BY <4>1, BigEndianBytes
    <3>5. PICK a \in Seq(0 .. 255) : a = <<t.subtype>> /\ Len(a) = 1
      BY <3>3, OneByte
    <3>6. a \o b \in Seq(0 .. 255) /\ Len(a \o b) = Len(a) + Len(b)
      BY MoreBytes
    <3>7. PICK c \in Seq(0 .. 255) : c = BytesOf(e) /\ Len(c) = 5
      <4>1. BytesOf(e) = a \o b
        BY <2>3, <3>2, <3>4, <3>5
      <4>2. Len(a \o b) = 5
        <5>1. Len(a) = 1 /\ Len(b) = 4
          BY <3>4, <3>5
        <5> QED
          BY <3>6, <5>1
      <4> QED
        BY <3>6, <4>1, <4>2
    <3>8. Ends(Parts(e)) = 0 /\ LengthOf(e) = 5
      BY <1>1, <2>1, <2>3, <3>1, <3>2
    <3> QED
      BY <2>1, <3>7, <3>8
  <2>8. CASE t.type = TAG_COMPOUND
    <3>1. t.type \notin Scalar \cup Array \cup {TAG_STRING, TAG_LIST}
      BY <2>8 DEF Scalar, Array, TAG_BYTE, TAG_SHORT, TAG_INT, TAG_COMPOUND, TAG_BYTE_ARRAY,
                  TAG_INT_ARRAY, TAG_STRING, TAG_LIST
    <3>2. TagBytes(t) = <<>> /\ TagLength(t) = 1
      BY <2>8, <3>1 DEF TagBytes, TagLength
    <3> QED
      BY <1>1, <1>4, <2>1, <2>3, <2>8, <3>2
  <2> QED
    BY <2>2, <2>4, <2>5, <2>6, <2>7, <2>8, TagKinds DEF Container
<1> QED
  BY <1>2, <1>3, <1>4, EntryKinds

\* One step of a pass: what is left are entries again, and what is written and what
\* is counted grow alike.
StepDone(T, s, r) ==
    /\ LengthOf(Head(s)) \in Nat /\ BytesOf(Head(s)) \in Seq(0 .. 255)
    /\ r \in Seq(Entry(T)) /\ Ends(s) \in Nat /\ Ends(r) \in Nat
    /\ Len(BytesOf(Head(s))) + Ends(r) = Ends(s) + LengthOf(Head(s))

\* Whatever is next to be written, what is left is entries, and as much is counted as
\* is written, but for the end of a compound.
LEMMA EntryStep ==
  ASSUME NEW T, Closed(T), NEW s \in Seq(Entry(T)), s # <<>>, NEW r, r = Parts(Head(s)) \o Tail(s)
  PROVE  StepDone(T, s, r)
<1>1. PICK e \in Entry(T), u \in Seq(Entry(T)) : e = Head(s) /\ u = Tail(s)
  BY HeadTailProperties
<1>2. PICK p \in Seq(Entry(T)) : p = Parts(e)
  BY PartsEntries
<1>3. PICK n \in Nat, b \in Seq(0 .. 255) :
        /\ n = LengthOf(e) /\ b = BytesOf(e)
        /\ Len(b) + Ends(p) = n + (IF e = TheEnd THEN 1 ELSE 0)
  BY <1>2, EntryCounted
<1>4. r = p \o u
  BY <1>1, <1>2
<1>5. r \in Seq(Entry(T))
  BY <1>4, ConcatProperties
<1>6. Ends(r) = Ends(p) + Ends(u)
  BY <1>4, EndsCount
<1>7. Ends(s) = (IF e = TheEnd THEN 1 ELSE 0) + Ends(u)
  BY <1>1, EndsCount
<1>8. PICK i \in Nat, j \in Nat, k \in Nat : i = Ends(p) /\ j = Ends(u) /\ k = Len(b)
  <2>1. Ends(p) \in Nat /\ Ends(u) \in Nat
    BY EndsCount
  <2> QED
    BY <2>1
<1>9. Ends(s) \in Nat /\ Ends(r) \in Nat
  BY <1>5, EndsCount
<1>10. PICK x \in Nat, y \in Nat : x = Ends(s) /\ y = Ends(r)
  BY <1>9
<1>11. k + y = x + n
  <2>1. CASE e = TheEnd
    <3>1. k + i = n + 1 /\ y = i + j /\ x = 1 + j
      BY <1>3, <1>6, <1>7, <1>8, <1>10, <2>1
    <3> QED
      BY <3>1
  <2>2. CASE e # TheEnd
    <3>1. k + i = n + 0 /\ y = i + j /\ x = 0 + j
      BY <1>3, <1>6, <1>7, <1>8, <1>10, <2>2
    <3> QED
      BY <3>1
  <2> QED
    BY <2>1, <2>2
<1> QED
  BY <1>1, <1>3, <1>5, <1>8, <1>9, <1>10, <1>11 DEF StepDone

-----------------------------------------------------------------------------
(* Every step keeps the invariant.  Most keep the set of tags.             *)

\* Outside of the writer nothing is measured.
LEMMA NotWriting ==
  ASSUME NEW T, pc \notin {"measure", "write"}
  PROVE  Measured(T)
  BY DEF Measured

\* What is read is inside of the file: the facts the parser's steps start from.
LEMMA FileFacts ==
  ASSUME FileTyped
  PROVE  /\ bytes \in Seq(0 .. 255) /\ Len(bytes) \in Nat /\ at \in Nat /\ at <= Len(bytes)
         /\ Left \in Nat /\ at + Left = Len(bytes)
  BY LenProperties DEF FileTyped, Left

\* At first the tags around are those of clients.
LEMMA FirstState ==
  ASSUME Init
  PROVE  State(Tags)
<1>1. Closed(Tags)
  BY TagsAssumption DEF Closed
<1>2. FileTyped
  BY DEF Init, FileTyped
<1>3. WriterTyped(Tags)
  BY DEF Init, WriterTyped
<1>4. ParserTyped(Tags)
  BY DEF Init, ParserTyped, Reading
<1>5. Measured(Tags)
  BY DEF Init, Measured
<1> QED
  BY <1>1, <1>2, <1>3, <1>4, <1>5 DEF State

\* The client changes the RSNBT; the file is forgotten.
LEMMA SetNameStep ==
  ASSUME NEW T, State(T), NEW n \in Names, SetName(n)
  PROVE  State(T)'
<1>1. /\ pc = "idle" /\ pc' = "idle" /\ bytes' = <<>> /\ root_name' = n /\ root' = root
      /\ UNCHANGED <<rawlen, todo, at, stack, arg, name>>
  BY DEF SetName, NewFile, Idle, writer, parser
<1>2. Closed(T)'
  BY DEF State, Closed, TagOver
<1>3. FileTyped'
  BY <1>1 DEF State, FileTyped
<1>4. WriterTyped(T)'
  BY <1>1, BytesAssumption DEF State, WriterTyped
<1>5. ParserTyped(T)'
  BY <1>1 DEF State, ParserTyped, Reading
<1>6. Measured(T)'
  BY <1>1 DEF Measured
<1> QED
  BY <1>2, <1>3, <1>4, <1>5, <1>6 DEF State

\* A root that is set is a tag that is around.
LEMMA SetRootStep ==
  ASSUME NEW T, State(T), NEW t \in Trees, SetRoot(t)
  PROVE  State(T)'
<1>1. /\ pc = "idle" /\ pc' = "idle" /\ bytes' = <<>> /\ root_name' = root_name /\ root' = t
      /\ UNCHANGED <<rawlen, todo, at, stack, arg, name>>
  BY DEF SetRoot, NewFile, Idle, writer, parser
<1>2. Closed(T)' /\ t \in T
  BY TagsAssumption DEF State, Closed, TagOver
<1>3. FileTyped'
  BY <1>1 DEF State, FileTyped
<1>4. WriterTyped(T)'
  BY <1>1, <1>2 DEF State, WriterTyped
<1>5. ParserTyped(T)'
  BY <1>1 DEF State, ParserTyped, Reading
<1>6. Measured(T)'
  BY <1>1 DEF Measured
<1> QED
  BY <1>2, <1>3, <1>4, <1>5, <1>6 DEF State

\* A damaged file is still made of bytes.
LEMMA DamageStep ==
  ASSUME NEW T, State(T), Damage
  PROVE  State(T)'
<1>1. /\ pc = "idle" /\ pc' = "idle"
      /\ UNCHANGED <<root, root_name, rawlen, todo, at, stack, arg, name>>
  BY DEF Damage, Idle, nbt, writer, parser
<1>2. bytes \in Seq(0 .. 255) /\ at = 0
  BY <1>1 DEF State, FileTyped
<1>3. bytes' \in Seq(0 .. 255)
  <2>1. ASSUME NEW n \in Cuts, n < Len(bytes), bytes' = SubSeq(bytes, 1, n)
        PROVE  bytes' \in Seq(0 .. 255)
    <3>1. Part(bytes, 1, n, n)
      BY <1>2, <2>1, BytesAssumption DEF Part
    <3>2. SubSeq(bytes, 1, n) \in Seq(0 .. 255)
      BY <3>1, SomeBytes DEF Octets
    <3> QED
      BY <2>1, <3>2
  <2>2. ASSUME NEW x \in Extra, bytes' = Append(bytes, x)
        PROVE  bytes' \in Seq(0 .. 255)
    BY <1>2, <2>2, BytesAssumption, AppendProperties
  <2>3. ASSUME NEW x \in Alien, bytes' = [bytes EXCEPT ![1] = x]
        PROVE  bytes' \in Seq(0 .. 255)
    <3>1. x \in 0 .. 255
      BY BytesAssumption
    <3>2. PICK n \in Nat : bytes \in [1 .. n -> 0 .. 255]
      BY <1>2, LenProperties
    <3>3. bytes' \in [1 .. n -> 0 .. 255]
      BY <2>3, <3>1, <3>2
    <3> QED
      BY <3>3
  <2> QED
    BY <2>1, <2>2, <2>3 DEF Damage
<1>4. Closed(T)'
  BY DEF State, Closed, TagOver
<1>5. FileTyped'
  BY <1>1, <1>2, <1>3, LenProperties DEF FileTyped
<1>6. WriterTyped(T)'
  BY <1>1 DEF State, WriterTyped
<1>7. ParserTyped(T)'
  BY <1>1 DEF State, ParserTyped, Reading
<1>8. Measured(T)'
  BY <1>1 DEF Measured
<1> QED
  BY <1>4, <1>5, <1>6, <1>7, <1>8 DEF State

\* The writer.  The run of the first pass begins with the root.
LEMMA WriteStartStep ==
  ASSUME NEW T, State(T), WriteStart
  PROVE  State(T)'
<1>1. /\ pc = "idle" /\ root # Nil /\ pc' = "measure" /\ rawlen' = 0 /\ todo' = <<ATag(root)>>
      /\ UNCHANGED <<root, root_name, bytes, at, stack, arg, name>>
  BY DEF WriteStart, Idle, nbt, parser
<1>2. root \in T /\ ATag(root) \in Entry(T)
  BY <1>1 DEF State, WriterTyped, Entry, ATag
<1>3. todo' \in Seq(Entry(T))
  BY <1>1, <1>2
<1>4. Closed(T)'
  BY DEF State, Closed, TagOver
<1>5. FileTyped'
  BY <1>1 DEF State, FileTyped
<1>6. WriterTyped(T)'
  BY <1>1, <1>2, <1>3 DEF State, WriterTyped
<1>7. ParserTyped(T)'
  BY <1>1 DEF State, ParserTyped, Reading
<1>8. Measured(T)'
  <2> DEFINE r == [left |-> <<ATag(root)>>, sum |-> 0]
             h == <<r>>
  <2>1. r \in [left : Seq(Entry(T)), sum : Nat] /\ r.sum = 0
    BY <1>2
  <2> HIDE DEF r
  <2>2. h \in Steps(T) /\ h # <<>> /\ Len(h) = 1 /\ h[1] = r
    BY <2>1 DEF Steps
  <2> HIDE DEF h
  <2>3. \A i \in 1 .. Len(h) - 1 : Follows(h[i], h[i + 1])
    BY <2>2
  <2>4. \A i \in 1 .. Len(h) : h[i].sum <= h[Len(h)].sum
    BY <2>1, <2>2
  <2>5. Run(T, root, h)
    BY <2>2, <2>3, <2>4 DEF Run, r
  <2>6. Run(T, root', h) /\ h[Len(h)] = [left |-> todo', sum |-> rawlen']
    BY <1>1, <2>2, <2>5 DEF r
  <2> QED
    BY <1>1, <2>2, <2>6 DEF Measured
<1> QED
  BY <1>4, <1>5, <1>6, <1>7, <1>8 DEF State

\* One more step of a run.
LEMMA RunOn ==
  ASSUME NEW T, NEW t, NEW h, Run(T, t, h),
         NEW u \in [left : Seq(Entry(T)), sum : Nat], Follows(h[Len(h)], u),
         h[Len(h)].sum <= u.sum
  PROVE  \E k \in Steps(T) : Run(T, t, k) /\ k[Len(k)] = u
<1> DEFINE k == Append(h, u)
<1>1. h \in Steps(T) /\ h # <<>> /\ Len(h) \in Nat \ {0}
  BY DEF Run, Steps
<1>2. /\ k \in Steps(T) /\ k # <<>> /\ Len(k) = Len(h) + 1
      /\ \A i \in 1 .. Len(h) : k[i] = h[i]
      /\ k[Len(h) + 1] = u
  <2>1. PICK R : R = [left : Seq(Entry(T)), sum : Nat]
    OBVIOUS
  <2>2. h \in Seq(R) /\ u \in R /\ Steps(T) = Seq(R)
    BY <1>1, <2>1 DEF Steps
  <2> QED
    BY <2>2, AppendProperties
<1> HIDE DEF k
<1>3. k[1] = [left |-> <<ATag(t)>>, sum |-> 0]
  <2>1. k[1] = h[1]
    BY <1>1, <1>2
  <2> QED
    BY <2>1 DEF Run
<1>4. ASSUME NEW i \in 1 .. Len(k) - 1 PROVE Follows(k[i], k[i + 1])
  <2>1. CASE i = Len(h)
    <3>1. k[i] = h[Len(h)] /\ k[i + 1] = u
      BY <1>1, <1>2, <2>1
    <3> QED
      BY <3>1
  <2>2. CASE i # Len(h)
    <3>1. i \in 1 .. Len(h) - 1 /\ k[i] = h[i] /\ k[i + 1] = h[i + 1]
      BY <1>1, <1>2, <2>2
    <3> QED
      BY <3>1 DEF Run
  <2> QED
    BY <2>1, <2>2
<1>5. ASSUME NEW i \in 1 .. Len(k) PROVE k[i].sum <= k[Len(k)].sum
  <2>1. PICK n \in Nat : n = u.sum /\ k[Len(k)].sum = n
    BY <1>1, <1>2
  <2>2. CASE i = Len(k)
    BY <2>1, <2>2
  <2>3. CASE i # Len(k)
    <3>1. i \in 1 .. Len(h) /\ k[i] = h[i] /\ Len(h) \in 1 .. Len(h)
      BY <1>1, <1>2, <2>3
    <3>2. h[i].sum <= h[Len(h)].sum
      BY <3>1 DEF Run
    <3>3. /\ h[i] \in [left : Seq(Entry(T)), sum : Nat]
          /\ h[Len(h)] \in [left : Seq(Entry(T)), sum : Nat]
      BY <1>1, <3>1, ElementOfSeq DEF Steps
    <3>4. PICK x \in Nat, y \in Nat : x = h[i].sum /\ y = h[Len(h)].sum
      BY <3>3
    <3> QED
      BY <2>1, <3>1, <3>2, <3>4
  <2> QED
    BY <2>2, <2>3
<1> QED
  BY <1>2, <1>3, <1>4, <1>5 DEF Run

\* A step of the first pass adds to its run.
LEMMA MeasureStep ==
  ASSUME NEW T, State(T), Measure
  PROVE  State(T)'
<1>1. /\ pc = "measure" /\ pc' = "measure" /\ todo # <<>>
      /\ rawlen' = rawlen + LengthOf(Head(todo)) /\ todo' = Parts(Head(todo)) \o Tail(todo)
      /\ UNCHANGED <<root, root_name, bytes, at, stack, arg, name>>
  BY DEF Measure, nbt, parser
<1>2. Closed(T) /\ todo \in Seq(Entry(T)) /\ rawlen \in Nat
  BY DEF State, WriterTyped
<1>3. todo' \in Seq(Entry(T)) /\ rawlen' \in Nat
  <2>1. PICK r : r = Parts(Head(todo)) \o Tail(todo)
    OBVIOUS
  <2>2. r \in Seq(Entry(T)) /\ LengthOf(Head(todo)) \in Nat
    BY <1>1, <1>2, <2>1, EntryStep DEF StepDone
  <2> QED
    BY <1>1, <1>2, <2>1, <2>2
<1>4. Closed(T)'
  BY DEF State, Closed, TagOver
<1>5. FileTyped'
  BY <1>1 DEF State, FileTyped
<1>6. WriterTyped(T)'
  BY <1>1, <1>3 DEF State, WriterTyped
<1>7. ParserTyped(T)'
  BY <1>1 DEF State, ParserTyped, Reading
<1>8. Measured(T)'
  <2>1. PICK h \in Steps(T) : Run(T, root, h) /\ h[Len(h)] = [left |-> todo, sum |-> rawlen]
    BY <1>1 DEF State, Measured
  <2>2. PICK k \in Steps(T) : Run(T, root, k) /\ k[Len(k)] = [left |-> todo', sum |-> rawlen']
    <3> DEFINE u == [left |-> todo', sum |-> rawlen']
    <3>1. u \in [left : Seq(Entry(T)), sum : Nat]
      BY <1>3
    <3>2. Follows(h[Len(h)], u)
      BY <1>1, <2>1 DEF Follows
    <3>3. h[Len(h)].sum <= u.sum
      <4>1. PICK r : r = Parts(Head(todo)) \o Tail(todo)
        OBVIOUS
      <4>2. PICK n \in Nat : n = LengthOf(Head(todo))
        BY <1>1, <1>2, <4>1, EntryStep DEF StepDone
      <4>3. h[Len(h)].sum = rawlen /\ u.sum = rawlen + n
        BY <1>1, <2>1, <4>2
      <4> QED
        BY <1>2, <4>2, <4>3
    <3> HIDE DEF u
    <3> QED
      BY <2>1, <3>1, <3>2, <3>3, RunOn DEF u
  <2>3. Run(T, root', k)
    BY <1>1, <2>2
  <2> QED
    BY <1>1, <2>2, <2>3 DEF Measured
<1> QED
  BY <1>4, <1>5, <1>6, <1>7, <1>8 DEF State

\* The second pass starts where the first has, behind the name.
LEMMA WriteNameStep ==
  ASSUME NEW T, State(T), WriteName
  PROVE  State(T)'
<1>1. /\ pc = "measure" /\ pc' = "write" /\ todo = <<>>
      /\ rawlen' = rawlen + 2 + Len(root_name) + 1 /\ todo' = <<ATag(root)>>
      /\ bytes' = <<root.type>> \o StringBytes(root_name)
      /\ UNCHANGED <<root, root_name, at, stack, arg, name>>
  BY DEF WriteName, nbt, parser
<1>2. /\ Closed(T) /\ root \in T /\ rawlen \in Nat /\ root_name \in Seq(0 .. 255)
      /\ Len(root_name) \in Nat /\ at = 0
  BY <1>1, LenProperties DEF State, WriterTyped, FileTyped
<1>3. todo' \in Seq(Entry(T)) /\ Ends(todo') = 0
  <2>1. ATag(root) \in Entry(T) /\ ATag(root) # TheEnd
    BY <1>2 DEF Entry, ATag, TheEnd
  <2>2. ATag(root) \notin {TheEnd}
    BY <2>1
  <2>3. Occurs(<<ATag(root)>>, {TheEnd}) = 0
    BY <2>2, OccursOnce
  <2> QED
    BY <1>1, <2>1, <2>3 DEF Ends
<1>4. bytes' \in Seq(0 .. 255) /\ Len(bytes') = 3 + Len(root_name)
  <2>1. root.type \in 0 .. 255
    BY <1>2, TagKinds, TypeBytes DEF Closed
  <2>2. PICK a \in Seq(0 .. 255) : a = <<root.type>> /\ Len(a) = 1
    BY <2>1, OneByte
  <2>3. PICK b \in Seq(0 .. 255) : b = StringBytes(root_name) /\ Len(b) = 2 + Len(root_name)
    BY <1>2, StringCounted
  <2>4. a \o b \in Seq(0 .. 255) /\ Len(a \o b) = Len(a) + Len(b)
    BY MoreBytes
  <2>5. bytes' = a \o b
    BY <1>1, <2>2, <2>3
  <2>6. Len(a) = 1 /\ Len(b) = 2 + Len(root_name)
    BY <2>2, <2>3
  <2>7. Len(a \o b) = 3 + Len(root_name)
    BY <1>2, <2>4, <2>6
  <2> QED
    BY <2>4, <2>5, <2>7
<1>5. Closed(T)'
  BY DEF State, Closed, TagOver
<1>6. FileTyped'
  BY <1>1, <1>2, <1>4 DEF FileTyped
<1>7. WriterTyped(T)'
  BY <1>1, <1>2, <1>3 DEF WriterTyped
<1>8. ParserTyped(T)'
  BY <1>1 DEF State, ParserTyped, Reading
<1>9. Measured(T)'
  <2>1. PICK h \in Steps(T) : Run(T, root, h) /\ h[Len(h)] = [left |-> todo, sum |-> rawlen]
    BY <1>1 DEF State, Measured
  <2>2. h[Len(h)].left = <<>> /\ rawlen' = h[Len(h)].sum + 3 + Len(root_name')
    BY <1>1, <1>2, <2>1
  <2>3. /\ 1 \in 1 .. Len(h)
        /\ h[1].left = todo' /\ h[1].sum = 0
    BY <1>1, <2>1, LenProperties DEF Run, Steps
  <2>4. Len(bytes') + Ends(todo') = 3 + Len(root_name') + h[1].sum
    BY <1>1, <1>2, <1>3, <1>4, <2>3
  <2>5. Run(T, root', h)
    BY <1>1, <2>1
  <2> QED
    BY <1>1, <2>2, <2>3, <2>4, <2>5 DEF Measured
<1> QED
  BY <1>5, <1>6, <1>7, <1>8, <1>9 DEF State

\* A tag is written: the second pass does the step that the first did.
LEMMA WriteTagStep ==
  ASSUME NEW T, State(T), WriteTag
  PROVE  State(T)'
<1>1. /\ pc = "write" /\ pc' = "write" /\ todo # <<>>
      /\ bytes' = bytes \o BytesOf(Head(todo)) /\ todo' = Parts(Head(todo)) \o Tail(todo)
      /\ UNCHANGED <<root, root_name, rawlen, at, stack, arg, name>>
  BY DEF WriteTag, nbt, parser
<1>2. /\ Closed(T) /\ todo \in Seq(Entry(T)) /\ bytes \in Seq(0 .. 255) /\ at = 0
      /\ root_name \in Seq(0 .. 255)
  BY <1>1 DEF State, WriterTyped, FileTyped
<1>3. PICK r : r = Parts(Head(todo)) \o Tail(todo)
  OBVIOUS
<1>4. /\ LengthOf(Head(todo)) \in Nat /\ BytesOf(Head(todo)) \in Seq(0 .. 255)
      /\ r \in Seq(Entry(T)) /\ Ends(todo) \in Nat /\ Ends(r) \in Nat
      /\ Len(BytesOf(Head(todo))) + Ends(r) = Ends(todo) + LengthOf(Head(todo))
  <2>1. StepDone(T, todo, r)
    BY <1>1, <1>2, <1>3, EntryStep
  <2> QED
    BY <2>1 DEF StepDone
<1>5. PICK b \in Seq(0 .. 255) : b = BytesOf(Head(todo))
  BY <1>4
<1>6. bytes' \in Seq(0 .. 255) /\ Len(bytes') = Len(bytes) + Len(b)
  <2>1. bytes \o b \in Seq(0 .. 255) /\ Len(bytes \o b) = Len(bytes) + Len(b)
    BY <1>2, MoreBytes
  <2>2. bytes' = bytes \o b
    BY <1>1, <1>5
  <2> QED
    BY <2>1, <2>2
<1>7. Closed(T)'
  BY DEF State, Closed, TagOver
<1>8. FileTyped'
  BY <1>1, <1>2, <1>6 DEF FileTyped
<1>9. WriterTyped(T)'
  BY <1>1, <1>3, <1>4 DEF State, WriterTyped
<1>10. ParserTyped(T)'
  BY <1>1 DEF State, ParserTyped, Reading
<1>11. Measured(T)'
  <2>1. PICK h \in Steps(T) :
          /\ Run(T, root, h) /\ h[Len(h)].left = <<>>
          /\ rawlen = h[Len(h)].sum + 3 + Len(root_name)
          /\ \E i \in 1 .. Len(h) :
                /\ h[i].left = todo
                /\ Len(bytes) + Ends(todo) = 3 + Len(root_name) + h[i].sum
    BY <1>1 DEF State, Measured
  <2>2. PICK i \in 1 .. Len(h) :
          /\ h[i].left = todo
          /\ Len(bytes) + Ends(todo) = 3 + Len(root_name) + h[i].sum
    BY <2>1
  <2>3. Len(h) \in Nat
    BY LenProperties DEF Steps
  <2>4. i # Len(h)
    BY <1>1, <2>1, <2>2
  <2>5. i \in 1 .. Len(h) - 1 /\ i + 1 \in 1 .. Len(h)
    BY <2>3, <2>4
  <2>6. Follows(h[i], h[i + 1])
    BY <2>1, <2>5 DEF Run
  <2>7. h[i + 1].left = todo' /\ h[i + 1].sum = h[i].sum + LengthOf(Head(todo))
    BY <1>1, <2>2, <2>6 DEF Follows
  <2>8. Len(bytes') + Ends(todo') = 3 + Len(root_name') + h[i + 1].sum
    <3>1. h[i] \in [left : Seq(Entry(T)), sum : Nat]
      BY ElementOfSeq DEF Steps
    <3>2. PICK m \in Nat : m = h[i].sum
      BY <3>1
    <3>3. PICK n \in Nat, d \in Nat, e \in Nat, l \in Nat, k \in Nat, q \in Nat :
            /\ n = LengthOf(Head(todo)) /\ d = Ends(todo) /\ e = Ends(r)
            /\ l = Len(bytes) /\ k = Len(b) /\ q = Len(root_name)
      <4>1. Len(bytes) \in Nat /\ Len(b) \in Nat /\ Len(root_name) \in Nat
        BY <1>2, LenProperties
      <4> QED
        BY <1>4, <4>1
    <3>4. k + e = d + n
      BY <1>4, <1>5, <3>3
    <3>5. l + d = 3 + q + m
      BY <2>2, <3>2, <3>3
    <3>6. /\ Len(bytes') = l + k /\ Ends(todo') = e /\ Len(root_name') = q
          /\ h[i + 1].sum = m + n
      BY <1>1, <1>3, <1>6, <2>7, <3>2, <3>3
    <3>7. l + k + e = 3 + q + m + n
      BY <3>4, <3>5
    <3> QED
      BY <3>6, <3>7
  <2>9. Run(T, root', h) /\ rawlen' = h[Len(h)].sum + 3 + Len(root_name')
    BY <1>1, <2>1
  <2> QED
    BY <1>1, <2>1, <2>5, <2>7, <2>8, <2>9 DEF Measured
<1> QED
  BY <1>7, <1>8, <1>9, <1>10, <1>11 DEF State

\* The end of the second pass leaves a file that is bytes.
LEMMA WrittenStep ==
  ASSUME NEW T, State(T), Written
  PROVE  State(T)'
<1>1. /\ pc = "write" /\ pc' = "idle" /\ rawlen' = 0
      /\ UNCHANGED <<root, root_name, bytes, todo, at, stack, arg, name>>
  BY DEF Written, nbt, parser
<1>2. Closed(T)'
  BY DEF State, Closed, TagOver
<1>3. FileTyped'
  BY <1>1 DEF State, FileTyped
<1>4. WriterTyped(T)'
  BY <1>1 DEF State, WriterTyped
<1>5. ParserTyped(T)'
  BY <1>1 DEF State, ParserTyped, Reading
<1>6. Measured(T)'
  BY <1>1 DEF Measured
<1> QED
  BY <1>2, <1>3, <1>4, <1>5, <1>6 DEF State

-----------------------------------------------------------------------------
(* The parser.  It changes neither the RSNBT nor the file, and what it     *)
(* leaves behind is one of three things.                                   *)

Unread == UNCHANGED <<nbt, bytes, origin, writer>>

\* The tags that are around after a step: those that were, and the one it returns.
Grown(T) ==
    \E U : /\ U = T \/ (pc' = "return" /\ arg' # Nil /\ U = T \cup {arg'})
          /\ State(U)'

\* A step that leaves the tags as they are.
LEMMA SameTags ==
  ASSUME NEW T, State(T)'
  PROVE  Grown(T)
  BY DEF Grown

\* A step of the parser that returns no tag.
LEMMA ParserStep ==
  ASSUME NEW T, State(T), Unread, pc' \in {"failed", "crashed"} \cup Reading,
         at' \in 0 .. Len(bytes), ParserTyped(T)'
  PROVE  State(T)'
<1>1. UNCHANGED <<root, root_name, bytes, rawlen, todo>>
  BY DEF Unread, nbt, writer
<1>2. Closed(T)'
  BY DEF State, Closed, TagOver
<1>3. FileTyped'
  BY <1>1 DEF State, FileTyped, Reading
<1>4. WriterTyped(T)'
  BY <1>1 DEF State, WriterTyped, Reading
<1>5. Measured(T)'
  BY DEF Measured, Reading
<1> QED
  BY <1>2, <1>3, <1>4, <1>5 DEF State

\* One that goes on to the next tag, in the calls it is in.
LEMMA Called ==
  ASSUME NEW T, State(T), Unread, pc' = "parse", at' \in 0 .. Len(bytes),
         name' \in Seq(0 .. 255), stack' \in Seq(Call(T))
  PROVE  State(T)'
<1>1. ParserTyped(T)'
  BY DEF ParserTyped, Reading
<1> QED
  BY <1>1, ParserStep DEF Reading

\* One that fails.
LEMMA Failed ==
  ASSUME NEW T, State(T), Unread, Fail, at' \in 0 .. Len(bytes),
         name' \in Seq(0 .. 255), stack' \in Seq(Call(T))
  PROVE  State(T)'
<1>1. pc' = "return" /\ arg' = Nil
  BY DEF Fail, ReturnTag
<1>2. ParserTyped(T)'
  BY <1>1 DEF ParserTyped, Reading
<1> QED
  BY <1>1, <1>2, ParserStep DEF Reading

\* One that returns a tag, which is one more that is around.
LEMMA Returned ==
  ASSUME NEW T, State(T), Unread, NEW x, TagOver(T, x), ReturnTag(x), at' \in 0 .. Len(bytes),
         name' \in Seq(0 .. 255), stack' \in Seq(Call(T))
  PROVE  Grown(T)
<1>0. CASE x = Nil
  <2>1. Fail
    BY <1>0 DEF Fail
  <2> QED
    BY <2>1, Failed, SameTags
<1>9. CASE x # Nil
  <2> DEFINE U == T \cup {x}
  <2>1. Closed(U)
    BY OneMoreTag DEF State
  <2>2. T \subseteq U /\ x \in U
    OBVIOUS
  <2>9. U = T \cup {x}
    OBVIOUS
  <2> HIDE DEF U
  <2>3. UNCHANGED <<root, root_name, bytes, rawlen, todo>> /\ pc' = "return" /\ arg' = x
    BY DEF Unread, nbt, writer, ReturnTag
  <2>4. Closed(U)'
    BY <2>1 DEF Closed, TagOver
  <2>5. FileTyped'
    BY <2>3 DEF State, FileTyped, Reading
  <2>6. WriterTyped(U)'
    <3>1. Seq(Entry(T)) \subseteq Seq(Entry(U))
      BY <2>2, Wider
    <3>2. todo' \in Seq(Entry(T)) /\ root' \in T \cup {Nil} /\ rawlen' \in Nat
          /\ root_name' \in Seq(0 .. 255)
      BY <2>3 DEF State, WriterTyped
    <3> QED
      BY <2>2, <2>3, <3>1, <3>2 DEF WriterTyped
  <2>7. ParserTyped(U)'
    <3>1. Seq(Call(T)) \subseteq Seq(Call(U))
      BY <2>2, Wider
    <3> QED
      BY <2>2, <2>3, <3>1 DEF ParserTyped, Reading
  <2>8. Measured(U)'
    BY <2>3 DEF Measured
  <2>10. State(U)'
    BY <2>4, <2>5, <2>6, <2>7, <2>8 DEF State
  <2> QED
    BY <1>9, <2>3, <2>9, <2>10 DEF Grown
<1> QED
  BY <1>0, <1>9

\* A sequence with one more element in front.
LEMMA InFront ==
  ASSUME NEW S, NEW x \in S, NEW t \in Seq(S), NEW s, s = <<x>> \o t
  PROVE  s \in Seq(S) /\ s # <<>> /\ Head(s) = x
<1>1. <<x>> \in Seq(S) /\ Len(<<x>>) = 1 /\ <<x>>[1] = x /\ Len(t) \in Nat
  OBVIOUS
<1>2. /\ <<x>> \o t \in Seq(S)
      /\ Len(<<x>> \o t) = Len(<<x>>) + Len(t)
      /\ \A i \in 1 .. Len(<<x>>) + Len(t) : (<<x>> \o t)[i] =
            IF i <= Len(<<x>>) THEN <<x>>[i] ELSE t[i - Len(<<x>>)]
  BY <1>1, ConcatProperties
<1>3. 1 \in 1 .. Len(<<x>>) + Len(t)
  BY <1>1
<1>4. (<<x>> \o t)[1] = x
  BY <1>1, <1>2, <1>3
<1>5. s \in Seq(S) /\ s[1] = x
  BY <1>2, <1>4
<1>6. Len(s) # 0
  <2>1. Len(s) = Len(<<x>>) + Len(t)
    BY <1>2
  <2>2. Len(<<x>>) + Len(t) # 0
    BY <1>1
  <2> QED
    BY <2>1, <2>2
<1> QED
  BY <1>5, <1>6

\* The innermost call, and those it is in.
LEMMA InnerCall ==
  ASSUME NEW T, State(T), stack # <<>>
  PROVE  Top \in Call(T) /\ Tail(stack) \in Seq(Call(T))
<1>1. stack \in Seq(Call(T))
  BY DEF State, ParserTyped
<1> QED
  BY <1>1, HeadTailProperties DEF Top

\* In a list and in a compound.
LEMMA CallKinds ==
  ASSUME NEW T, NEW f \in Call(T)
  PROVE  /\ f.type = TAG_LIST =>
               f.subtype \in 0 .. 255 /\ f.count \in Nat \ {0} /\ f.key = <<>> /\ f.items \in Seq(T)
         /\ f.type = TAG_COMPOUND =>
               f.subtype = TAG_END /\ f.count = 0 /\ f.key \in Seq(0 .. 255) /\ f.items \in Seq(Node(T))
  BY DEF Call, TAG_LIST, TAG_COMPOUND

\* The bytes ahead, where there are enough of them, are a number.
LEMMA NumberAhead ==
  ASSUME NEW s, NEW m, NEW n, NEW w \in {1, 2, 4}, Part(s, m, n, w)
  PROVE  Unsigned(SubSeq(s, m, n)) \in Nat /\ Signed(SubSeq(s, m, n)) \in Int
<1>1. PICK b \in Seq(0 .. 255) : b = SubSeq(s, m, n) /\ Len(b) = w
  BY SomeBytes DEF Octets
<1>2. Len(b) \in {1, 2, 4}
  BY <1>1
<1> QED
  BY <1>1, <1>2, ValueNumbers

\* The root's type is a byte, its name bytes.
LEMMA ParseStartStep ==
  ASSUME NEW T, State(T), ParseStart
  PROVE  State(T)'
<1>1. pc = "idle" /\ Unread /\ bytes \in Seq(0 .. 255) /\ at = 0 /\ stack = <<>> /\ Len(bytes) \in Nat
  BY LenProperties DEF State, ParseStart, Idle, Unread, FileTyped, ParserTyped, Reading
<1>2. CASE pc' = "failed" /\ UNCHANGED parser
  <2>1. at' = at /\ stack' = stack
    BY <1>2 DEF parser
  <2>2. ParserTyped(T)'
    BY <1>1, <1>2, <2>1 DEF ParserTyped, Reading
  <2> QED
    BY <1>1, <1>2, <2>1, <2>2, ParserStep
<1>3. CASE ~(pc' = "failed" /\ UNCHANGED parser)
  <2>1. PICK n : n = Unsigned(SubSeq(bytes, 2, 3))
    OBVIOUS
  <2>2. /\ Len(bytes) >= 4 /\ ~(Len(bytes) < 3 + n)
        /\ pc' = "parse" /\ at' = 3 + n /\ name' = SubSeq(bytes, 4, 3 + n) /\ stack' = <<>>
    BY <1>1, <1>3, <2>1 DEF ParseStart
  <2>3. n \in Nat
    <3>1. Part(bytes, 2, 3, 2)
      BY <1>1, <2>2 DEF Part
    <3> QED
      BY <2>1, <3>1, NumberAhead
  <2>4. SubSeq(bytes, 4, 3 + n) \in Seq(0 .. 255)
    <3>1. Part(bytes, 4, 3 + n, n)
      BY <1>1, <2>2, <2>3 DEF Part
    <3> QED
      BY <3>1, SomeBytes DEF Octets
  <2>5. at' \in 0 .. Len(bytes) /\ stack' \in Seq(Call(T))
    BY <1>1, <2>2, <2>3
  <2> QED
    BY <1>1, <2>2, <2>4, <2>5, Called
<1> QED
  BY <1>2, <1>3

\* What every step starts from.
LEMMA ParserFacts ==
  ASSUME NEW T, State(T), pc \in Reading
  PROVE  /\ FileTyped /\ bytes \in Seq(0 .. 255) /\ Len(bytes) \in Nat /\ at \in Nat /\ at <= Len(bytes)
         /\ at \in 0 .. Len(bytes) /\ Left \in Nat /\ Left = Len(bytes) - at
         /\ name \in Seq(0 .. 255) /\ stack \in Seq(Call(T))
  BY FileFacts DEF State, ParserTyped, Left, FileTyped

\* A type that is none ends the call.
LEMMA ParseUnknownStep ==
  ASSUME NEW T, State(T), ParseUnknown
  PROVE  State(T)'
<1>1. Unread /\ pc \in Reading /\ Fail /\ UNCHANGED <<at, stack, name>>
  BY DEF ParseUnknown, Unread, Reading
<1>2. at' \in 0 .. Len(bytes) /\ name' \in Seq(0 .. 255) /\ stack' \in Seq(Call(T))
  BY <1>1, ParserFacts
<1> QED
  BY <1>1, <1>2, Failed

\* A number that is parsed is a tag.
LEMMA ParseScalarStep ==
  ASSUME NEW T, State(T), ParseScalar
  PROVE  Grown(T)
<1>1. Unread /\ pc \in Reading /\ arg \in Scalar /\ UNCHANGED <<stack, name>>
  BY DEF ParseScalar, Parsing, Unread, Reading
<1>2. /\ bytes \in Seq(0 .. 255) /\ at \in Nat /\ at <= Len(bytes) /\ Len(bytes) \in Nat /\ Left = Len(bytes) - at
      /\ at \in 0 .. Len(bytes)
      /\ name' \in Seq(0 .. 255) /\ stack' \in Seq(Call(T))
  BY <1>1, ParserFacts
<1>3. PICK w \in {1, 2, 4} : w = Width(arg)
  BY Widths
<1>4. CASE Left < Width(arg)
  <2>1. Fail /\ at' = at
    BY <1>4 DEF ParseScalar
  <2> QED
    BY <1>1, <1>2, <2>1, Failed, SameTags
<1>5. CASE ~(Left < Width(arg))
  <2>1. at' = at + w /\ ReturnTag([type |-> arg, int |-> Signed(SubSeq(bytes, at + 1, at + w))])
    BY <1>3, <1>5 DEF ParseScalar, Ahead
  <2>2. w \in Nat /\ at + w <= Len(bytes)
    BY <1>2, <1>3, <1>5
  <2>3. Signed(SubSeq(bytes, at + 1, at + w)) \in Int
    <3>1. Part(bytes, at + 1, at + w, w)
      BY <1>2, <2>2 DEF Part
    <3> QED
      BY <3>1, NumberAhead
  <2>4. PICK x : x = [type |-> arg, int |-> Signed(SubSeq(bytes, at + 1, at + w))]
    OBVIOUS
  <2>5. TagOver(T, x)
    BY <1>1, <2>3, <2>4 DEF TagOver
  <2>6. at' \in 0 .. Len(bytes)
    BY <1>2, <2>1, <2>2
  <2> QED
    BY <1>1, <1>2, <2>1, <2>4, <2>5, <2>6, Returned
<1> QED
  BY <1>4, <1>5

\* An array that is parsed is a tag.
LEMMA ParseArrayStep ==
  ASSUME NEW T, State(T), ParseArray
  PROVE  Grown(T)
<1>1. Unread /\ pc \in Reading /\ arg \in Array /\ UNCHANGED <<stack, name>>
  BY DEF ParseArray, Parsing, Unread, Reading
<1>2. /\ bytes \in Seq(0 .. 255) /\ at \in Nat /\ at <= Len(bytes) /\ Len(bytes) \in Nat /\ Left = Len(bytes) - at
      /\ at \in 0 .. Len(bytes)
      /\ name' \in Seq(0 .. 255) /\ stack' \in Seq(Call(T))
  BY <1>1, ParserFacts
<1>3. PICK w \in {1, 4} : w = Width(arg)
  BY <1>1, Widths
<1>4. PICK n : n = Unsigned(SubSeq(bytes, at + 1, at + 4))
  OBVIOUS
<1>5. CASE Left < 4
  <2>1. Fail /\ at' = at
    BY <1>5 DEF ParseArray
  <2> QED
    BY <1>1, <1>2, <2>1, Failed, SameTags
<1>6. CASE ~(Left < 4) /\ (n = Huge \/ Left - 4 < w * n)
  <2>1. Fail /\ at' = at + 4
    BY <1>3, <1>4, <1>6 DEF ParseArray, Ahead
  <2>2. at' \in 0 .. Len(bytes)
    BY <1>2, <1>6, <2>1
  <2> QED
    BY <1>1, <1>2, <2>1, <2>2, Failed, SameTags
<1>7. CASE ~(Left < 4) /\ ~(n = Huge \/ Left - 4 < w * n)
  <2>1. n \in Nat
    <3>1. Part(bytes, at + 1, at + 4, 4)
      BY <1>2, <1>7 DEF Part
    <3> QED
      BY <1>4, <3>1, NumberAhead
  <2>2. PICK m \in Nat : m = w * n
    <3>1. CASE w = 1
      BY <2>1, <3>1
    <3>2. CASE w = 4
      BY <2>1, <3>2
    <3> QED
      BY <3>1, <3>2
  <2>3. at + 4 + m <= Len(bytes)
    BY <1>2, <1>7, <2>2
  <2> DEFINE d == [i \in 1 .. n |-> Unsigned(SubSeq(bytes, at + 5 + w * (i - 1), at + 4 + w * i))]
  <2>4. at' = at + 4 + m /\ ReturnTag([type |-> arg, data |-> d])
    BY <1>3, <1>4, <1>7, <2>2 DEF ParseArray, Ahead
  <2>5. ASSUME NEW i \in 1 .. n
        PROVE  Unsigned(SubSeq(bytes, at + 5 + w * (i - 1), at + 4 + w * i)) \in Int
    <3>1. PICK j \in Nat, k \in Nat :
            /\ j = at + 5 + w * (i - 1) /\ k = at + 4 + w * i
            /\ j >= 1 /\ k = j + w - 1 /\ k <= at + 4 + m
      <4>1. CASE w = 1
        BY <1>2, <2>1, <2>2, <4>1
      <4>2. CASE w = 4
        BY <1>2, <2>1, <2>2, <4>2
      <4> QED
        BY <4>1, <4>2
    <3>2. Part(bytes, j, k, w) /\ w \in {1, 2, 4}
      BY <1>2, <2>3, <3>1 DEF Part
    <3>3. Unsigned(SubSeq(bytes, j, k)) \in Nat
      BY <3>2, NumberAhead
    <3> QED
      BY <3>1, <3>3
  <2>6. d \in Seq(Int)
    BY <2>1, <2>5
  <2> HIDE DEF d
  <2>7. PICK x : x = [type |-> arg, data |-> d]
    OBVIOUS
  <2>8. TagOver(T, x)
    BY <1>1, <2>6, <2>7 DEF TagOver
  <2>9. at' \in 0 .. Len(bytes)
    BY <1>2, <2>2, <2>3, <2>4
  <2> QED
    BY <1>1, <1>2, <2>4, <2>7, <2>8, <2>9, Returned
<1> QED
  BY <1>5, <1>6, <1>7

\* A string that is parsed is a tag.
LEMMA ParseTextStep ==
  ASSUME NEW T, State(T), ParseText
  PROVE  Grown(T)
<1>1. Unread /\ pc \in Reading /\ UNCHANGED <<stack, name>>
  BY DEF ParseText, Parsing, Unread, Reading
<1>2. /\ bytes \in Seq(0 .. 255) /\ at \in Nat /\ at <= Len(bytes) /\ Len(bytes) \in Nat /\ Left = Len(bytes) - at
      /\ at \in 0 .. Len(bytes)
      /\ name' \in Seq(0 .. 255) /\ stack' \in Seq(Call(T))
  BY <1>1, ParserFacts
<1>3. CASE StringAhead = Nil
  <2>1. pc' = "crashed" /\ at' = at
    BY <1>3 DEF ParseText
  <2>2. ParserTyped(T)'
    BY <1>2, <2>1 DEF ParserTyped, Reading
  <2> QED
    BY <1>1, <1>2, <2>1, <2>2, ParserStep, SameTags
<1>4. CASE StringAhead # Nil
  <2>1. at' = at + 2 + Len(StringAhead) /\ ReturnTag([type |-> TAG_STRING, string |-> StringAhead])
    BY <1>4 DEF ParseText
  <2>2. PICK n : n = Unsigned(SubSeq(bytes, at + 1, at + 2))
    OBVIOUS
  <2>3. ~(Left < 2) /\ ~(Left < 2 + n) /\ StringAhead = SubSeq(bytes, at + 3, at + 2 + n)
    BY <1>4, <2>2 DEF StringAhead, Ahead
  <2>4. n \in Nat
    <3>1. Part(bytes, at + 1, at + 2, 2)
      BY <1>2, <2>3 DEF Part
    <3> QED
      BY <2>2, <3>1, NumberAhead
  <2>5. at + 2 + n <= Len(bytes)
    BY <1>2, <2>3, <2>4
  <2>6. StringAhead \in Seq(0 .. 255) /\ Len(StringAhead) = n
    <3>1. Part(bytes, at + 3, at + 2 + n, n)
      BY <1>2, <2>4, <2>5 DEF Part
    <3> QED
      BY <2>3, <3>1, SomeBytes DEF Octets
  <2>7. PICK x : x = [type |-> TAG_STRING, string |-> StringAhead]
    OBVIOUS
  <2>8. TagOver(T, x)
    BY <2>6, <2>7 DEF TagOver
  <2>9. at' \in 0 .. Len(bytes)
    BY <1>2, <2>1, <2>4, <2>5, <2>6
  <2> QED
    BY <1>1, <1>2, <2>1, <2>7, <2>8, <2>9, Returned
<1> QED
  BY <1>3, <1>4

\* A list waits for its items only if it has some.
LEMMA ParseListStep ==
  ASSUME NEW T, State(T), ParseList
  PROVE  Grown(T)
<1>1. Unread /\ pc \in Reading /\ UNCHANGED name
  BY DEF ParseList, Parsing, Unread, Reading
<1>2. /\ bytes \in Seq(0 .. 255) /\ at \in Nat /\ at <= Len(bytes) /\ Len(bytes) \in Nat /\ Left = Len(bytes) - at
      /\ at \in 0 .. Len(bytes)
      /\ name' \in Seq(0 .. 255) /\ stack \in Seq(Call(T))
  BY <1>1, ParserFacts
<1>3. PICK st, count : st = bytes[at + 1] /\ count = Signed(SubSeq(bytes, at + 2, at + 5))
  OBVIOUS
<1>4. CASE Left < 5 /\ Fail /\ UNCHANGED <<at, stack>>
  BY <1>1, <1>2, <1>4, Failed, SameTags
<1>5. CASE ~(Left < 5 /\ Fail /\ UNCHANGED <<at, stack>>)
  <2>1. Left >= 5 /\ at' = at + 5
    BY <1>5 DEF ParseList
  <2>2. at + 5 <= Len(bytes) /\ at' \in 0 .. Len(bytes)
    BY <1>2, <2>1
  <2>3. st \in 0 .. 255
    <3>1. at + 1 \in 1 .. Len(bytes)
      BY <1>2, <2>2
    <3> QED
      BY <1>2, <1>3, <3>1, ByteNumber
  <2>4. count \in Int
    <3>1. Part(bytes, at + 2, at + 5, 4)
      BY <1>2, <2>2 DEF Part
    <3> QED
      BY <1>3, <3>1, NumberAhead
  <2>5. CASE count > 0 /\ Left > 5
    <3>1. pc' = "parse" /\ stack' = <<Frame(TAG_LIST, st, count, <<>>, <<>>)>> \o stack
      BY <1>3, <1>5, <2>5 DEF ParseList
    <3>2. PICK f : f = Frame(TAG_LIST, st, count, <<>>, <<>>)
      OBVIOUS
    <3>3. f \in Call(T)
      <4>1. count \in Nat \ {0} /\ <<>> \in Seq(T)
        BY <2>4, <2>5
      <4> QED
        BY <2>3, <3>2, <4>1 DEF Frame, Call
    <3>4. stack' \in Seq(Call(T))
      BY <1>2, <3>1, <3>2, <3>3, InFront
    <3> QED
      BY <1>1, <1>2, <2>2, <3>1, <3>4, Called, SameTags
  <2>6. CASE ~(count > 0 /\ Left > 5)
    <3>1. /\ stack' = stack
          /\ ReturnTag(IF count > 0 THEN Nil
                       ELSE [type |-> TAG_LIST, subtype |-> st, items |-> <<>>])
      BY <1>3, <1>5, <2>6 DEF ParseList
    <3>2. CASE count > 0
      <4>1. Fail
        BY <3>1, <3>2 DEF Fail
      <4> QED
        BY <1>1, <1>2, <2>2, <3>1, <4>1, Failed, SameTags
    <3>3. CASE ~(count > 0)
      <4>1. PICK x : x = [type |-> TAG_LIST, subtype |-> st, items |-> <<>>]
        OBVIOUS
      <4>2. ReturnTag(x)
        BY <3>1, <3>3, <4>1
      <4>3. <<>> \in Seq(T)
        OBVIOUS
      <4>4. TagOver(T, x)
        BY <2>3, <4>1, <4>3 DEF TagOver
      <4> QED
        BY <1>1, <1>2, <2>2, <3>1, <4>2, <4>4, Returned
    <3> QED
      BY <3>2, <3>3
  <2> QED
    BY <2>5, <2>6
<1> QED
  BY <1>4, <1>5

\* An item joins its list, which waits for one less.
LEMMA ListItemStep ==
  ASSUME NEW T, State(T), ListItem
  PROVE  Grown(T)
<1>1. /\ Unread /\ pc = "return" /\ pc \in Reading /\ UNCHANGED <<at, name>>
      /\ stack # <<>> /\ Top.type = TAG_LIST
  BY DEF ListItem, InA, Unread, Reading
<1>2. at' \in 0 .. Len(bytes) /\ name' \in Seq(0 .. 255) /\ arg \in T \cup {Nil}
  BY <1>1, ParserFacts DEF State, ParserTyped
<1>3. Top \in Call(T) /\ Tail(stack) \in Seq(Call(T))
  BY <1>1, InnerCall
<1>4. PICK f \in Call(T) : f = Top
  BY <1>3
<1>5. f.type = TAG_LIST /\ f.subtype \in 0 .. 255 /\ f.count \in Nat \ {0} /\ f.key = <<>> /\ f.items \in Seq(T)
  BY <1>1, <1>4, CallKinds
<1>6. PICK items : items = <<arg>> \o Top.items
  OBVIOUS
<1>7. arg # Nil => items \in Seq(T)
  <2>1. ASSUME arg \in T PROVE items \in Seq(T)
    <3>1. <<arg>> \in Seq(T)
      BY <2>1
    <3> QED
      BY <1>4, <1>5, <1>6, <3>1, ConcatProperties
  <2> QED
    BY <1>2, <2>1
<1>8. CASE Fail /\ stack' = Tail(stack)
  BY <1>1, <1>2, <1>3, <1>8, Failed, SameTags
<1>9. CASE /\ arg # Nil
           /\ ReturnTag([type |-> TAG_LIST, subtype |-> Top.subtype, items |-> Reverse(items)])
           /\ stack' = Tail(stack)
  <2>1. Reverse(items) \in Seq(T)
    BY <1>7, <1>9, OccursReverse
  <2>2. PICK x : x = [type |-> TAG_LIST, subtype |-> Top.subtype, items |-> Reverse(items)]
    OBVIOUS
  <2>3. TagOver(T, x)
    BY <1>4, <1>5, <2>1, <2>2 DEF TagOver
  <2>4. stack' \in Seq(Call(T))
    BY <1>3, <1>9
  <2> QED
    BY <1>1, <1>2, <1>9, <2>2, <2>3, <2>4, Returned
<1>10. CASE /\ arg # Nil /\ Top.count > 1 /\ pc' = "parse"
            /\ stack' = <<[Top EXCEPT !.count = @ - 1, !.items = items]>> \o Tail(stack)
  <2>1. PICK g : g = [f EXCEPT !.count = @ - 1, !.items = items]
    OBVIOUS
  <2>2. f.count - 1 \in Nat \ {0}
    BY <1>4, <1>5, <1>10
  <2>3. g = [type |-> TAG_LIST, subtype |-> f.subtype, count |-> f.count - 1, key |-> <<>>, items |-> items]
    BY <1>5, <2>1 DEF Call
  <2>4. g \in Call(T)
    BY <1>5, <1>7, <1>10, <2>2, <2>3 DEF Call
  <2>5. stack' \in Seq(Call(T))
    <3>1. stack' = <<g>> \o Tail(stack)
      BY <1>4, <1>10, <2>1
    <3> QED
      BY <1>3, <2>4, <3>1, InFront
  <2> QED
    BY <1>1, <1>2, <1>10, <2>5, Called, SameTags
<1> QED
  BY <1>6, <1>8, <1>9, <1>10 DEF ListItem

\* A compound begins without nodes.
LEMMA ParseCompoundStep ==
  ASSUME NEW T, State(T), ParseCompound
  PROVE  State(T)'
<1>1. /\ Unread /\ pc \in Reading /\ UNCHANGED <<at, name>> /\ pc' = "node"
      /\ stack' = <<Frame(TAG_COMPOUND, TAG_END, 0, <<>>, <<>>)>> \o stack
  BY DEF ParseCompound, Parsing, Unread, Reading
<1>2. at' \in 0 .. Len(bytes) /\ name' \in Seq(0 .. 255) /\ stack \in Seq(Call(T))
  BY <1>1, ParserFacts
<1>3. PICK f : f = Frame(TAG_COMPOUND, TAG_END, 0, <<>>, <<>>)
  OBVIOUS
<1>4. f \in Call(T) /\ f.type = TAG_COMPOUND
  <2>1. <<>> \in Seq(0 .. 255) /\ <<>> \in Seq(Node(T))
    OBVIOUS
  <2> QED
    BY <1>3, <2>1 DEF Frame, Call
<1>5. stack' \in Seq(Call(T)) /\ stack' # <<>> /\ Head(stack') = f
  BY <1>1, <1>2, <1>3, <1>4, InFront
<1>6. ParserTyped(T)'
  BY <1>1, <1>2, <1>4, <1>5 DEF ParserTyped, Reading, InA, Top
<1> QED
  BY <1>1, <1>2, <1>6, ParserStep DEF Reading

\* A key that is read is bytes.
LEMMA ParseNodeStep ==
  ASSUME NEW T, State(T), ParseNode
  PROVE  State(T)'
<1>1. Unread /\ pc = "node" /\ pc \in Reading /\ UNCHANGED name /\ Left > 0
  BY DEF ParseNode, Unread, Reading
<1>2. /\ bytes \in Seq(0 .. 255) /\ at \in Nat /\ at <= Len(bytes) /\ Len(bytes) \in Nat /\ Left = Len(bytes) - at
      /\ name' \in Seq(0 .. 255)
      /\ stack # <<>> /\ Top.type = TAG_COMPOUND
  BY <1>1, ParserFacts DEF State, ParserTyped, InA
<1>3. PICK f \in Call(T) : f = Top /\ Tail(stack) \in Seq(Call(T))
  BY <1>2, InnerCall
<1>4. PICK n : n = Unsigned(SubSeq(bytes, at + 2, at + 3))
  OBVIOUS
<1>5. CASE Left < 3 \/ Left < 3 + n
  <2>1. Fail /\ at' = at + 1 /\ stack' = Tail(stack)
    BY <1>4, <1>5 DEF ParseNode
  <2>2. at' \in 0 .. Len(bytes)
    BY <1>1, <1>2, <2>1
  <2> QED
    BY <1>1, <1>2, <1>3, <2>1, <2>2, Failed
<1>6. CASE ~(Left < 3 \/ Left < 3 + n)
  <2>1. /\ pc' = "parse" /\ at' = at + 3 + n
        /\ stack' = <<[f EXCEPT !.key = SubSeq(bytes, at + 4, at + 3 + n)]>> \o Tail(stack)
    BY <1>3, <1>4, <1>6 DEF ParseNode
  <2>2. n \in Nat
    <3>1. Part(bytes, at + 2, at + 3, 2)
      BY <1>2, <1>6 DEF Part
    <3> QED
      BY <1>4, <3>1, NumberAhead
  <2>3. at + 3 + n <= Len(bytes)
    BY <1>2, <1>6, <2>2
  <2>4. PICK key \in Seq(0 .. 255) : key = SubSeq(bytes, at + 4, at + 3 + n)
    <3>1. Part(bytes, at + 4, at + 3 + n, n)
      BY <1>2, <2>2, <2>3 DEF Part
    <3> QED
      BY <3>1, SomeBytes DEF Octets
  <2>5. PICK g : g = [f EXCEPT !.key = key]
    OBVIOUS
  <2>6. g \in Call(T)
    <3>1. /\ f.type = TAG_COMPOUND /\ f.subtype = TAG_END /\ f.count = 0
          /\ f.items \in Seq(Node(T))
      BY <1>2, <1>3, CallKinds
    <3>2. g = [type |-> TAG_COMPOUND, subtype |-> TAG_END, count |-> 0, key |-> key,
               items |-> f.items]
      BY <2>5, <3>1 DEF Call
    <3> QED
      BY <3>1, <3>2 DEF Call
  <2>7. stack' = <<g>> \o Tail(stack)
    BY <2>1, <2>4, <2>5
  <2>8. stack' \in Seq(Call(T))
    BY <1>3, <2>6, <2>7, InFront
  <2>9. at' \in 0 .. Len(bytes)
    BY <1>2, <2>1, <2>2, <2>3
  <2> QED
    BY <1>1, <1>2, <2>1, <2>8, <2>9, Called
<1> QED
  BY <1>5, <1>6

\* A compound that is parsed is a tag.
LEMMA ParseCompoundEndStep ==
  ASSUME NEW T, State(T), ParseCompoundEnd
  PROVE  Grown(T)
<1>1. /\ Unread /\ pc = "node" /\ pc \in Reading /\ UNCHANGED name /\ stack' = Tail(stack)
  BY DEF ParseCompoundEnd, Unread, Reading
<1>2. /\ bytes \in Seq(0 .. 255) /\ at \in Nat /\ at <= Len(bytes) /\ Len(bytes) \in Nat /\ Left = Len(bytes) - at
      /\ at \in 0 .. Len(bytes) /\ Left \in Nat /\ name' \in Seq(0 .. 255)
      /\ stack # <<>> /\ Top.type = TAG_COMPOUND
  BY <1>1, ParserFacts DEF State, ParserTyped, InA
<1>3. PICK f \in Call(T) : f = Top /\ Tail(stack) \in Seq(Call(T))
  BY <1>2, InnerCall
<1>4. CASE Left = 0
  <2>1. Fail /\ at' = at
    BY <1>4 DEF ParseCompoundEnd
  <2> QED
    BY <1>1, <1>2, <1>3, <2>1, Failed, SameTags
<1>5. CASE Left # 0
  <2>1. at' = at + 1 /\ ReturnTag([type |-> TAG_COMPOUND, items |-> f.items])
    BY <1>3, <1>5 DEF ParseCompoundEnd
  <2>2. at' \in 0 .. Len(bytes)
    BY <1>2, <1>5, <2>1
  <2>3. f.items \in Seq(Node(T))
    BY <1>2, <1>3, CallKinds
  <2>4. PICK x : x = [type |-> TAG_COMPOUND, items |-> f.items]
    OBVIOUS
  <2>5. TagOver(T, x)
    BY <2>3, <2>4 DEF TagOver, Node
  <2> QED
    BY <1>1, <1>2, <1>3, <2>1, <2>2, <2>4, <2>5, Returned
<1> QED
  BY <1>4, <1>5

\* A node put into a compound.
LEMMA KeySet ==
  ASSUME NEW S, NEW items \in Seq(S), NEW key, NEW t, [key |-> key, value |-> t] \in S
  PROVE  SetKey(items, key, t) \in Seq(S)
<1> DEFINE keyed == {i \in DOMAIN items : items[i].key = key}
<1>1. <<[key |-> key, value |-> t]>> \in Seq(S)
  OBVIOUS
<1>2. (IF keyed = {} THEN items ELSE RemoveAt(items, Min(keyed))) \in Seq(S)
  <2>1. CASE keyed = {}
    BY <2>1
  <2>2. CASE keyed # {}
    <3>1. keyed \in SUBSET Nat /\ DOMAIN items = 1 .. Len(items)
      OBVIOUS
    <3>2. Min(keyed) \in keyed
      BY <2>2, <3>1, MinProperties
    <3>3. Min(keyed) \in 1 .. Len(items)
      BY <3>1, <3>2
    <3>4. RemoveAt(items, Min(keyed)) \in Seq(S)
      BY <3>3, RemoveAtProperties
    <3> QED
      BY <2>2, <3>4
  <2> QED
    BY <2>1, <2>2
<1> QED
  BY <1>1, <1>2, ConcatProperties DEF SetKey

\* A value joins its compound.
LEMMA CompoundItemStep ==
  ASSUME NEW T, State(T), CompoundItem
  PROVE  State(T)'
<1>1. /\ Unread /\ pc = "return" /\ pc \in Reading /\ UNCHANGED <<at, name>>
      /\ stack # <<>> /\ Top.type = TAG_COMPOUND
  BY DEF CompoundItem, InA, Unread, Reading
<1>2. at' \in 0 .. Len(bytes) /\ name' \in Seq(0 .. 255) /\ arg \in T \cup {Nil}
  BY <1>1, ParserFacts DEF State, ParserTyped
<1>3. PICK f \in Call(T) : f = Top /\ Tail(stack) \in Seq(Call(T))
  BY <1>1, InnerCall
<1>4. CASE arg = Nil
  <2>1. Fail /\ stack' = Tail(stack)
    BY <1>4 DEF CompoundItem
  <2> QED
    BY <1>1, <1>2, <1>3, <2>1, Failed
<1>5. CASE arg # Nil
  <2>1. /\ pc' = "node"
        /\ stack' = <<[f EXCEPT !.items = SetKey(@, f.key, arg)]>> \o Tail(stack)
    BY <1>3, <1>5 DEF CompoundItem
  <2>2. /\ f.type = TAG_COMPOUND /\ f.subtype = TAG_END /\ f.count = 0
        /\ f.key \in Seq(0 .. 255) /\ f.items \in Seq(Node(T))
    BY <1>1, <1>3, CallKinds
  <2>3. PICK items \in Seq(Node(T)) : items = SetKey(f.items, f.key, arg)
    <3>1. PICK x : x = [key |-> f.key, value |-> arg]
      OBVIOUS
    <3>2. x \in Node(T)
      BY <1>2, <1>5, <2>2, <3>1 DEF Node
    <3> QED
      BY <2>2, <3>1, <3>2, KeySet
  <2>4. PICK g : g = [f EXCEPT !.items = items]
    OBVIOUS
  <2>5. g \in Call(T) /\ g.type = TAG_COMPOUND
    BY <2>2, <2>4 DEF Call, TAG_LIST, TAG_COMPOUND
  <2>6. stack' = <<g>> \o Tail(stack)
    BY <2>1, <2>3, <2>4
  <2>7. stack' \in Seq(Call(T)) /\ stack' # <<>> /\ Head(stack') = g
    BY <1>3, <2>5, <2>6, InFront
  <2>8. ParserTyped(T)'
    BY <1>2, <2>1, <2>5, <2>7 DEF ParserTyped, Reading, InA, Top
  <2> QED
    BY <1>1, <1>2, <2>1, <2>8, ParserStep DEF Reading
<1> QED
  BY <1>4, <1>5

\* The client takes what was read, or goes on with what it had.
LEMMA ParseEndStep ==
  ASSUME NEW T, State(T), ParseEnd
  PROVE  State(T)'
<1>1. /\ pc = "return" /\ pc' \in {"idle", "failed"} /\ stack = <<>> /\ stack' = <<>> /\ at' = 0
      /\ UNCHANGED <<bytes, rawlen, todo>>
  BY DEF ParseEnd, writer
<1>2. /\ bytes \in Seq(0 .. 255) /\ name \in Seq(0 .. 255) /\ arg \in T \cup {Nil}
      /\ Len(bytes) \in Nat
  BY <1>1, LenProperties DEF State, FileTyped, ParserTyped, Reading
<1>3. root' \in T \cup {Nil} /\ root_name' \in Seq(0 .. 255)
  BY <1>2 DEF ParseEnd, Accepted, nbt, State, WriterTyped
<1>4. Closed(T)'
  BY DEF State, Closed, TagOver
<1>5. FileTyped'
  BY <1>1, <1>2 DEF FileTyped
<1>6. WriterTyped(T)'
  BY <1>1, <1>3 DEF State, WriterTyped
<1>7. ParserTyped(T)'
  BY <1>1 DEF ParserTyped, Reading
<1>8. Measured(T)'
  BY <1>1 DEF Measured
<1> QED
  BY <1>4, <1>5, <1>6, <1>7, <1>8 DEF State

\* What a client goes on with is a tag that is around.
LEMMA GoOnStep ==
  ASSUME NEW T, State(T), GoOn
  PROVE  State(T)'
<1>1. /\ pc' = "idle" /\ stack' = <<>> /\ at' = 0 /\ UNCHANGED <<bytes, rawlen, todo>>
  BY DEF GoOn, writer
<1>2. bytes \in Seq(0 .. 255) /\ Len(bytes) \in Nat
  BY LenProperties DEF State, FileTyped
<1>3. root' \in T \cup {Nil} /\ root_name' \in Seq(0 .. 255)
  <2>1. CASE pc = "failed"
    BY <2>1 DEF GoOn, nbt, State, WriterTyped
  <2>2. CASE pc # "failed"
    <3>1. root' = Nil /\ root_name' = <<>>
      BY <2>2 DEF GoOn
    <3> QED
      BY <3>1
  <2> QED
    BY <2>1, <2>2
<1>4. Closed(T)'
  BY DEF State, Closed, TagOver
<1>5. FileTyped'
  BY <1>1, <1>2 DEF FileTyped
<1>6. WriterTyped(T)'
  BY <1>1, <1>3 DEF State, WriterTyped
<1>7. ParserTyped(T)'
  BY <1>1 DEF ParserTyped, Reading
<1>8. Measured(T)'
  BY <1>1 DEF Measured
<1> QED
  BY <1>4, <1>5, <1>6, <1>7, <1>8 DEF State

-----------------------------------------------------------------------------
(* The invariant and what it says.                                         *)

\* No step of the whole leads out of the tags around and the one it returns.
LEMMA NextTags ==
  ASSUME NEW T, State(T), [Next]_vars
  PROVE  Grown(T)
<1>1. State(T)
  OBVIOUS
<1>2. CASE \E n \in Names : SetName(n)
  BY <1>1, <1>2, SetNameStep, SameTags
<1>3. CASE \E t \in Trees : SetRoot(t)
  BY <1>1, <1>3, SetRootStep, SameTags
<1>4. CASE WriteStart
  BY <1>1, <1>4, WriteStartStep, SameTags
<1>5. CASE Measure
  BY <1>1, <1>5, MeasureStep, SameTags
<1>6. CASE WriteName
  BY <1>1, <1>6, WriteNameStep, SameTags
<1>7. CASE WriteTag
  BY <1>1, <1>7, WriteTagStep, SameTags
<1>8. CASE Written
  BY <1>1, <1>8, WrittenStep, SameTags
<1>9. CASE Damage
  BY <1>1, <1>9, DamageStep, SameTags
<1>10. CASE ParseStart
  BY <1>1, <1>10, ParseStartStep, SameTags
<1>11. CASE ParseUnknown
  BY <1>1, <1>11, ParseUnknownStep, SameTags
<1>12. CASE ParseScalar
  BY <1>1, <1>12, ParseScalarStep
<1>13. CASE ParseArray
  BY <1>1, <1>13, ParseArrayStep
<1>14. CASE ParseText
  BY <1>1, <1>14, ParseTextStep
<1>15. CASE ParseList
  BY <1>1, <1>15, ParseListStep
<1>16. CASE ListItem
  BY <1>1, <1>16, ListItemStep
<1>17. CASE ParseCompound
  BY <1>1, <1>17, ParseCompoundStep, SameTags
<1>18. CASE ParseNode
  BY <1>1, <1>18, ParseNodeStep, SameTags
<1>19. CASE ParseCompoundEnd
  BY <1>1, <1>19, ParseCompoundEndStep
<1>20. CASE CompoundItem
  BY <1>1, <1>20, CompoundItemStep, SameTags
<1>21. CASE ParseEnd
  BY <1>1, <1>21, ParseEndStep, SameTags
<1>22. CASE GoOn
  BY <1>1, <1>22, GoOnStep, SameTags
<1>23. CASE UNCHANGED vars
  <2>1. UNCHANGED <<root_name, root, bytes, pc, rawlen, todo, at, stack, arg, name>>
    BY <1>23 DEF vars, nbt, writer, parser
  <2>2. Closed(T)'
    BY <1>1 DEF State, Closed, TagOver
  <2>3. FileTyped'
    BY <1>1, <2>1 DEF State, FileTyped
  <2>4. WriterTyped(T)'
    BY <1>1, <2>1 DEF State, WriterTyped
  <2>5. ParserTyped(T)'
    BY <1>1, <2>1 DEF State, ParserTyped, InA, Top
  <2>6. Measured(T)'
    BY <1>1, <2>1 DEF State, Measured
  <2>7. State(T)'
    BY <2>2, <2>3, <2>4, <2>5, <2>6 DEF State
  <2> QED
    BY <2>7, SameTags
<1> QED
  BY <1>2, <1>3, <1>4, <1>5, <1>6, <1>7, <1>8, <1>9, <1>10, <1>11, <1>12, <1>13, <1>14, <1>15,
     <1>16, <1>17, <1>18, <1>19, <1>20, <1>21, <1>22, <1>23 DEF Next

\* The invariant is inductive.
LEMMA NextKeeps ==
  ASSUME NBTInv, [Next]_vars
  PROVE  NBTInv'
<1>1. PICK T : State(T)
  BY DEF NBTInv
<1> QED
  BY <1>1, NextTags DEF NBTInv, Grown

\* It gives the type invariant.
LEMMA InvTyped ==
  ASSUME NBTInv
  PROVE  TypeOK
<1>1. PICK T : State(T)
  BY DEF NBTInv
<1>2. /\ bytes \in Seq(0 .. 255) /\ at \in 0 .. Len(bytes) /\ rawlen \in Nat
      /\ pc \in {"idle", "measure", "write", "parse", "node", "return", "failed", "crashed"}
      /\ stack # <<>> => pc \in {"parse", "node", "return", "crashed"}
  BY <1>1 DEF State, FileTyped, WriterTyped, ParserTyped, Reading
<1>3. ASSUME NEW i \in DOMAIN stack, stack[i].type = TAG_LIST PROVE stack[i].count > 0
  <2>1. stack \in Seq(Call(T)) /\ i \in 1 .. Len(stack)
    BY <1>1 DEF State, ParserTyped
  <2>2. PICK f \in Call(T) : f = stack[i]
    BY <2>1, ElementOfSeq
  <2>3. f.count \in Nat \ {0}
    BY <1>3, <2>2, CallKinds
  <2> QED
    BY <2>2, <2>3
<1> QED
  BY <1>2, <1>3 DEF TypeOK

\* What the second pass has written is what the first counted up to there, and at
\* the end of the run what it counted altogether.
LEMMA InvFilled ==
  ASSUME NBTInv
  PROVE  BufferFilled
<1> SUFFICES ASSUME pc = "write"
             PROVE  /\ Len(bytes) <= rawlen
                    /\ todo = <<>> => Len(bytes) = rawlen
  BY DEF BufferFilled
<1>1. PICK T : State(T)
  BY DEF NBTInv
<1>2. PICK h \in Steps(T) :
        /\ Run(T, root, h) /\ h[Len(h)].left = <<>>
        /\ rawlen = h[Len(h)].sum + 3 + Len(root_name)
        /\ \E i \in 1 .. Len(h) :
              /\ h[i].left = todo
              /\ Len(bytes) + Ends(todo) = 3 + Len(root_name) + h[i].sum
  BY <1>1 DEF State, Measured
<1>3. PICK i \in 1 .. Len(h) :
        /\ h[i].left = todo
        /\ Len(bytes) + Ends(todo) = 3 + Len(root_name) + h[i].sum
  BY <1>2
<1>4. /\ todo \in Seq(Entry(T)) /\ bytes \in Seq(0 .. 255) /\ root_name \in Seq(0 .. 255)
      /\ Len(h) \in Nat
  BY <1>1, LenProperties DEF State, WriterTyped, FileTyped, Steps
<1>5. Len(h) \in 1 .. Len(h)
  BY <1>4
<1>6. PICK m \in Nat, n \in Nat : m = h[i].sum /\ n = h[Len(h)].sum
  <2>1. h[i] \in [left : Seq(Entry(T)), sum : Nat] /\ h[Len(h)] \in [left : Seq(Entry(T)), sum : Nat]
    BY <1>5, ElementOfSeq DEF Steps
  <2> QED
    BY <2>1
<1>7. m <= n
  BY <1>2, <1>6 DEF Run
<1>8. PICK d \in Nat, l \in Nat, q \in Nat : d = Ends(todo) /\ l = Len(bytes) /\ q = Len(root_name)
  <2>1. Ends(todo) \in Nat
    BY <1>4, EndsCount
  <2> QED
    BY <1>4, <2>1, LenProperties
<1>9. l + d = 3 + q + m /\ rawlen = n + 3 + q
  BY <1>2, <1>3, <1>6, <1>8
<1>10. Len(bytes) <= rawlen
  BY <1>7, <1>8, <1>9
<1>11. ASSUME todo = <<>> PROVE Len(bytes) = rawlen
  <2>1. d = 0
    <3>1. Occurs(<<>>, {TheEnd}) = 0
      BY OccursNowhere
    <3> QED
      BY <1>8, <1>11, <3>1 DEF Ends
  <2>2. i = Len(h)
    <3>1. CASE i # Len(h)
      <4>1. i \in 1 .. Len(h) - 1
        BY <1>4, <3>1
      <4>2. Follows(h[i], h[i + 1])
        BY <1>2, <4>1 DEF Run
      <4> QED
        BY <1>3, <1>11, <4>2 DEF Follows
    <3> QED
      BY <3>1
  <2>3. m = n
    BY <1>6, <2>2
  <2> QED
    BY <1>8, <1>9, <2>1, <2>3
<1> QED
  BY <1>10, <1>11

\* Whatever files are read, the parser stays inside of them, and it waits for items
\* of a list only while some are missing (nbt.c:92-346).
THEOREM FilesTypeCorrect == Spec => []TypeOK
<1>1. Init => NBTInv
  BY FirstState DEF NBTInv
<1>2. NBTInv /\ [Next]_vars => NBTInv'
  BY NextKeeps
<1>3. NBTInv => TypeOK
  BY InvTyped
<1> QED
  BY <1>1, <1>2, <1>3, PTL DEF Spec

\* Whatever tree is written, the pass that fills the buffer never leaves it and ends
\* at its end: the two passes over the tree count alike (nbt.c:364-550).
THEOREM BufferExact == Spec => []BufferFilled
<1>1. Init => NBTInv
  BY FirstState DEF NBTInv
<1>2. NBTInv /\ [Next]_vars => NBTInv'
  BY NextKeeps
<1>3. NBTInv => BufferFilled
  BY InvFilled
<1> QED
  BY <1>1, <1>2, <1>3, PTL DEF Spec

-----------------------------------------------------------------------------
(* Files that were damaged: bytes, and where they lie in a file.           *)

\* Bytes c lie in the file s, from the byte behind p on.
Lies(s, p, c) == p + Len(c) <= Len(s) /\ \A k \in 1 .. Len(c) : s[p + k] = c[k]

\* What lies somewhere, lies there part by part.
LEMMA LiesConcat ==
  ASSUME NEW s \in Seq(0 .. 255), NEW p \in Nat, NEW a \in Seq(0 .. 255), NEW b \in Seq(0 .. 255),
         Lies(s, p, a \o b)
  PROVE  Lies(s, p, a) /\ Lies(s, p + Len(a), b)
<1>1. /\ a \o b \in Seq(0 .. 255) /\ Len(a \o b) = Len(a) + Len(b)
      /\ \A i \in 1 .. Len(a) + Len(b) : (a \o b)[i] = IF i <= Len(a) THEN a[i] ELSE b[i - Len(a)]
  BY ConcatProperties
<1>2. PICK x \in Nat : x = Len(a)
  BY LenProperties
<1>3. PICK y \in Nat : y = Len(b)
  BY LenProperties
<1>4. PICK c \in Seq(0 .. 255) : c = a \o b
  BY <1>1
<1>5. /\ x = Len(a) /\ y = Len(b) /\ c = a \o b /\ Len(c) = x + y
      /\ \A i \in 1 .. x + y : c[i] = IF i <= x THEN a[i] ELSE b[i - x]
  BY <1>1, <1>2, <1>3, <1>4, Zenon
<1>6. p + x + y <= Len(s) /\ \A k \in 1 .. x + y : s[p + k] = c[k]
  BY <1>5 DEF Lies
<1>7. Len(s) \in Nat
  BY LenProperties
<1>8. ASSUME NEW k \in 1 .. x PROVE s[p + k] = a[k]
  BY <1>5, <1>6
<1>9. ASSUME NEW k \in 1 .. y PROVE s[p + x + k] = b[k]
  <2>1. x + k \in 1 .. x + y /\ ~(x + k <= x) /\ (x + k) - x = k /\ p + (x + k) = p + x + k
    OBVIOUS
  <2>2. s[p + x + k] = c[x + k]
    BY <1>6, <2>1
  <2>3. c[x + k] = b[k]
    BY <1>5, <2>1
  <2> QED
    BY <2>2, <2>3
<1>10. p + x <= Len(s) /\ p + x + y <= Len(s)
  BY <1>6, <1>7
<1> QED
  BY <1>5, <1>8, <1>9, <1>10 DEF Lies

\* What lies there is what is found there.
LEMMA LiesFound ==
  ASSUME NEW s \in Seq(0 .. 255), NEW p \in Nat, NEW c \in Seq(0 .. 255), Lies(s, p, c)
  PROVE  SubSeq(s, p + 1, p + Len(c)) = c
<1>1. PICK x \in Nat : x = Len(c)
  BY LenProperties
<1>2. p + x <= Len(s) /\ \A k \in 1 .. x : s[p + k] = c[k]
  BY <1>1 DEF Lies
<1>3. Part(s, p + 1, p + x, x)
  BY <1>1, <1>2 DEF Part
<1>4. SubSeq(s, p + 1, p + x) \in Seq(0 .. 255) /\ Len(SubSeq(s, p + 1, p + x)) = x
  BY <1>3, SomeBytes DEF Octets
<1>5. ASSUME NEW i \in 1 .. x PROVE SubSeq(s, p + 1, p + x)[i] = c[i]
  <2>1. SubSeq(s, p + 1, p + x)[i] = s[p + 1 + i - 1]
    <3>1. ASSUME NEW j \in (p + 1) .. (p + x) PROVE s[j] \in 0 .. 255
      <4>1. j \in 1 .. Len(s)
        BY <1>2, LenProperties
      <4> QED
        BY <4>1, ByteNumber
    <3>2. PICK m \in Int, n \in Int : m = p + 1 /\ n = p + x
      OBVIOUS
    <3>3. i \in 1 .. n - m + 1 /\ m <= n
      BY <3>2
    <3>4. \A j \in m .. n : s[j] \in 0 .. 255
      BY <3>1, <3>2
    <3>5. \A S : \A j \in 1 .. n - m + 1 : (\A k \in m .. n : s[k] \in S) => SubSeq(s, m, n)[j] = s[m + j - 1]
      BY <3>3, SubSeqProperties
    <3> QED
      BY <3>2, <3>3, <3>4, <3>5
  <2>2. p + 1 + i - 1 = p + i
    OBVIOUS
  <2> QED
    BY <1>2, <2>1, <2>2
<1> QED
  BY <1>1, <1>4, <1>5, SeqEqual

\* Digits to the base 256.
And(x, c) == x * 256 + c

Leading(z, x, q) == z \div 65536 = x /\ z \div 16777216 = q

\* The two upper bytes of four.
LEMMA ShortQuotient ==
  ASSUME NEW z \in Nat, NEW x \in Nat, NEW m \in Nat, m < 65536, z = x * 65536 + m
  PROVE  z \div 65536 = x
  BY SMT

\* The uppermost byte of four.
LEMMA LongQuotient ==
  ASSUME NEW z \in Nat, NEW x \in Nat, NEW m \in Nat, m < 16777216, z = x * 16777216 + m
  PROVE  z \div 16777216 = x
  BY SMT

\* A number of four bytes begins with the first of them.
LEMMA Digits ==
  ASSUME NEW a \in 0 .. 255, NEW b \in 0 .. 255, NEW c \in 0 .. 255, NEW q \in Nat,
         NEW x \in Nat, NEW y \in Nat, NEW z \in Nat,
         z = And(y, c), y = And(x, b), x = And(q, a)
  PROVE  Leading(z, x, q)
<1>1. z = x * 65536 + (b * 256 + c) /\ b * 256 + c \in Nat /\ b * 256 + c < 65536
  BY SMT DEF And
<1>3. /\ z = q * 16777216 + (a * 65536 + b * 256 + c)
      /\ a * 65536 + b * 256 + c \in Nat /\ a * 65536 + b * 256 + c < 16777216
  BY SMT DEF And
<1>4. z \div 65536 = x
  <2>1. PICK m \in Nat : m = b * 256 + c
    BY SMT
  <2> QED
    BY <1>1, <2>1, ShortQuotient, SMT
<1>5. z \div 16777216 = q
  <2>1. PICK m \in Nat : m = a * 65536 + b * 256 + c
    BY SMT
  <2> QED
    BY <1>3, <2>1, LongQuotient, SMT
<1> QED
  BY <1>4, <1>5 DEF Leading

\* Four bytes of which the first is no sign are a number an int can hold.
LEMMA Most ==
  ASSUME NEW f \in Int, f < 128, NEW y \in 0 .. 255, NEW z \in 0 .. 255, NEW u \in 0 .. 255
  PROVE  And(And(And(f, y), z), u) <= Huge
  BY SMT DEF Huge, And

\* Numbers that fit into two or four bytes come back from them.
LEMMA TwoBytes ==
  ASSUME NEW n \in Nat, n < 65536
  PROVE  Unsigned(BigEndian(n, 2)) = n
<1>1. PICK q \in Nat, r \in 0 .. 255 : q = n \div 256 /\ r = n % 256 /\ n = q * 256 + r
  BY SMT
<1>2. q % 256 = q
  BY <1>1, SMT
<1>3. BigEndian(n, 2) = <<q, r>>
  BY <1>1, <1>2 DEF BigEndian
<1>4. ValueOf(<<q, r>>, q) = q * 256 + r /\ Len(<<q, r>>) = 2 /\ <<q, r>>[1] = q
  BY DEF ValueOf
<1>5. Unsigned(<<q, r>>) = ValueOf(<<q, r>>, q)
  BY <1>4 DEF Unsigned
<1> QED
  BY <1>1, <1>3, <1>4, <1>5

\* Lengths come back from four bytes.
LEMMA FourBytes ==
  ASSUME NEW n \in Nat, n <= Huge
  PROVE  Unsigned(BigEndian(n, 4)) = n /\ Signed(BigEndian(n, 4)) = n
<1>1. PICK q \in Nat, r \in 0 .. 255 : q = n \div 256 /\ r = n % 256 /\ n = q * 256 + r
  BY SMT
<1>2. PICK q2 \in Nat, r2 \in 0 .. 255 : q2 = q \div 256 /\ r2 = q % 256 /\ q = q2 * 256 + r2
  BY SMT
<1>3. PICK q3 \in Nat, r3 \in 0 .. 255 : q3 = q2 \div 256 /\ r3 = q2 % 256 /\ q2 = q3 * 256 + r3
  BY SMT
<1>9. n = And(q, r) /\ q = And(q2, r2) /\ q2 = And(q3, r3)
  BY <1>1, <1>2, <1>3 DEF And
<1>7. Leading(n, q2, q3)
  <2>1. q \in Nat /\ q2 \in Nat /\ q3 \in Nat /\ r \in 0 .. 255 /\ r2 \in 0 .. 255 /\ r3 \in 0 .. 255
    BY <1>1, <1>2, <1>3
  <2> QED
    BY <1>9, <2>1, Digits
<1>4. q3 < 128 /\ q3 % 256 = q3
  BY <1>1, <1>2, <1>3, SMT DEF Huge
<1>5. BigEndian(n, 4) = <<q3, r3, r2, r>>
  BY <1>1, <1>2, <1>3, <1>4, <1>7 DEF BigEndian, Leading
<1>6. ValueOf(<<q3, r3, r2, r>>, q3) = n
  BY <1>1, <1>2, <1>3, SMT DEF ValueOf
<1> QED
  BY <1>4, <1>5, <1>6, SMT DEF Unsigned, Signed

\* What two and four bytes can say.
LEMMA NumberBounds ==
  ASSUME NEW b \in Seq(0 .. 255)
  PROVE  /\ Len(b) = 2 => Unsigned(b) < 65536
         /\ Len(b) = 4 => Unsigned(b) <= Huge /\ Signed(b) <= Huge
<1>1. ASSUME Len(b) = 2 PROVE Unsigned(b) < 65536
  <2>1. 1 \in 1 .. Len(b) /\ 2 \in 1 .. Len(b)
    BY <1>1
  <2>2. PICK x \in 0 .. 255, y \in 0 .. 255 : x = b[1] /\ y = b[2]
    BY <2>1, ByteNumber
  <2>3. Unsigned(b) = x * 256 + y
    BY <1>1, <2>2 DEF Unsigned, ValueOf
  <2> QED
    BY <2>3
<1>2. ASSUME Len(b) = 4 PROVE Unsigned(b) <= Huge /\ Signed(b) <= Huge
  <2>1. PICK x \in 0 .. 255, y \in 0 .. 255, z \in 0 .. 255, u \in 0 .. 255 :
          x = b[1] /\ y = b[2] /\ z = b[3] /\ u = b[4]
    <3>1. 1 \in 1 .. Len(b) /\ 2 \in 1 .. Len(b) /\ 3 \in 1 .. Len(b) /\ 4 \in 1 .. Len(b)
      BY <1>2
    <3>2. b[1] \in 0 .. 255 /\ b[2] \in 0 .. 255 /\ b[3] \in 0 .. 255 /\ b[4] \in 0 .. 255
      BY <3>1, ByteNumber
    <3> QED
      BY <3>2
  <2>2. \A f \in Int : ValueOf(b, f) = And(And(And(f, y), z), u)
    BY <1>2, <2>1 DEF ValueOf, And
  <2>3. \A f \in Int : f < 128 => And(And(And(f, y), z), u) <= Huge
    BY <2>1, Most
  <2>4. Huge \in Int
    BY SMT DEF Huge
  <2>5. Unsigned(b) = IF x >= 128 THEN Huge ELSE ValueOf(b, x)
    BY <1>2, <2>1 DEF Unsigned
  <2>6. Signed(b) = ValueOf(b, IF x < 128 THEN x ELSE x - 256)
    BY <2>1 DEF Signed
  <2>7. Unsigned(b) <= Huge
    <3>1. CASE x >= 128
      BY <2>4, <2>5, <3>1
    <3>2. CASE ~(x >= 128)
      <4>1. x \in Int /\ x < 128 /\ Unsigned(b) = ValueOf(b, x)
        BY <2>5, <3>2
      <4> QED
        BY <2>2, <2>3, <4>1
    <3> QED
      BY <3>1, <3>2
  <2>8. PICK f \in Int : f = (IF x < 128 THEN x ELSE x - 256) /\ f < 128
    OBVIOUS
  <2>9. Signed(b) = And(And(And(f, y), z), u)
    BY <2>2, <2>6, <2>8
  <2>10. Signed(b) <= Huge
    BY <2>3, <2>8, <2>9
  <2> QED
    BY <2>7, <2>10
<1> QED
  BY <1>1, <1>2

-----------------------------------------------------------------------------
(* Files as they were written.                                             *)

OfOneType(s, type) == \A i \in 1 .. Len(s) : s[i].type = type
ShortKeys(s) == \A i \in 1 .. Len(s) : Len(s[i].key) < 65536

\* What a file can say of a tag: lengths fit into what they are written in, and a
\* list has items of one type.
Readable(t) ==
    /\ t.type \in Array => Len(t.data) < Huge
    /\ t.type = TAG_STRING => Len(t.string) < 65536
    /\ t.type = TAG_LIST =>
          Len(t.items) <= Huge /\ OfOneType(t.items, t.subtype)
    /\ t.type = TAG_COMPOUND => ShortKeys(t.items)

Sound(T) == Closed(T) /\ \A t \in T : Readable(t)

\* A byte that lies in a file is found there.
LEMMA OneLies ==
  ASSUME NEW s, NEW p, NEW x, Lies(s, p, <<x>>)
  PROVE  s[p + 1] = x
<1>1. Len(<<x>>) = 1 /\ 1 \in 1 .. 1 /\ <<x>>[1] = x
  OBVIOUS
<1> QED
  BY <1>1 DEF Lies

\* The bytes of an entry, told apart as the parser reads them.
LEMMA NodeLies ==
  ASSUME NEW T, Sound(T), NEW e \in Entry(T), e.what = "node",
         NEW s \in Seq(0 .. 255), NEW p \in Nat, Lies(s, p, BytesOf(e))
  PROVE  /\ e.tag \in T /\ e.key \in Seq(0 .. 255) /\ e.tag.type \in 1 .. 11
         /\ Lies(s, p, <<e.tag.type>>)
         /\ Lies(s, p + 1, StringBytes(e.key))
         /\ Len(BytesOf(e)) = 3 + Len(e.key)
         /\ Parts(e) = <<ATag(e.tag)>>
<1>1. e.tag \in T /\ e.key \in Seq(0 .. 255) /\ Parts(e) = <<ATag(e.tag)>>
  BY EntryKinds DEF Parts
<1>2. e.tag.type \in 1 .. 11 /\ e.tag.type \in 0 .. 255
  <2>1. TagOver(T, e.tag)
    BY <1>1 DEF Sound, Closed
  <2> QED
    BY <2>1, TagKinds, TypeBytes
<1>3. PICK a \in Seq(0 .. 255) : a = <<e.tag.type>> /\ Len(a) = 1
  BY <1>2, OneByte
<1>4. PICK b \in Seq(0 .. 255) : b = StringBytes(e.key) /\ Len(b) = 2 + Len(e.key)
  BY <1>1, StringCounted
<1>5. BytesOf(e) = a \o b
  BY <1>3, <1>4 DEF BytesOf
<1>6. Lies(s, p, a) /\ Lies(s, p + Len(a), b)
  BY <1>5, LiesConcat
<1>7. Len(BytesOf(e)) = 3 + Len(e.key)
  <2>1. Len(a \o b) = Len(a) + Len(b)
    BY MoreBytes
  <2>2. Len(e.key) \in Nat
    BY <1>1, LenProperties
  <2> QED
    BY <1>3, <1>4, <1>5, <2>1, <2>2
<1> QED
  BY <1>1, <1>2, <1>3, <1>4, <1>6, <1>7

\* The end of a compound is one byte, and nothing is left of it.
LEMMA EndLies ==
  ASSUME NEW s \in Seq(0 .. 255), NEW p \in Nat, Lies(s, p, BytesOf(TheEnd))
  PROVE  Lies(s, p, <<TAG_END>>) /\ Len(BytesOf(TheEnd)) = 1 /\ Parts(TheEnd) = <<>>
  BY DEF BytesOf, Parts, TheEnd

\* A string is its length and its bytes.
LEMMA StringLies ==
  ASSUME NEW s \in Seq(0 .. 255), NEW p \in Nat, NEW t \in Seq(0 .. 255), Lies(s, p, StringBytes(t))
  PROVE  Lies(s, p, BigEndian(Len(t), 2)) /\ Lies(s, p + 2, t)
<1>1. PICK a \in Seq(0 .. 255) : a = BigEndian(Len(t), 2) /\ Len(a) = 2
  BY BigEndianBytes, LenProperties
<1>2. Lies(s, p, a \o t)
  BY <1>1 DEF StringBytes
<1>3. Lies(s, p, a) /\ Lies(s, p + Len(a), t)
  BY <1>2, LiesConcat
<1> QED
  BY <1>1, <1>3

\* An entry that is a tag.
LEMMA TagEntry ==
  ASSUME NEW T, Sound(T), NEW e \in Entry(T), e.what = "tag"
  PROVE  /\ e.tag \in T /\ TagOver(T, e.tag) /\ Readable(e.tag)
         /\ BytesOf(e) = TagBytes(e.tag) /\ e = ATag(e.tag)
<1>1. e.tag \in T
  BY EntryKinds
<1>2. e = ATag(e.tag)
  BY DEF Entry, ATag, TheEnd
<1> QED
  BY <1>1, <1>2 DEF Sound, Closed, BytesOf

\* A number is as many bytes as it is wide, and nothing is left of it.
LEMMA ScalarLies ==
  ASSUME NEW T, NEW t, TagOver(T, t), t.type \in Scalar
  PROVE  Len(TagBytes(t)) = Width(t.type) /\ Parts(ATag(t)) = <<>>
<1>1. t.int \in Int
  BY TagKinds
<1>2. Width(t.type) \in {1, 2, 4}
  BY Widths
<1>3. TagBytes(t) = BigEndian(t.int, Width(t.type))
  BY DEF TagBytes
<1>4. Parts(ATag(t)) = <<>>
  BY DEF Parts, ATag, Scalar, TAG_BYTE, TAG_SHORT, TAG_INT, TAG_LIST, TAG_COMPOUND
<1> QED
  BY <1>1, <1>2, <1>3, <1>4, BigEndianBytes

\* An array begins with its length, and nothing is left of it.
LEMMA ArrayLies ==
  ASSUME NEW T, NEW t, TagOver(T, t), t.type \in Array,
         NEW s \in Seq(0 .. 255), NEW p \in Nat, Lies(s, p, TagBytes(t))
  PROVE  /\ Lies(s, p, BigEndian(Len(t.data), 4)) /\ Parts(ATag(t)) = <<>>
         /\ t.data \in Seq(Int) /\ Len(TagBytes(t)) = 4 + Width(t.type) * Len(t.data)
<1>1. t.data \in Seq(Int)
  BY TagKinds
<1>2. /\ ArrayBytes(t) \in Seq(0 .. 255)
      /\ Len(ArrayBytes(t)) = 4 + Width(t.type) * Len(t.data)
      /\ Width(t.type) * Len(t.data) \in Nat
  BY <1>1, ArrayCounted
<1>3. TagBytes(t) = ArrayBytes(t)
  BY DEF TagBytes, Scalar, Array, TAG_BYTE, TAG_SHORT, TAG_INT, TAG_BYTE_ARRAY, TAG_INT_ARRAY
<1>4. Parts(ATag(t)) = <<>>
  BY DEF Parts, ATag, Array, TAG_BYTE_ARRAY, TAG_INT_ARRAY, TAG_LIST, TAG_COMPOUND
<1>5. PICK a \in Seq(0 .. 255) : a = BigEndian(Len(t.data), 4) /\ Len(a) = 4
  BY <1>1, BigEndianBytes, LenProperties
<1>6. ASSUME NEW k \in 1 .. 4 PROVE ArrayBytes(t)[k] = a[k]
  <2>1a. PICK w : w = Width(t.type)
    OBVIOUS
  <2>2a. PICK m \in Nat : m = w * Len(t.data)
    BY <1>2, <2>1a
  <2>2. m \in Nat /\ w = Width(t.type) /\ m = w * Len(t.data)
    BY <2>1a, <2>2a
  <2>3. PICK b : b = [i \in 1 .. m |->
                        BigEndian(t.data[((i - 1) \div w) + 1], w)[((i - 1) % w) + 1]]
    OBVIOUS
  <2>1. ArrayBytes(t) = a \o b
    BY <1>5, <2>2, <2>3 DEF ArrayBytes
  <2>8. DOMAIN b = 1 .. m /\ b = [i \in 1 .. m |-> b[i]]
    BY <2>3
  <2>9. PICK S : S = (0 .. 255) \cup {b[i] : i \in 1 .. m}
    OBVIOUS
  <2>4. b \in Seq(S)
    <3>1. \A i \in 1 .. m : b[i] \in S
      BY <2>9
    <3>2. b \in [1 .. m -> S]
      BY <2>8, <3>1
    <3>3. \A R : \A f \in [1 .. m -> R] : f \in Seq(R)
      BY <2>2
    <3> QED
      BY <3>2, <3>3
  <2>5. a \in Seq(S)
    BY <2>9, SeqWider
  <2>6. \A i \in 1 .. Len(a) + Len(b) : (a \o b)[i] = IF i <= Len(a) THEN a[i] ELSE b[i - Len(a)]
    BY <2>4, <2>5, ConcatProperties
  <2>7. Len(b) \in Nat
    BY <2>4, LenProperties
  <2> QED
    BY <1>5, <2>1, <2>6, <2>7
<1>7. Lies(s, p, a)
  <2>1. p + Len(TagBytes(t)) <= Len(s) /\ \A k \in 1 .. Len(TagBytes(t)) : s[p + k] = TagBytes(t)[k]
    BY DEF Lies
  <2>2. PICK m \in Nat : m = Width(t.type) * Len(t.data)
    BY <1>2
  <2>3. p + (4 + m) <= Len(s) /\ \A k \in 1 .. 4 + m : s[p + k] = ArrayBytes(t)[k]
    BY <1>2, <1>3, <2>1, <2>2
  <2>4. p + 4 <= Len(s)
    BY <2>3, LenProperties
  <2>5. \A k \in 1 .. 4 : s[p + k] = a[k]
    BY <1>6, <2>3
  <2> QED
    BY <1>5, <2>4, <2>5 DEF Lies
<1> QED
  BY <1>1, <1>2, <1>3, <1>4, <1>5, <1>7

\* A string tag is its string, and nothing is left of it.
LEMMA TextLies ==
  ASSUME NEW T, NEW t, TagOver(T, t), t.type = TAG_STRING
  PROVE  TagBytes(t) = StringBytes(t.string) /\ Parts(ATag(t)) = <<>> /\ t.string \in Seq(0 .. 255)
<1>1. t.string \in Seq(0 .. 255)
  BY TagKinds
<1> QED
  BY <1>1 DEF TagBytes, Parts, ATag, Scalar, Array, TAG_BYTE, TAG_SHORT, TAG_INT,
              TAG_BYTE_ARRAY, TAG_INT_ARRAY, TAG_STRING, TAG_LIST, TAG_COMPOUND

\* A list begins with the type and the number of its items, which are left.
LEMMA ListLies ==
  ASSUME NEW T, NEW t, TagOver(T, t), t.type = TAG_LIST,
         NEW s \in Seq(0 .. 255), NEW p \in Nat, Lies(s, p, TagBytes(t))
  PROVE  /\ Lies(s, p, <<t.subtype>>) /\ Lies(s, p + 1, BigEndian(Len(t.items), 4))
         /\ Len(TagBytes(t)) = 5 /\ t.items \in Seq(T)
         /\ Parts(ATag(t)) = [i \in DOMAIN t.items |-> ATag(t.items[i])]
<1>1. t.subtype \in 0 .. 255 /\ t.items \in Seq(T)
  BY TagKinds
<1>2. PICK a \in Seq(0 .. 255) : a = <<t.subtype>> /\ Len(a) = 1
  BY <1>1, OneByte
<1>3. PICK b \in Seq(0 .. 255) : b = BigEndian(Len(t.items), 4) /\ Len(b) = 4
  BY <1>1, BigEndianBytes, LenProperties
<1>4. TagBytes(t) = a \o b
  BY <1>2, <1>3 DEF TagBytes, Scalar, Array, TAG_BYTE, TAG_SHORT, TAG_INT,
              TAG_BYTE_ARRAY, TAG_INT_ARRAY, TAG_STRING, TAG_LIST
<1>5. Len(TagBytes(t)) = 5
  <2>1. Len(a \o b) = Len(a) + Len(b)
    BY MoreBytes
  <2>2. Len(a) = 1 /\ Len(b) = 4
    BY <1>2, <1>3
  <2>3. Len(a \o b) = 5
    BY <2>1, <2>2
  <2> QED
    BY <1>4, <2>3
<1>6. Parts(ATag(t)) = [i \in DOMAIN t.items |-> ATag(t.items[i])]
  BY DEF Parts, ATag
<1>7. Lies(s, p, a) /\ Lies(s, p + Len(a), b)
  BY <1>4, LiesConcat
<1> QED
  BY <1>1, <1>2, <1>3, <1>5, <1>6, <1>7

\* A compound has no bytes of its own; its nodes and its end are left.
LEMMA CompoundLies ==
  ASSUME NEW T, NEW t, TagOver(T, t), t.type = TAG_COMPOUND
  PROVE  /\ TagBytes(t) = <<>> /\ t.items \in Seq(Node(T))
         /\ Parts(ATag(t)) = Append([i \in DOMAIN t.items |-> ANode(t.items[i])], TheEnd)
<1>1. t.items \in Seq(Node(T))
  BY TagKinds
<1>2. TagBytes(t) = <<>>
  BY DEF TagBytes, Scalar, Array, TAG_BYTE, TAG_SHORT, TAG_INT,
              TAG_BYTE_ARRAY, TAG_INT_ARRAY, TAG_STRING, TAG_LIST, TAG_COMPOUND
<1>3. Parts(ATag(t)) = Append([i \in DOMAIN t.items |-> ANode(t.items[i])], TheEnd)
  BY DEF Parts, ATag, TAG_LIST, TAG_COMPOUND
<1> QED
  BY <1>1, <1>2, <1>3

\* The steps of the second pass: what is left to write, and how many bytes of the file
\* F are there.
Stamp(T) == [left : Seq(Entry(T)), pos : Nat]

Wrote(F, s, t) ==
    /\ s.left # <<>>
    /\ t.left = Parts(Head(s.left)) \o Tail(s.left)
    /\ t.pos = s.pos + Len(BytesOf(Head(s.left)))
    /\ Lies(F, s.pos, BytesOf(Head(s.left)))

Headed(F, u, n) == Lies(F, 0, <<u.type>>) /\ Lies(F, 1, StringBytes(n))

\* F is what is written of the tree u under the name n after the steps h.
Track(T, u, n, h, F) ==
    /\ Sound(T) /\ u \in T
    /\ n \in Seq(0 .. 255) /\ Len(n) < 65536
    /\ F \in Seq(0 .. 255) /\ Headed(F, u, n)
    /\ h \in Seq(Stamp(T)) /\ h # <<>>
    /\ h[1] = [left |-> <<ATag(u)>>, pos |-> 3 + Len(n)]
    /\ \A i \in 1 .. Len(h) - 1 : Wrote(F, h[i], h[i + 1])
    /\ h[Len(h)].pos = Len(F)

\* A longer file has what it had.
LEMMA LiesFurther ==
  ASSUME NEW s \in Seq(0 .. 255), NEW b \in Seq(0 .. 255), NEW p \in Nat, NEW c, Len(c) \in Nat,
         Lies(s, p, c)
  PROVE  Lies(s \o b, p, c)
<1>1. PICK l \in Nat, m \in Nat, x \in Nat : l = Len(s) /\ m = Len(b) /\ x = Len(c)
  BY LenProperties
<1>2. /\ Len(s \o b) = l + m
      /\ \A i \in 1 .. l + m : (s \o b)[i] = IF i <= l THEN s[i] ELSE b[i - l]
  BY <1>1, ConcatProperties
<1>3. p + x <= l /\ \A k \in 1 .. x : s[p + k] = c[k]
  BY <1>1 DEF Lies
<1>4. p + x <= l + m
  BY <1>1, <1>3
<1>5. ASSUME NEW k \in 1 .. x PROVE (s \o b)[p + k] = c[k]
  <2>1. p + k \in 1 .. l + m /\ p + k <= l
    BY <1>1, <1>3
  <2> QED
    BY <1>2, <1>3, <2>1
<1> QED
  BY <1>1, <1>2, <1>4, <1>5 DEF Lies

\* Bytes that are put behind a file lie there.
LEMMA LiesBehind ==
  ASSUME NEW s \in Seq(0 .. 255), NEW b \in Seq(0 .. 255)
  PROVE  Lies(s \o b, Len(s), b)
<1>1. PICK l \in Nat, m \in Nat : l = Len(s) /\ m = Len(b)
  BY LenProperties
<1>2. /\ Len(s \o b) = l + m
      /\ \A i \in 1 .. l + m : (s \o b)[i] = IF i <= l THEN s[i] ELSE b[i - l]
  BY <1>1, ConcatProperties
<1>3. ASSUME NEW k \in 1 .. m PROVE (s \o b)[l + k] = b[k]
  <2>1. l + k \in 1 .. l + m /\ ~(l + k <= l) /\ (l + k) - l = k
    BY <1>1
  <2> QED
    BY <1>2, <2>1
<1> QED
  BY <1>1, <1>2, <1>3 DEF Lies

\* A step of the track, as the parser meets it.
Stride(T, F, s, t) ==
    /\ s \in Stamp(T) /\ t \in Stamp(T) /\ Wrote(F, s, t)
    /\ Head(s.left) \in Entry(T) /\ Tail(s.left) \in Seq(Entry(T))
    /\ BytesOf(Head(s.left)) \in Seq(0 .. 255) /\ Parts(Head(s.left)) \in Seq(Entry(T))
    /\ t.pos <= Len(F)

\* The steps of a track, one by one.
LEMMA Strides ==
  ASSUME NEW T, NEW u, NEW n, NEW h, NEW F, Track(T, u, n, h, F), NEW i \in 1 .. Len(h) - 1
  PROVE  Stride(T, F, h[i], h[i + 1]) /\ i + 1 \in 1 .. Len(h)
<1>1. h \in Seq(Stamp(T)) /\ Len(h) \in Nat /\ Closed(T)
  BY LenProperties DEF Track, Sound
<1>2. i \in 1 .. Len(h) /\ i + 1 \in 1 .. Len(h)
  BY <1>1
<1>3. h[i] \in Stamp(T) /\ h[i + 1] \in Stamp(T)
  BY <1>1, <1>2, ElementOfSeq
<1>4. PICK s \in Stamp(T), t \in Stamp(T) : s = h[i] /\ t = h[i + 1] /\ Wrote(F, s, t)
  BY <1>3 DEF Track
<1>5. s.left \in Seq(Entry(T)) /\ s.left # <<>>
  BY <1>4 DEF Stamp, Wrote
<1>6. Head(s.left) \in Entry(T) /\ Tail(s.left) \in Seq(Entry(T))
  BY <1>5, HeadTailProperties
<1>7. BytesOf(Head(s.left)) \in Seq(0 .. 255) /\ Parts(Head(s.left)) \in Seq(Entry(T))
  BY <1>1, <1>6, EntryCounted, PartsEntries
<1>8. t.pos <= Len(F)
  BY <1>4 DEF Wrote, Lies
<1> QED
  BY <1>2, <1>4, <1>6, <1>7, <1>8 DEF Stride

\* Where nothing is left, the file ends; where something is, there is a next step.
LEMMA TrackEnds ==
  ASSUME NEW T, NEW u, NEW n, NEW h, NEW F, Track(T, u, n, h, F), h[Len(h)].left = <<>>,
         NEW i \in 1 .. Len(h)
  PROVE  /\ h[i].left = <<>> => h[i].pos = Len(F)
         /\ h[i].left # <<>> => i \in 1 .. Len(h) - 1
<1>1. Len(h) \in Nat
  BY LenProperties DEF Track
<1>2. ASSUME i # Len(h) PROVE i \in 1 .. Len(h) - 1 /\ h[i].left # <<>>
  <2>1. i \in 1 .. Len(h) - 1
    BY <1>1, <1>2
  <2>2. Wrote(F, h[i], h[i + 1])
    BY <2>1 DEF Track
  <2>3. h[i].left # <<>>
    BY <2>2 DEF Wrote
  <2> QED
    BY <2>1, <2>3
<1>3. h[Len(h)].pos = Len(F)
  BY DEF Track
<1> QED
  BY <1>2, <1>3

\* F is written after some steps, and l is left.
Reached(T, u, n, F, l) == \E h : Track(T, u, n, h, F) /\ h[Len(h)].left = l

\* An element behind a sequence.
LEMMA LastElement ==
  ASSUME NEW S, NEW s \in Seq(S), NEW x \in S, NEW t, t = Append(s, x)
  PROVE  /\ t \in Seq(S) /\ t # <<>> /\ Len(t) = Len(s) + 1
         /\ \A i \in 1 .. Len(s) : t[i] = s[i]
         /\ t[Len(s) + 1] = x /\ t[Len(t)] = x
<1>1. /\ Append(s, x) \in Seq(S) /\ Append(s, x) # <<>> /\ Len(Append(s, x)) = Len(s) + 1
      /\ \A i \in 1 .. Len(s) : Append(s, x)[i] = s[i]
      /\ Append(s, x)[Len(s) + 1] = x
  BY AppendProperties
<1> QED
  BY <1>1

\* One more step.
LEMMA TrackOn ==
  ASSUME NEW T, NEW u, NEW n, NEW h, NEW F, Track(T, u, n, h, F), NEW s \in Seq(Entry(T)),
         h[Len(h)].left = s, s # <<>>
  PROVE  Reached(T, u, n, F \o BytesOf(Head(s)), Parts(Head(s)) \o Tail(s))
<1>1. /\ Closed(T) /\ F \in Seq(0 .. 255) /\ h \in Seq(Stamp(T)) /\ Len(h) \in Nat /\ h # <<>>
      /\ n \in Seq(0 .. 255) /\ Len(F) \in Nat
  BY LenProperties DEF Track, Sound
<1>2. PICK e \in Entry(T), r \in Seq(Entry(T)) : e = Head(s) /\ r = Tail(s)
  BY HeadTailProperties
<1>3. PICK b \in Seq(0 .. 255), q \in Seq(Entry(T)) : b = BytesOf(e) /\ q = Parts(e)
  BY <1>1, EntryCounted, PartsEntries
<1>4. PICK G : G = F \o b
  OBVIOUS
<1>5. G \in Seq(0 .. 255) /\ Len(G) = Len(F) + Len(b) /\ Len(b) \in Nat
  BY <1>1, <1>4, MoreBytes, LenProperties
<1>6. PICK x : x = [left |-> q \o r, pos |-> Len(G)]
  OBVIOUS
<1>7. x.left = Parts(Head(s)) \o Tail(s) /\ x.pos = Len(G)
  <2>1. x.left = q \o r /\ x.pos = Len(G)
    BY <1>6
  <2> QED
    BY <1>2, <1>3, <2>1
<1>8. x \in Stamp(T)
  <2>1. q \o r \in Seq(Entry(T)) /\ Len(G) \in Nat
    BY <1>5, ConcatProperties, LenProperties
  <2> QED
    BY <1>6, <2>1 DEF Stamp
<1>9. PICK k :
        /\ k \in Seq(Stamp(T)) /\ k # <<>> /\ Len(k) = Len(h) + 1
        /\ \A i \in 1 .. Len(h) : k[i] = h[i]
        /\ k[Len(h) + 1] = x /\ k[Len(k)] = x
  <2>1. PICK S : S = Stamp(T)
    OBVIOUS
  <2>2. h \in Seq(S) /\ x \in S
    BY <1>1, <1>8, <2>1
  <2>3. PICK k : k = Append(h, x)
    OBVIOUS
  <2>4. /\ k \in Seq(S) /\ k # <<>> /\ Len(k) = Len(h) + 1
        /\ \A i \in 1 .. Len(h) : k[i] = h[i]
        /\ k[Len(h) + 1] = x /\ k[Len(k)] = x
    BY <2>2, <2>3, LastElement
  <2> QED
    BY <2>1, <2>4
<1>10. /\ k \in Seq(Stamp(T)) /\ k # <<>> /\ Len(k) = Len(h) + 1
      /\ \A i \in 1 .. Len(h) : k[i] = h[i]
      /\ k[Len(h) + 1] = x
  BY <1>9
<1>11. ASSUME NEW i \in 1 .. Len(k) - 1 PROVE Wrote(G, k[i], k[i + 1])
  <2>1. CASE i = Len(h)
    <3>1. k[i] = h[Len(h)] /\ k[i + 1] = x
      BY <1>1, <1>10, <2>1
    <3>2. h[Len(h)].pos = Len(F)
      BY DEF Track
    <3>3. Lies(G, Len(F), b)
      BY <1>1, <1>4, LiesBehind
    <3>4. k[i].left = s /\ k[i].pos = Len(F)
      BY <3>1, <3>2
    <3>5. k[i + 1].left = Parts(Head(s)) \o Tail(s)
      BY <1>7, <3>1
    <3>6. k[i + 1].pos = Len(F) + Len(BytesOf(Head(s)))
      BY <1>2, <1>3, <1>5, <1>7, <3>1
    <3>7. Lies(G, Len(F), BytesOf(Head(s)))
      BY <1>2, <1>3, <3>3
    <3> QED
      BY <3>4, <3>5, <3>6, <3>7 DEF Wrote
  <2>2. CASE i # Len(h)
    <3>1. i \in 1 .. Len(h) - 1 /\ k[i] = h[i] /\ k[i + 1] = h[i + 1]
      <4>1. i \in 1 .. Len(h) - 1
        BY <1>1, <1>10, <2>2
      <4>2. i \in 1 .. Len(h) /\ i + 1 \in 1 .. Len(h)
        BY <1>1, <4>1
      <4> QED
        BY <1>10, <4>1, <4>2
    <3>2. Stride(T, F, h[i], h[i + 1])
      BY <3>1, Strides
    <3>3. PICK c \in Seq(0 .. 255) : c = BytesOf(Head(h[i].left)) /\ h[i].pos \in Nat /\ Lies(F, h[i].pos, c)
      BY <3>2 DEF Stride, Wrote, Stamp
    <3>4. Lies(G, h[i].pos, c)
      BY <1>1, <1>4, <3>3, LiesFurther, LenProperties
    <3> QED
      BY <3>1, <3>2, <3>3, <3>4 DEF Stride, Wrote
  <2> QED
    BY <2>1, <2>2
<1>12. Headed(G, u, n)
  <2>1. Lies(F, 0, <<u.type>>) /\ Lies(F, 1, StringBytes(n))
    BY DEF Track, Headed
  <2>2. StringBytes(n) \in Seq(0 .. 255)
    BY <1>1, StringCounted
  <2>3. Len(<<u.type>>) \in Nat /\ Len(StringBytes(n)) \in Nat
    BY <2>2, LenProperties
  <2> QED
    BY <1>1, <1>4, <2>1, <2>3, LiesFurther DEF Headed
<1>13. k[1] = [left |-> <<ATag(u)>>, pos |-> 3 + Len(n)]
  <2>1. k[1] = h[1]
    BY <1>1, <1>10
  <2> QED
    BY <2>1 DEF Track
<1>14. k[Len(k)] = x
  BY <1>9
<1>15. Track(T, u, n, k, G)
  BY <1>5, <1>6, <1>10, <1>11, <1>12, <1>13, <1>14 DEF Track
<1>16. F \o BytesOf(Head(s)) = G /\ k[Len(k)].left = Parts(Head(s)) \o Tail(s)
  <2>1. F \o BytesOf(Head(s)) = G
    BY <1>2, <1>3, <1>4
  <2> QED
    BY <1>14, <1>7, <2>1
<1> QED
  BY <1>15, <1>16 DEF Reached

-----------------------------------------------------------------------------
(* What is left of a file, and the calls that are to read it.              *)

\* An element in front of a sequence.
LEMMA InFrontOf ==
  ASSUME NEW S, NEW x \in S, NEW t \in Seq(S), NEW s, s = <<x>> \o t
  PROVE  /\ s \in Seq(S) /\ s # <<>> /\ Head(s) = x /\ Tail(s) = t
         /\ Len(s) = Len(t) + 1 /\ s[1] = x /\ \A i \in 1 .. Len(t) : s[i + 1] = t[i]
<1>1. <<x>> \in Seq(S) /\ Len(<<x>>) = 1 /\ <<x>>[1] = x /\ Len(t) \in Nat
  OBVIOUS
<1>2. /\ s \in Seq(S) /\ Len(s) = 1 + Len(t)
      /\ \A i \in 1 .. 1 + Len(t) : s[i] = IF i <= 1 THEN <<x>>[i] ELSE t[i - 1]
  <2>1. /\ <<x>> \o t \in Seq(S)
        /\ Len(<<x>> \o t) = Len(<<x>>) + Len(t)
        /\ \A i \in 1 .. Len(<<x>>) + Len(t) : (<<x>> \o t)[i] =
              IF i <= Len(<<x>>) THEN <<x>>[i] ELSE t[i - Len(<<x>>)]
    BY <1>1, ConcatProperties
  <2> QED
    BY <1>1, <2>1
<1>3. s # <<>> /\ Head(s) = x
  BY InFront
<1>4. s[1] = x
  <2>1. 1 \in 1 .. 1 + Len(t) /\ 1 <= 1
    BY <1>1
  <2> QED
    BY <1>1, <1>2, <2>1
<1>5. ASSUME NEW i \in 1 .. Len(t) PROVE s[i + 1] = t[i]
  <2>1. i + 1 \in 1 .. 1 + Len(t) /\ ~(i + 1 <= 1) /\ (i + 1) - 1 = i
    BY <1>1
  <2> QED
    BY <1>2, <2>1
<1>6. Tail(s) = t
  <2>1. /\ Tail(s) \in Seq(S) /\ Len(Tail(s)) = Len(s) - 1
        /\ \A i \in 1 .. Len(Tail(s)) : Tail(s)[i] = s[i + 1]
    BY <1>2, <1>3, HeadTailProperties
  <2>2. Len(Tail(s)) = Len(t)
    BY <1>1, <1>2, <2>1
  <2>3. \A i \in 1 .. Len(Tail(s)) : Tail(s)[i] = t[i]
    BY <1>5, <2>1, <2>2
  <2> QED
    BY <2>1, <2>2, <2>3, SeqEqual
<1> QED
  BY <1>1, <1>2, <1>3, <1>4, <1>5, <1>6

\* A sequence is its first element and the others.
LEMMA FirstAndOthers ==
  ASSUME NEW S, NEW s \in Seq(S), s # <<>>
  PROVE  /\ Head(s) \in S /\ Tail(s) \in Seq(S) /\ s = <<Head(s)>> \o Tail(s)
         /\ Len(s) = Len(Tail(s)) + 1 /\ Len(Tail(s)) \in Nat
         /\ s[1] = Head(s) /\ \A i \in 1 .. Len(Tail(s)) : s[i + 1] = Tail(s)[i]
<1>1. /\ Head(s) \in S /\ Tail(s) \in Seq(S) /\ Len(Tail(s)) = Len(s) - 1
      /\ \A i \in 1 .. Len(Tail(s)) : Tail(s)[i] = s[i + 1]
  BY HeadTailProperties
<1>2. Len(s) \in Nat /\ Len(Tail(s)) \in Nat /\ s[1] = Head(s)
  BY <1>1, LenProperties
<1>3. PICK x, t, u :
        x \in S /\ t \in Seq(S) /\ x = Head(s) /\ t = Tail(s) /\ u = <<x>> \o t
  BY <1>1
<1>4. /\ u \in Seq(S) /\ Len(u) = Len(t) + 1 /\ u[1] = x
      /\ \A i \in 1 .. Len(t) : u[i + 1] = t[i]
  BY <1>3, InFrontOf
<1>5. u = s
  <2>1. Len(u) = Len(s)
    BY <1>1, <1>2, <1>3, <1>4
  <2>2. ASSUME NEW i \in 1 .. Len(u) PROVE u[i] = s[i]
    <3>1. CASE i = 1
      BY <1>2, <1>3, <1>4, <3>1
    <3>2. CASE i # 1
      <4>1. PICK j \in 1 .. Len(t) : i = j + 1
        <5>1. i - 1 \in 1 .. Len(t) /\ i = (i - 1) + 1
          BY <1>2, <1>3, <1>4, <3>2
        <5> QED
          BY <5>1
      <4> QED
        BY <1>1, <1>3, <1>4, <4>1
    <3> QED
      BY <3>1, <3>2
  <2> QED
    BY <1>4, <2>1, <2>2, SeqEqual
<1> QED
  BY <1>1, <1>2, <1>3, <1>5

\* A node whose key's length fits into two bytes.
ShortNode(e) == e.what = "node" /\ Len(e.key) < 65536

\* What is left to be read in a call of _rs_nbt_parse_tag, once it is in a container.
Remains(f, a) ==
    /\ f.type = TAG_LIST =>
          /\ Len(a) = f.count - 1
          /\ \A k \in 1 .. Len(a) : a[k].what = "tag" /\ a[k].tag.type = f.subtype
    /\ f.type = TAG_COMPOUND =>
          /\ a # <<>> /\ a[Len(a)] = TheEnd
          /\ \A k \in 1 .. Len(a) - 1 : ShortNode(a[k])

\* What is left of the file, s, is what the calls st are still to read: r[j] is what is
\* left when those before the j-th are done.
Split(E, s, st, r) ==
    /\ r \in Seq(Seq(E)) /\ Len(r) = Len(st) + 1
    /\ r[1] = s /\ r[Len(st) + 1] = <<>>
    /\ \A j \in 1 .. Len(st) : \E a \in Seq(E) : r[j] = a \o r[j + 1] /\ Remains(st[j], a)

Matches(E, s, st) == \E r : Split(E, s, st, r)

\* Without calls nothing is left to be read.
LEMMA NothingMatches ==
  ASSUME NEW E, NEW s
  PROVE  Matches(E, s, <<>>) <=> s = <<>>
<1>1. ASSUME Matches(E, s, <<>>) PROVE s = <<>>
  <2>1. PICK r : Split(E, s, <<>>, r)
    BY <1>1 DEF Matches
  <2> QED
    BY <2>1 DEF Split
<1>2. ASSUME s = <<>> PROVE Matches(E, s, <<>>)
  <2>1. PICK r : r = <<s>>
    OBVIOUS
  <2>2. r \in Seq(Seq(E)) /\ Len(r) = 1 /\ r[1] = s /\ Len(<<>>) = 0
    BY <1>2, <2>1
  <2>3. Split(E, s, <<>>, r)
    BY <1>2, <2>2 DEF Split
  <2> QED
    BY <2>3 DEF Matches
<1> QED
  BY <1>1, <1>2

\* A call that begins has a part of its own to read, in front of the others'.
LEMMA MatchesPush ==
  ASSUME NEW E, NEW a \in Seq(E), NEW b \in Seq(E), NEW C, NEW f \in C, NEW st \in Seq(C),
         Remains(f, a), Matches(E, b, st), NEW s, s = a \o b, NEW k, k = <<f>> \o st
  PROVE  Matches(E, s, k)
<1>1. PICK r : Split(E, b, st, r)
  BY DEF Matches
<1>2. s \in Seq(E)
  BY ConcatProperties
<1>3. PICK q : q = <<s>> \o r
  OBVIOUS
<1>4. r \in Seq(Seq(E)) /\ Len(r) = Len(st) + 1 /\ r[1] = b /\ r[Len(st) + 1] = <<>>
  BY <1>1 DEF Split
<1>5. q \in Seq(Seq(E)) /\ Len(q) = Len(r) + 1 /\ q[1] = s /\ \A i \in 1 .. Len(r) : q[i + 1] = r[i]
  <2>1. PICK D : D = Seq(E)
    OBVIOUS
  <2>2. s \in D /\ r \in Seq(D)
    BY <1>2, <1>4, <2>1
  <2>3. q \in Seq(D) /\ Len(q) = Len(r) + 1 /\ q[1] = s /\ \A i \in 1 .. Len(r) : q[i + 1] = r[i]
    BY <1>3, <2>2, InFrontOf
  <2> QED
    BY <2>1, <2>3
<1>6. Len(k) = Len(st) + 1 /\ k[1] = f /\ (\A i \in 1 .. Len(st) : k[i + 1] = st[i]) /\ Len(st) \in Nat
  BY InFrontOf, LenProperties
<1>7. Len(q) = Len(k) + 1 /\ q[Len(k) + 1] = <<>>
  <2>1. Len(st) + 1 \in 1 .. Len(r)
    BY <1>4, <1>6
  <2> QED
    BY <1>4, <1>5, <1>6, <2>1
<1>8. ASSUME NEW j \in 1 .. Len(k)
      PROVE  \E c \in Seq(E) : q[j] = c \o q[j + 1] /\ Remains(k[j], c)
  <2>1. CASE j = 1
    <3>1. 1 \in 1 .. Len(r)
      BY <1>4, <1>6
    <3>2. q[j] = s /\ q[j + 1] = b /\ k[j] = f
      BY <1>4, <1>5, <1>6, <2>1, <3>1
    <3> QED
      BY <3>2
  <2>2. CASE j # 1
    <3>1. PICK i \in 1 .. Len(st) : j = i + 1
      <4>1. j - 1 \in 1 .. Len(st) /\ j = (j - 1) + 1
        BY <1>6, <2>2
      <4> QED
        BY <4>1
    <3>2. i \in 1 .. Len(r) /\ i + 1 \in 1 .. Len(r)
      BY <1>4, <1>6
    <3>3. q[j] = r[i] /\ q[j + 1] = r[i + 1] /\ k[j] = st[i]
      BY <1>5, <1>6, <3>1, <3>2
    <3> QED
      BY <1>1, <3>3 DEF Split
  <2> QED
    BY <2>1, <2>2
<1>9. Split(E, s, k, q)
  BY <1>5, <1>7, <1>8 DEF Split
<1> QED
  BY <1>9 DEF Matches

\* What the innermost call is to read comes first.
LEMMA MatchesPop ==
  ASSUME NEW E, NEW s, NEW C, NEW st \in Seq(C), st # <<>>, Matches(E, s, st)
  PROVE  \E a \in Seq(E), b \in Seq(E) :
            s = a \o b /\ Remains(Head(st), a) /\ Matches(E, b, Tail(st))
<1>1. PICK r : Split(E, s, st, r)
  BY DEF Matches
<1>2. /\ Len(st) = Len(Tail(st)) + 1 /\ Len(Tail(st)) \in Nat
      /\ st[1] = Head(st) /\ \A i \in 1 .. Len(Tail(st)) : st[i + 1] = Tail(st)[i]
  BY FirstAndOthers
<1>3. PICK l \in Nat : l = Len(Tail(st)) /\ Len(st) = l + 1
  BY <1>2
<1>4. r \in Seq(Seq(E)) /\ Len(r) = l + 2 /\ r[1] = s /\ r[l + 2] = <<>>
  BY <1>1, <1>3 DEF Split
<1>5. r # <<>>
  BY <1>3, <1>4
<1>6. PICK q \in Seq(Seq(E)) : q = Tail(r) /\ Len(r) = Len(q) + 1 /\ \A i \in 1 .. Len(q) : r[i + 1] = q[i]
  <2>1. PICK D : D = Seq(E)
    OBVIOUS
  <2>2. r \in Seq(D)
    BY <1>4, <2>1
  <2>3. /\ Tail(r) \in Seq(D) /\ Len(r) = Len(Tail(r)) + 1
        /\ \A i \in 1 .. Len(Tail(r)) : r[i + 1] = Tail(r)[i]
    BY <1>5, <2>2, FirstAndOthers
  <2> QED
    BY <2>1, <2>3
<1>7. Len(q) = l + 1
  BY <1>3, <1>4, <1>6, LenProperties
<1>8. 1 \in 1 .. Len(st)
  BY <1>3
<1>9. PICK a \in Seq(E) : r[1] = a \o r[2] /\ Remains(st[1], a)
  <2>1. 1 + 1 = 2
    OBVIOUS
  <2>2. \E a \in Seq(E) : r[1] = a \o r[1 + 1] /\ Remains(st[1], a)
    BY <1>1, <1>8 DEF Split
  <2> QED
    BY <2>1, <2>2
<1>10. r[2] = q[1] /\ q[1] \in Seq(E)
  <2>1. 1 \in 1 .. Len(q)
    BY <1>7
  <2> QED
    BY <1>6, <2>1, ElementOfSeq
<1>11. Split(E, q[1], Tail(st), q)
  <2>1. q[l + 1] = <<>>
    <3>1. l + 1 \in 1 .. Len(q) /\ (l + 1) + 1 = l + 2
      BY <1>7
    <3> QED
      BY <1>4, <1>6, <3>1
  <2>2. ASSUME NEW j \in 1 .. l
        PROVE  \E c \in Seq(E) : q[j] = c \o q[j + 1] /\ Remains(Tail(st)[j], c)
    <3>1. j + 1 \in 1 .. Len(st) /\ j \in 1 .. Len(q) /\ j + 1 \in 1 .. Len(q)
      BY <1>3, <1>7
    <3>2. q[j] = r[j + 1] /\ q[j + 1] = r[(j + 1) + 1] /\ Tail(st)[j] = st[j + 1]
      BY <1>2, <1>3, <1>6, <3>1
    <3> QED
      BY <1>1, <3>1, <3>2 DEF Split
  <2> QED
    BY <1>3, <1>7, <2>1, <2>2 DEF Split
<1>12. Matches(E, q[1], Tail(st))
  BY <1>11 DEF Matches
<1> QED
  BY <1>2, <1>4, <1>9, <1>10, <1>12

-----------------------------------------------------------------------------
(* What is parsed can be written again.                                    *)

\* Items of one type, as a sequence over a set.
LEMMA OneTypeSet ==
  ASSUME NEW S, NEW s \in Seq(S), NEW x
  PROVE  OfOneType(s, x) <=> s \in Seq({t \in S : t.type = x})
<1>1. Len(s) \in Nat /\ DOMAIN s = 1 .. Len(s) /\ \A i \in 1 .. Len(s) : s[i] \in S
  OBVIOUS
<1>2. ASSUME OfOneType(s, x) PROVE s \in Seq({t \in S : t.type = x})
  <2>1. s \in [1 .. Len(s) -> {t \in S : t.type = x}]
    BY <1>1, <1>2 DEF OfOneType
  <2>2. \A R : \A n \in Nat : \A f \in [1 .. n -> R] : f \in Seq(R)
    OBVIOUS
  <2> QED
    BY <1>1, <2>1, <2>2
<1>3. ASSUME s \in Seq({t \in S : t.type = x}) PROVE OfOneType(s, x)
  <2>1. \A i \in 1 .. Len(s) : s[i] \in {t \in S : t.type = x}
    BY <1>3
  <2> QED
    BY <2>1 DEF OfOneType
<1> QED
  BY <1>2, <1>3

ShortKeyed(S) == {n \in S : Len(n.key) < 65536}

\* Nodes with short keys, as a sequence over a set.
LEMMA ShortKeysSet ==
  ASSUME NEW S, NEW s \in Seq(S)
  PROVE  ShortKeys(s) <=> s \in Seq(ShortKeyed(S))
<1>1. Len(s) \in Nat /\ DOMAIN s = 1 .. Len(s) /\ \A i \in 1 .. Len(s) : s[i] \in S
  OBVIOUS
<1>2. ASSUME ShortKeys(s) PROVE s \in Seq(ShortKeyed(S))
  <2>1. s \in [1 .. Len(s) -> ShortKeyed(S)]
    BY <1>1, <1>2 DEF ShortKeys, ShortKeyed
  <2>2. \A R : \A n \in Nat : \A f \in [1 .. n -> R] : f \in Seq(R)
    OBVIOUS
  <2> QED
    BY <1>1, <2>1, <2>2
<1>3. ASSUME s \in Seq(ShortKeyed(S)) PROVE ShortKeys(s)
  <2>1. \A i \in 1 .. Len(s) : s[i] \in ShortKeyed(S)
    BY <1>3
  <2> QED
    BY <2>1 DEF ShortKeys, ShortKeyed
<1> QED
  BY <1>2, <1>3

\* A call in a container has put into it only what can be written.
FrameFits(f) ==
    /\ f.type = TAG_LIST => f.count + Len(f.items) <= Huge /\ OfOneType(f.items, f.subtype)
    /\ f.type = TAG_COMPOUND => Len(f.key) < 65536 /\ ShortKeys(f.items)

\* The innermost of the calls s, if it is in a list, is to be given an item of its type.
Wanted(s, type) == s # <<>> /\ Head(s).type = TAG_LIST => type = Head(s).subtype

Chained(s) ==
    \A i \in 1 .. Len(s) :
       /\ FrameFits(s[i])
       /\ i < Len(s) /\ s[i + 1].type = TAG_LIST => s[i + 1].subtype = s[i].type

\* A call within calls is what the innermost of these waits for.
LEMMA ChainPush ==
  ASSUME NEW C, NEW f \in C, NEW s \in Seq(C), NEW k, k = <<f>> \o s,
         FrameFits(f), Chained(s), Wanted(s, f.type)
  PROVE  Chained(k)
<1>1. Len(k) = Len(s) + 1 /\ k[1] = f /\ (\A i \in 1 .. Len(s) : k[i + 1] = s[i]) /\ Len(s) \in Nat
  BY InFrontOf, LenProperties
<1>2. s # <<>> => s[1] = Head(s)
  BY FirstAndOthers
<1>3. ASSUME NEW i \in 1 .. Len(k)
      PROVE  /\ FrameFits(k[i])
             /\ i < Len(k) /\ k[i + 1].type = TAG_LIST => k[i + 1].subtype = k[i].type
  <2>1. CASE i = 1
    <3>1. FrameFits(k[i])
      BY <1>1, <2>1
    <3>2. ASSUME i < Len(k), k[i + 1].type = TAG_LIST PROVE k[i + 1].subtype = k[i].type
      <4>1. 1 \in 1 .. Len(s) /\ s # <<>>
        BY <1>1, <2>1, <3>2
      <4>2. k[i + 1] = Head(s)
        BY <1>1, <1>2, <2>1, <4>1
      <4> QED
        BY <1>1, <2>1, <3>2, <4>1, <4>2 DEF Wanted
    <3> QED
      BY <3>1, <3>2
  <2>2. CASE i # 1
    <3>1. PICK j \in 1 .. Len(s) : i = j + 1
      <4>1. i - 1 \in 1 .. Len(s) /\ i = (i - 1) + 1
        BY <1>1, <2>2
      <4> QED
        BY <4>1
    <3>2. k[i] = s[j] /\ (i < Len(k) => j < Len(s) /\ k[i + 1] = s[j + 1])
      <4>1. i < Len(k) => j < Len(s) /\ j + 1 \in 1 .. Len(s)
        BY <1>1, <3>1
      <4> QED
        BY <1>1, <3>1, <4>1
    <3> QED
      BY <3>1, <3>2 DEF Chained
  <2> QED
    BY <2>1, <2>2
<1> QED
  BY <1>3 DEF Chained

\* So are those that are left when it is over.
LEMMA ChainPop ==
  ASSUME NEW C, NEW s \in Seq(C), s # <<>>, Chained(s)
  PROVE  FrameFits(Head(s)) /\ Chained(Tail(s)) /\ Wanted(Tail(s), Head(s).type)
<1>1. /\ Tail(s) \in Seq(C) /\ Len(s) = Len(Tail(s)) + 1 /\ Len(Tail(s)) \in Nat
      /\ s[1] = Head(s) /\ \A i \in 1 .. Len(Tail(s)) : s[i + 1] = Tail(s)[i]
  BY FirstAndOthers
<1>2. PICK l \in Nat, t \in Seq(C) : t = Tail(s) /\ l = Len(t) /\ Len(s) = l + 1
  BY <1>1
<1>3. 1 \in 1 .. Len(s)
  BY <1>2
<1>4. FrameFits(Head(s))
  BY <1>1, <1>3 DEF Chained
<1>5. ASSUME NEW i \in 1 .. l
      PROVE  FrameFits(t[i]) /\ (i < l /\ t[i + 1].type = TAG_LIST => t[i + 1].subtype = t[i].type)
  <2>1. i + 1 \in 1 .. Len(s) /\ t[i] = s[i + 1] /\ (i < l => i + 1 < Len(s))
    BY <1>1, <1>2
  <2>2. i < l => t[i + 1] = s[(i + 1) + 1]
    <3>1. i < l => i + 1 \in 1 .. l
      OBVIOUS
    <3> QED
      BY <1>1, <1>2, <3>1
  <2> QED
    BY <2>1, <2>2 DEF Chained
<1>6. Chained(t)
  BY <1>2, <1>5 DEF Chained
<1>7. Wanted(t, Head(s).type)
  <2> SUFFICES ASSUME t # <<>>, Head(t).type = TAG_LIST PROVE Head(s).type = Head(t).subtype
    BY DEF Wanted
  <2>1. t[1] = Head(t) /\ Len(t) # 0
    BY FirstAndOthers
  <2>2. 1 \in 1 .. Len(t) /\ 1 < Len(s) /\ 1 + 1 = 2
    BY <1>2, <2>1
  <2>3. s[1 + 1] = Head(t)
    BY <1>1, <1>2, <2>1, <2>2
  <2> QED
    BY <1>1, <1>3, <2>2, <2>3 DEF Chained
<1> QED
  BY <1>2, <1>4, <1>6, <1>7

Asked ==
    /\ Chained(stack)
    /\ pc = "parse" => Wanted(stack, arg)
    /\ pc = "return" /\ arg # Nil => Wanted(stack, arg.type) /\ Readable(arg)
    /\ pc \in Reading => Len(name) < 65536
    /\ Len(root_name) < 65536

\* Steps that parse nothing.
LEMMA AskedElse ==
  ASSUME Asked, UNCHANGED stack, pc' \notin Reading, Len(root_name') < 65536
  PROVE  Asked'
  BY DEF Asked, Reading

\* A call that begins.
LEMMA AskedCalled ==
  ASSUME Asked, Unread, pc' \in {"parse", "node"}, Chained(stack'), Len(name') < 65536,
         pc' = "parse" => Wanted(stack', arg')
  PROVE  Asked'
<1>1. root_name' = root_name
  BY DEF Unread, nbt
<1> QED
  BY <1>1 DEF Asked

\* A call that fails.
LEMMA AskedFailed ==
  ASSUME Asked, Unread, Fail, Chained(stack'), Len(name') < 65536
  PROVE  Asked'
<1>1. root_name' = root_name /\ pc' = "return" /\ arg' = Nil
  BY DEF Unread, nbt, Fail, ReturnTag
<1> QED
  BY <1>1 DEF Asked

\* A call that returns a tag.
LEMMA AskedReturned ==
  ASSUME Asked, Unread, NEW x, ReturnTag(x), Chained(stack'), Len(name') < 65536,
         Wanted(stack', x.type), Readable(x)
  PROVE  Asked'
<1>1. root_name' = root_name /\ pc' = "return" /\ arg' = x
  BY DEF Unread, nbt, ReturnTag
<1> QED
  BY <1>1 DEF Asked

\* A step of the parser keeps the name.
LEMMA AskedFacts ==
  ASSUME Asked, pc \in Reading, UNCHANGED name
  PROVE  Len(name') < 65536 /\ Chained(stack)
  BY DEF Asked

\* What two and four bytes of a file can say.
LEMMA NumberLimits ==
  ASSUME NEW s, NEW m, NEW n, NEW w \in {2, 4}, Part(s, m, n, w)
  PROVE  /\ Unsigned(SubSeq(s, m, n)) \in Nat /\ Signed(SubSeq(s, m, n)) \in Int
         /\ w = 2 => Unsigned(SubSeq(s, m, n)) < 65536
         /\ w = 4 => Unsigned(SubSeq(s, m, n)) <= Huge /\ Signed(SubSeq(s, m, n)) <= Huge
<1>1. PICK b \in Seq(0 .. 255) : b = SubSeq(s, m, n) /\ Len(b) = w
  BY SomeBytes DEF Octets
<1>2. Unsigned(SubSeq(s, m, n)) \in Nat /\ Signed(SubSeq(s, m, n)) \in Int
  <2>1. w \in {1, 2, 4}
    OBVIOUS
  <2> QED
    BY <2>1, NumberAhead
<1>3. /\ w = 2 => Unsigned(b) < 65536
      /\ w = 4 => Unsigned(b) <= Huge /\ Signed(b) <= Huge
  <2>1. /\ Len(b) = 2 => Unsigned(b) < 65536
        /\ Len(b) = 4 => Unsigned(b) <= Huge /\ Signed(b) <= Huge
    BY NumberBounds
  <2> QED
    BY <1>1, <2>1
<1> QED
  BY <1>1, <1>2, <1>3

\* What steps change of a call.
LEMMA OneItemLess ==
  ASSUME NEW T, NEW f \in Call(T), f.type = TAG_LIST, NEW items,
         NEW g, g = [f EXCEPT !.count = @ - 1, !.items = items]
  PROVE  g = [type |-> TAG_LIST, subtype |-> f.subtype, count |-> f.count - 1, key |-> <<>>,
              items |-> items]
<1>1. PICK a, b, c : a = f.subtype /\ b = f.count /\ c = f.items
  OBVIOUS
<1>2. f = [type |-> TAG_LIST, subtype |-> a, count |-> b, key |-> <<>>, items |-> c]
  BY <1>1 DEF Call, TAG_LIST, TAG_COMPOUND
<1>3. f.count = b
  BY <1>1
<1>4. PICK d : d = b - 1
  OBVIOUS
<1>5. g = [[f EXCEPT !.count = d] EXCEPT !.items = items]
  BY <1>3, <1>4
<1>6. PICK h : h = [f EXCEPT !.count = d]
  OBVIOUS
<1>7. h = [type |-> TAG_LIST, subtype |-> a, count |-> d, key |-> <<>>, items |-> c]
  BY <1>2, <1>6
<1>8. g = [h EXCEPT !.items = items]
  BY <1>5, <1>6
<1>9. g = [type |-> TAG_LIST, subtype |-> a, count |-> d, key |-> <<>>, items |-> items]
  BY <1>7, <1>8
<1> QED
  BY <1>1, <1>4, <1>9

\* A compound's call with another key.
LEMMA OtherKey ==
  ASSUME NEW T, NEW f \in Call(T), f.type = TAG_COMPOUND, NEW key, NEW g, g = [f EXCEPT !.key = key]
  PROVE  g = [type |-> TAG_COMPOUND, subtype |-> TAG_END, count |-> 0, key |-> key,
              items |-> f.items]
<1>1. f = [type |-> TAG_COMPOUND, subtype |-> TAG_END, count |-> 0, key |-> f.key,
           items |-> f.items]
  BY DEF Call, TAG_LIST, TAG_COMPOUND
<1> QED
  BY <1>1

\* A compound's call with other nodes.
LEMMA OtherItems ==
  ASSUME NEW T, NEW f \in Call(T), f.type = TAG_COMPOUND, NEW items,
         NEW g, g = [f EXCEPT !.items = items]
  PROVE  g = [type |-> TAG_COMPOUND, subtype |-> TAG_END, count |-> 0, key |-> f.key,
              items |-> items]
<1>1. f = [type |-> TAG_COMPOUND, subtype |-> TAG_END, count |-> 0, key |-> f.key,
           items |-> f.items]
  BY DEF Call, TAG_LIST, TAG_COMPOUND
<1> QED
  BY <1>1

\* The name of the root is short, being read by a length of two bytes.
LEMMA StartAsked ==
  ASSUME NEW T, State(T), Asked, ParseStart
  PROVE  Asked'
<1>1. pc = "idle" /\ Unread /\ bytes \in Seq(0 .. 255) /\ Len(bytes) \in Nat
  BY LenProperties DEF State, ParseStart, Idle, Unread, FileTyped
<1>2. CASE pc' = "failed" /\ UNCHANGED parser
  <2>1. stack' = stack /\ pc' \notin Reading /\ root_name' = root_name
    BY <1>1, <1>2 DEF parser, Reading, Unread, nbt
  <2>2. Len(root_name') < 65536
    BY <2>1 DEF Asked
  <2> QED
    BY <2>1, <2>2, AskedElse
<1>3. CASE ~(pc' = "failed" /\ UNCHANGED parser)
  <2>1. PICK n : n = Unsigned(SubSeq(bytes, 2, 3))
    OBVIOUS
  <2>2. /\ Len(bytes) >= 4 /\ ~(Len(bytes) < 3 + n)
        /\ pc' = "parse" /\ name' = SubSeq(bytes, 4, 3 + n) /\ stack' = <<>>
    BY <1>1, <1>3, <2>1 DEF ParseStart
  <2>3. n \in Nat /\ n < 65536
    <3>1. Part(bytes, 2, 3, 2)
      BY <1>1, <2>2 DEF Part
    <3> QED
      BY <2>1, <3>1, NumberLimits
  <2>4. Len(name') < 65536
    <3>1. Part(bytes, 4, 3 + n, n)
      BY <1>1, <2>2, <2>3 DEF Part
    <3>2. Len(SubSeq(bytes, 4, 3 + n)) = n
      BY <3>1, SomeBytes DEF Octets
    <3> QED
      BY <2>2, <2>3, <3>2
  <2>5. Chained(<<>>) /\ Wanted(<<>>, arg')
    BY DEF Chained, Wanted
  <2>6. Chained(stack') /\ Wanted(stack', arg')
    BY <2>2, <2>5
  <2>7. pc' \in {"parse", "node"} /\ Unread
    BY <1>1, <2>2
  <2> QED
    BY <2>4, <2>6, <2>7, AskedCalled
<1> QED
  BY <1>2, <1>3

\* A number can be written.
LEMMA ScalarAsked ==
  ASSUME NEW T, State(T), Asked, ParseScalar
  PROVE  Asked'
<1>1. Unread /\ pc = "parse" /\ pc \in Reading /\ arg \in Scalar /\ UNCHANGED <<stack, name>>
  BY DEF ParseScalar, Parsing, Unread, Reading
<1>2. Len(name') < 65536 /\ Chained(stack') /\ Wanted(stack', arg)
  BY <1>1, AskedFacts DEF Asked
<1>3. CASE Fail
  BY <1>1, <1>2, <1>3, AskedFailed
<1>4. CASE ReturnTag([type |-> arg, int |-> Signed(Ahead(Width(arg)))])
  <2>1. PICK x : x = [type |-> arg, int |-> Signed(Ahead(Width(arg)))]
    OBVIOUS
  <2>2. x.type = arg /\ Readable(x)
    BY <1>1, <2>1 DEF Readable, Scalar, Array, TAG_BYTE, TAG_SHORT, TAG_INT,
         TAG_BYTE_ARRAY, TAG_STRING, TAG_LIST, TAG_COMPOUND, TAG_INT_ARRAY
  <2> QED
    BY <1>1, <1>2, <1>4, <2>1, <2>2, AskedReturned
<1> QED
  BY <1>3, <1>4 DEF ParseScalar

\* An array can be written again: its length was read from four bytes.
LEMMA ArrayAsked ==
  ASSUME NEW T, State(T), Asked, ParseArray
  PROVE  Asked'
<1>1. Unread /\ pc = "parse" /\ pc \in Reading /\ arg \in Array /\ UNCHANGED <<stack, name>>
  BY DEF ParseArray, Parsing, Unread, Reading
<1>2. Len(name') < 65536 /\ Chained(stack') /\ Wanted(stack', arg)
  BY <1>1, AskedFacts DEF Asked
<1>3. PICK n, w : n = Unsigned(Ahead(4)) /\ w = Width(arg)
  OBVIOUS
<1>4. CASE Fail
  BY <1>1, <1>2, <1>4, AskedFailed
<1>5. CASE ~Fail
  <2> DEFINE d == [i \in 1 .. n |-> Unsigned(SubSeq(bytes, at + 5 + w * (i - 1), at + 4 + w * i))]
  <2>1. ~(Left < 4) /\ n # Huge /\ ReturnTag([type |-> arg, data |-> d])
    BY <1>3, <1>5 DEF ParseArray
  <2>2. n \in Nat /\ n < Huge
    <3>1. bytes \in Seq(0 .. 255) /\ at \in Nat /\ Len(bytes) \in Nat /\ Left = Len(bytes) - at
      BY <1>1, ParserFacts
    <3>2. Part(bytes, at + 1, at + 4, 4)
      BY <2>1, <3>1 DEF Part
    <3>4. n \in Nat /\ n <= Huge
      BY <1>3, <3>2, NumberLimits DEF Ahead
    <3>5. Huge \in Nat
      BY SMT DEF Huge
    <3> QED
      BY <2>1, <3>4, <3>5
  <2>3. Len(d) = n
    BY <2>2
  <2> HIDE DEF d
  <2>4. PICK x : x = [type |-> arg, data |-> d]
    OBVIOUS
  <2>5. x.type = arg /\ Readable(x)
    BY <1>1, <2>2, <2>3, <2>4 DEF Readable, Scalar, Array, TAG_BYTE, TAG_SHORT, TAG_INT,
         TAG_BYTE_ARRAY, TAG_STRING, TAG_LIST, TAG_COMPOUND, TAG_INT_ARRAY
  <2> QED
    BY <1>1, <1>2, <2>1, <2>4, <2>5, AskedReturned
<1> QED
  BY <1>4, <1>5

\* A string can be written again: its length was read from two bytes.
LEMMA TextAsked ==
  ASSUME NEW T, State(T), Asked, ParseText
  PROVE  Asked'
<1>1. Unread /\ pc = "parse" /\ pc \in Reading /\ arg = TAG_STRING /\ UNCHANGED <<stack, name>>
  BY DEF ParseText, Parsing, Unread, Reading
<1>2. Len(name') < 65536 /\ Chained(stack') /\ Wanted(stack', arg)
  BY <1>1, AskedFacts DEF Asked
<1>3. CASE StringAhead = Nil
  <2>1. pc' \notin Reading /\ root_name' = root_name
    BY <1>1, <1>3 DEF ParseText, Reading, Unread, nbt
  <2>2. Len(root_name') < 65536
    BY <2>1 DEF Asked
  <2> QED
    BY <1>1, <2>1, <2>2, AskedElse
<1>4. CASE StringAhead # Nil
  <2>1. ReturnTag([type |-> TAG_STRING, string |-> StringAhead])
    BY <1>4 DEF ParseText
  <2>2. PICK n : n = Unsigned(SubSeq(bytes, at + 1, at + 2))
    OBVIOUS
  <2>3. ~(Left < 2) /\ ~(Left < 2 + n) /\ StringAhead = SubSeq(bytes, at + 3, at + 2 + n)
    BY <1>4, <2>2 DEF StringAhead, Ahead
  <2>4. bytes \in Seq(0 .. 255) /\ at \in Nat /\ Len(bytes) \in Nat /\ Left = Len(bytes) - at
    BY <1>1, ParserFacts
  <2>5. n \in Nat /\ n < 65536
    <3>1. Part(bytes, at + 1, at + 2, 2)
      BY <2>3, <2>4 DEF Part
    <3> QED
      BY <2>2, <3>1, NumberLimits
  <2>6. Len(StringAhead) = n
    <3>1. Part(bytes, at + 3, at + 2 + n, n)
      BY <2>3, <2>4, <2>5 DEF Part
    <3> QED
      BY <2>3, <3>1, SomeBytes DEF Octets
  <2>7. PICK x : x = [type |-> TAG_STRING, string |-> StringAhead]
    OBVIOUS
  <2>8. x.type = arg /\ Readable(x)
    BY <1>1, <2>5, <2>6, <2>7 DEF Readable, Scalar, Array, TAG_BYTE, TAG_SHORT, TAG_INT,
         TAG_BYTE_ARRAY, TAG_STRING, TAG_LIST, TAG_COMPOUND, TAG_INT_ARRAY
  <2> QED
    BY <1>1, <1>2, <2>1, <2>7, <2>8, AskedReturned
<1> QED
  BY <1>3, <1>4

\* A list that begins asks for items of its type.
LEMMA ListAsked ==
  ASSUME NEW T, State(T), Asked, ParseList
  PROVE  Asked'
<1>1. Unread /\ pc = "parse" /\ pc \in Reading /\ arg = TAG_LIST /\ UNCHANGED name
  BY DEF ParseList, Parsing, Unread, Reading
<1>2. Len(name') < 65536 /\ Chained(stack) /\ Wanted(stack, TAG_LIST) /\ stack \in Seq(Call(T))
  BY <1>1, AskedFacts, ParserFacts DEF Asked
<1>3. PICK st, count : st = bytes[at + 1] /\ count = Signed(SubSeq(bytes, at + 2, at + 5))
  OBVIOUS
<1>4. CASE Fail /\ UNCHANGED stack
  BY <1>1, <1>2, <1>4, AskedFailed
<1>5. CASE ~(Fail /\ UNCHANGED stack)
  <2>1. Left >= 5
    BY <1>5 DEF ParseList
  <2>2. bytes \in Seq(0 .. 255) /\ at \in Nat /\ Len(bytes) \in Nat /\ Left = Len(bytes) - at
    BY <1>1, ParserFacts
  <2>3. count \in Int /\ count <= Huge
    <3>1. Part(bytes, at + 2, at + 5, 4)
      BY <2>1, <2>2 DEF Part
    <3> QED
      BY <1>3, <3>1, NumberLimits
  <2>4. st \in 0 .. 255
    <3>1. at + 1 \in 1 .. Len(bytes)
      BY <2>1, <2>2
    <3> QED
      BY <1>3, <2>2, <3>1, ByteNumber
  <2>5. CASE count > 0 /\ Left > 5
    <3>1. pc' = "parse" /\ arg' = st /\ stack' = <<Frame(TAG_LIST, st, count, <<>>, <<>>)>> \o stack
      BY <1>3, <1>5, <2>5 DEF ParseList
    <3>2. PICK f : f = Frame(TAG_LIST, st, count, <<>>, <<>>)
      OBVIOUS
    <3>3. f.type = TAG_LIST /\ f.subtype = st /\ f.count = count /\ f.items = <<>>
      BY <3>2 DEF Frame
    <3>4. FrameFits(f)
      <4>1. OfOneType(<<>>, st) /\ Len(<<>>) = 0
        BY DEF OfOneType
      <4>2. count + 0 <= Huge
        BY <2>3
      <4> QED
        BY <3>3, <4>1, <4>2 DEF FrameFits, TAG_LIST, TAG_COMPOUND
    <3>5. f \in Call(T)
      <4>1. count \in Nat \ {0} /\ <<>> \in Seq(T)
        BY <2>3, <2>5
      <4> QED
        BY <2>4, <3>2, <4>1 DEF Frame, Call
    <3>6. stack' = <<f>> \o stack
      BY <3>1, <3>2
    <3>7. Chained(stack')
      <4>1. PICK s \in Seq(Call(T)) : s = stack
        BY <1>2
      <4>2. stack' = <<f>> \o s /\ Wanted(s, f.type) /\ Chained(s)
        BY <1>2, <3>3, <3>6, <4>1
      <4> QED
        BY <3>4, <3>5, <4>2, ChainPush
    <3>8. Wanted(stack', arg')
      <4>1. Head(stack') = f
        BY <1>2, <3>5, <3>6, InFrontOf
      <4> QED
        BY <3>1, <3>3, <4>1 DEF Wanted
    <3>9. pc' \in {"parse", "node"}
      BY <3>1
    <3> QED
      BY <1>1, <1>2, <3>7, <3>8, <3>9, AskedCalled
  <2>6. CASE ~(count > 0 /\ Left > 5)
    <3>1. /\ stack' = stack
          /\ ReturnTag(IF count > 0 THEN Nil
                       ELSE [type |-> TAG_LIST, subtype |-> st, items |-> <<>>])
      BY <1>3, <1>5, <2>6 DEF ParseList
    <3>2. count <= 0
      BY <1>5, <2>3, <3>1 DEF Fail
    <3>3. PICK x : x = [type |-> TAG_LIST, subtype |-> st, items |-> <<>>]
      OBVIOUS
    <3>4. ReturnTag(x)
      BY <2>3, <3>1, <3>2, <3>3
    <3>5. Readable(x) /\ x.type = TAG_LIST
      <4>1. OfOneType(<<>>, st) /\ Len(<<>>) = 0 /\ 0 <= Huge
        BY SMT DEF OfOneType, Huge
      <4>2. x.type = TAG_LIST /\ x.subtype = st /\ x.items = <<>>
        BY <3>3
      <4> QED
        BY <4>1, <4>2 DEF Readable, Array, TAG_BYTE_ARRAY, TAG_STRING, TAG_LIST, TAG_COMPOUND, TAG_INT_ARRAY
    <3>6. Chained(stack') /\ Wanted(stack', x.type)
      BY <1>2, <3>1, <3>5
    <3> QED
      BY <1>1, <1>2, <3>4, <3>5, <3>6, AskedReturned
  <2> QED
    BY <2>5, <2>6
<1> QED
  BY <1>4, <1>5

\* A list gets the items it asked for, so that it can be written again.
LEMMA ListItemAsked ==
  ASSUME NEW T, State(T), Asked, ListItem
  PROVE  Asked'
<1>1. /\ Unread /\ pc = "return" /\ pc \in Reading /\ UNCHANGED name
      /\ stack # <<>> /\ Top.type = TAG_LIST
  BY DEF ListItem, InA, Unread, Reading
<1>2. Len(name') < 65536 /\ Chained(stack) /\ stack \in Seq(Call(T)) /\ arg \in T \cup {Nil}
  BY <1>1, AskedFacts, ParserFacts DEF State, ParserTyped
<1>3. PICK f \in Call(T), s \in Seq(Call(T)) : f = Top /\ s = Tail(stack)
  BY <1>1, InnerCall
<1>4. FrameFits(f) /\ Chained(s) /\ Wanted(s, TAG_LIST)
  BY <1>1, <1>2, <1>3, ChainPop DEF Top
<1>5. /\ f.type = TAG_LIST /\ f.subtype \in 0 .. 255 /\ f.count \in Nat \ {0} /\ f.key = <<>>
      /\ f.items \in Seq(T)
  BY <1>1, <1>3, CallKinds
<1>6. PICK items : items = <<arg>> \o Top.items
  OBVIOUS
<1>7. ASSUME arg # Nil
      PROVE  /\ items \in Seq(T) /\ OfOneType(items, f.subtype) /\ Len(items) = Len(f.items) + 1
             /\ f.count + Len(f.items) <= Huge /\ Len(f.items) \in Nat
  <2>1. arg.type = f.subtype /\ arg \in T
    BY <1>1, <1>2, <1>3, <1>7 DEF Asked, Wanted, Top
  <2>2. PICK S : S = {t \in T : t.type = f.subtype}
    OBVIOUS
  <2>3. f.items \in Seq(S) /\ arg \in S /\ f.count + Len(f.items) <= Huge
    BY <1>4, <1>5, <2>1, <2>2, OneTypeSet DEF FrameFits
  <2>4. items = <<arg>> \o f.items
    BY <1>3, <1>6
  <2>5. items \in Seq(S) /\ Len(items) = Len(f.items) + 1
    BY <2>3, <2>4, InFrontOf
  <2>6. items \in Seq(T)
    <3>1. S \subseteq T
      BY <2>2
    <3> QED
      BY <2>5, <3>1, SeqWider
  <2> QED
    BY <1>5, <2>2, <2>3, <2>5, <2>6, OneTypeSet, LenProperties
<1>8. CASE Fail /\ stack' = Tail(stack)
  BY <1>1, <1>2, <1>3, <1>4, <1>8, AskedFailed
<1>9. CASE /\ arg # Nil /\ Top.count = 1
           /\ ReturnTag([type |-> TAG_LIST, subtype |-> Top.subtype, items |-> Reverse(items)])
           /\ stack' = Tail(stack)
  <2>1. PICK S : S = {t \in T : t.type = f.subtype}
    OBVIOUS
  <2>2. items \in Seq(S)
    BY <1>7, <1>9, <2>1, OneTypeSet
  <2>3. PICK r \in Seq(S) : r = Reverse(items) /\ Len(r) = Len(items)
    BY <2>2, OccursReverse
  <2>4. r \in Seq(T)
    <3>1. S \subseteq T
      BY <2>1
    <3> QED
      BY <2>3, <3>1, SeqWider
  <2>5. OfOneType(r, f.subtype)
    BY <2>1, <2>3, <2>4, OneTypeSet
  <2>6. Len(r) <= Huge
    <3>1. f.count = 1
      BY <1>3, <1>9
    <3>2. 1 + Len(f.items) <= Huge /\ Len(r) = Len(f.items) + 1 /\ Len(f.items) \in Nat
      BY <1>7, <1>9, <2>3, <3>1
    <3>3. Huge \in Nat
      BY SMT DEF Huge
    <3> QED
      BY <3>2, <3>3
  <2>7. PICK x : x = [type |-> TAG_LIST, subtype |-> Top.subtype, items |-> Reverse(items)]
    OBVIOUS
  <2>8. x.type = TAG_LIST /\ x.subtype = f.subtype /\ x.items = r
    BY <1>3, <2>3, <2>7
  <2>9. Readable(x)
    BY <2>5, <2>6, <2>8 DEF Readable, Array, TAG_BYTE_ARRAY, TAG_STRING, TAG_LIST, TAG_COMPOUND,
         TAG_INT_ARRAY
  <2>10. ReturnTag(x) /\ Chained(stack') /\ Wanted(stack', x.type)
    BY <1>3, <1>4, <1>9, <2>7, <2>8
  <2> QED
    BY <1>1, <1>2, <2>9, <2>10, AskedReturned
<1>10. CASE /\ arg # Nil /\ Top.count > 1 /\ pc' = "parse" /\ arg' = Top.subtype
            /\ stack' = <<[Top EXCEPT !.count = @ - 1, !.items = items]>> \o Tail(stack)
  <2>1. PICK g : g = [f EXCEPT !.count = @ - 1, !.items = items]
    OBVIOUS
  <2>2. f.count - 1 \in Nat \ {0}
    BY <1>3, <1>5, <1>10
  <2>3. g = [type |-> TAG_LIST, subtype |-> f.subtype, count |-> f.count - 1, key |-> <<>>, items |-> items]
    BY <1>3, <1>5, <2>1, OneItemLess
  <2>4. g \in Call(T)
    BY <1>5, <1>7, <1>10, <2>2, <2>3 DEF Call
  <2>5. g.type = TAG_LIST /\ g.subtype = f.subtype /\ g.count = f.count - 1 /\ g.items = items
    BY <2>3
  <2>6. FrameFits(g)
    <3>1. (f.count - 1) + Len(items) <= Huge
      <4>1. PICK l \in Nat, c \in Nat : l = Len(f.items) /\ c = f.count
        BY <1>5, <1>7, <1>10
      <4>2. c + l <= Huge /\ Len(items) = l + 1 /\ Huge \in Nat
        BY <1>7, <1>10, <4>1, SMT DEF Huge
      <4> QED
        BY <4>1, <4>2
    <3> QED
      BY <1>7, <1>10, <2>5, <3>1 DEF FrameFits, TAG_LIST, TAG_COMPOUND
  <2>7. stack' = <<g>> \o s
    BY <1>3, <1>10, <2>1
  <2>8. Chained(stack')
    BY <1>4, <2>4, <2>5, <2>6, <2>7, ChainPush
  <2>9. Wanted(stack', arg')
    <3>1. Head(stack') = g
      BY <2>4, <2>7, InFrontOf
    <3> QED
      BY <1>3, <1>10, <2>5, <3>1 DEF Wanted
  <2>10. pc' \in {"parse", "node"}
    BY <1>10
  <2> QED
    BY <1>1, <1>2, <2>8, <2>9, <2>10, AskedCalled
<1> QED
  BY <1>6, <1>8, <1>9, <1>10 DEF ListItem

\* A compound that begins has no keys.
LEMMA CompoundAsked ==
  ASSUME NEW T, State(T), Asked, ParseCompound
  PROVE  Asked'
<1>1. /\ Unread /\ pc = "parse" /\ pc \in Reading /\ arg = TAG_COMPOUND /\ UNCHANGED name /\ pc' = "node"
      /\ stack' = <<Frame(TAG_COMPOUND, TAG_END, 0, <<>>, <<>>)>> \o stack
  BY DEF ParseCompound, Parsing, Unread, Reading
<1>2. Len(name') < 65536 /\ Chained(stack) /\ Wanted(stack, TAG_COMPOUND) /\ stack \in Seq(Call(T))
  BY <1>1, AskedFacts, ParserFacts DEF Asked
<1>3. PICK f : f = Frame(TAG_COMPOUND, TAG_END, 0, <<>>, <<>>)
  OBVIOUS
<1>4. f \in Call(T) /\ f.type = TAG_COMPOUND /\ f.key = <<>> /\ f.items = <<>>
  <2>1. <<>> \in Seq(0 .. 255) /\ <<>> \in Seq(Node(T))
    OBVIOUS
  <2> QED
    BY <1>3, <2>1 DEF Frame, Call
<1>5. FrameFits(f)
  <2>1. ShortKeys(<<>>) /\ Len(<<>>) < 65536
    BY DEF ShortKeys
  <2> QED
    BY <1>4, <2>1 DEF FrameFits, TAG_LIST, TAG_COMPOUND
<1>6. Chained(stack')
  <2>1. PICK s \in Seq(Call(T)) : s = stack
    BY <1>2
  <2>2. stack' = <<f>> \o s /\ Wanted(s, f.type) /\ Chained(s)
    BY <1>1, <1>2, <1>3, <1>4, <2>1
  <2> QED
    BY <1>4, <1>5, <2>2, ChainPush
<1> QED
  BY <1>1, <1>2, <1>6, AskedCalled

\* The key of a node is short, being read by a length of two bytes.
LEMMA NodeAsked ==
  ASSUME NEW T, State(T), Asked, ParseNode
  PROVE  Asked'
<1>1. Unread /\ pc = "node" /\ pc \in Reading /\ UNCHANGED name
  BY DEF ParseNode, Unread, Reading
<1>2. /\ bytes \in Seq(0 .. 255) /\ at \in Nat /\ Len(bytes) \in Nat /\ Left = Len(bytes) - at
      /\ stack # <<>> /\ Top.type = TAG_COMPOUND /\ stack \in Seq(Call(T))
      /\ Len(name') < 65536 /\ Chained(stack)
  BY <1>1, AskedFacts, ParserFacts DEF State, ParserTyped, InA
<1>3. PICK f \in Call(T), s \in Seq(Call(T)) : f = Top /\ s = Tail(stack)
  <2>1. stack # <<>>
    BY <1>2
  <2>2. Top \in Call(T) /\ Tail(stack) \in Seq(Call(T))
    BY <2>1, InnerCall
  <2> QED
    BY <2>2
<1>4. FrameFits(f) /\ Chained(s) /\ Wanted(s, TAG_COMPOUND)
  BY <1>2, <1>3, ChainPop DEF Top
<1>5. PICK n : n = Unsigned(SubSeq(bytes, at + 2, at + 3))
  OBVIOUS
<1>6. CASE Left < 3 \/ Left < 3 + n
  <2>1. Fail /\ stack' = Tail(stack)
    BY <1>5, <1>6 DEF ParseNode
  <2> QED
    BY <1>1, <1>2, <1>3, <1>4, <2>1, AskedFailed
<1>7. CASE ~(Left < 3 \/ Left < 3 + n)
  <2>1. /\ pc' = "parse"
        /\ stack' = <<[f EXCEPT !.key = SubSeq(bytes, at + 4, at + 3 + n)]>> \o s
    BY <1>3, <1>5, <1>7 DEF ParseNode
  <2>2. n \in Nat /\ n < 65536
    <3>1. Part(bytes, at + 2, at + 3, 2)
      BY <1>2, <1>7 DEF Part
    <3> QED
      BY <1>5, <3>1, NumberLimits
  <2>3. PICK key \in Seq(0 .. 255) : key = SubSeq(bytes, at + 4, at + 3 + n) /\ Len(key) = n
    <3>1. Part(bytes, at + 4, at + 3 + n, n)
      BY <1>2, <1>7, <2>2 DEF Part
    <3> QED
      BY <3>1, SomeBytes DEF Octets
  <2>4. PICK g : g = [f EXCEPT !.key = key]
    OBVIOUS
  <2>5. /\ f.type = TAG_COMPOUND /\ f.subtype = TAG_END /\ f.count = 0 /\ f.items \in Seq(Node(T))
        /\ ShortKeys(f.items)
    BY <1>2, <1>3, <1>4, CallKinds DEF FrameFits
  <2>6. g = [type |-> TAG_COMPOUND, subtype |-> TAG_END, count |-> 0, key |-> key,
             items |-> f.items]
    <3>1. f \in Call(T) /\ f.type = TAG_COMPOUND
      BY <1>3, <2>5
    <3>2. g = [f EXCEPT !.key = key]
      BY <2>4
    <3> QED
      BY <3>1, <3>2, OtherKey, ZenonT(30)
  <2>7. g \in Call(T) /\ g.type = TAG_COMPOUND /\ g.key = key /\ g.items = f.items
    BY <2>5, <2>6 DEF Call
  <2>8. FrameFits(g)
    BY <2>2, <2>3, <2>5, <2>7 DEF FrameFits, TAG_LIST, TAG_COMPOUND
  <2>9. stack' = <<g>> \o s
    BY <2>1, <2>3, <2>4
  <2>10. Chained(stack')
    BY <1>4, <2>7, <2>8, <2>9, ChainPush
  <2>11. Wanted(stack', arg')
    <3>1. Head(stack') = g
      BY <2>7, <2>9, InFrontOf
    <3> QED
      BY <2>7, <3>1 DEF Wanted, TAG_LIST, TAG_COMPOUND
  <2>12. pc' \in {"parse", "node"}
    BY <2>1
  <2> QED
    BY <1>1, <1>2, <2>10, <2>11, <2>12, AskedCalled
<1> QED
  BY <1>6, <1>7

\* A compound whose keys are short can be written again.
LEMMA CompoundEndAsked ==
  ASSUME NEW T, State(T), Asked, ParseCompoundEnd
  PROVE  Asked'
<1>1. Unread /\ pc = "node" /\ pc \in Reading /\ UNCHANGED name /\ stack' = Tail(stack)
  BY DEF ParseCompoundEnd, Unread, Reading
<1>2. /\ stack # <<>> /\ Top.type = TAG_COMPOUND /\ stack \in Seq(Call(T))
      /\ Len(name') < 65536 /\ Chained(stack)
  BY <1>1, AskedFacts, ParserFacts DEF State, ParserTyped, InA
<1>3. PICK f \in Call(T), s \in Seq(Call(T)) : f = Top /\ s = Tail(stack)
  <2>1. stack # <<>>
    BY <1>2
  <2>2. Top \in Call(T) /\ Tail(stack) \in Seq(Call(T))
    BY <2>1, InnerCall
  <2> QED
    BY <2>2
<1>4. FrameFits(f) /\ Chained(s) /\ Wanted(s, TAG_COMPOUND)
  BY <1>2, <1>3, ChainPop DEF Top
<1>5. CASE Fail
  BY <1>1, <1>2, <1>3, <1>4, <1>5, AskedFailed
<1>6. CASE ReturnTag([type |-> TAG_COMPOUND, items |-> Top.items])
  <2>1. PICK x : x = [type |-> TAG_COMPOUND, items |-> Top.items]
    OBVIOUS
  <2>2. ShortKeys(f.items)
    BY <1>2, <1>3, <1>4 DEF FrameFits
  <2>3. x.type = TAG_COMPOUND /\ x.items = f.items
    BY <1>3, <2>1
  <2>4. Readable(x)
    BY <2>2, <2>3 DEF Readable, Array, TAG_BYTE_ARRAY, TAG_STRING, TAG_LIST, TAG_COMPOUND,
       TAG_INT_ARRAY
  <2>5. ReturnTag(x) /\ Chained(stack') /\ Wanted(stack', x.type)
    BY <1>1, <1>3, <1>4, <1>6, <2>1, <2>3
  <2> QED
    BY <1>1, <1>2, <2>4, <2>5, AskedReturned
<1> QED
  BY <1>5, <1>6 DEF ParseCompoundEnd

\* A value is put under a short key.
LEMMA CompoundItemAsked ==
  ASSUME NEW T, State(T), Asked, CompoundItem
  PROVE  Asked'
<1>1. /\ Unread /\ pc = "return" /\ pc \in Reading /\ UNCHANGED name
      /\ stack # <<>> /\ Top.type = TAG_COMPOUND
  BY DEF CompoundItem, InA, Unread, Reading
<1>2. /\ stack \in Seq(Call(T)) /\ Len(name') < 65536 /\ Chained(stack) /\ arg \in T \cup {Nil}
  BY <1>1, AskedFacts, ParserFacts DEF State, ParserTyped
<1>3. PICK f \in Call(T), s \in Seq(Call(T)) : f = Top /\ s = Tail(stack)
  BY <1>1, InnerCall
<1>4. FrameFits(f) /\ Chained(s) /\ Wanted(s, TAG_COMPOUND)
  BY <1>1, <1>2, <1>3, ChainPop DEF Top
<1>5. CASE arg = Nil
  <2>1. Fail /\ stack' = s
    BY <1>3, <1>5 DEF CompoundItem
  <2> QED
    BY <1>1, <1>2, <1>4, <2>1, AskedFailed
<1>6. CASE arg # Nil
  <2>1. /\ pc' = "node"
        /\ stack' = <<[f EXCEPT !.items = SetKey(@, f.key, arg)]>> \o s
    BY <1>3, <1>6 DEF CompoundItem
  <2>2. /\ f.type = TAG_COMPOUND /\ f.subtype = TAG_END /\ f.count = 0
        /\ f.key \in Seq(0 .. 255) /\ f.items \in Seq(Node(T))
        /\ Len(f.key) < 65536 /\ ShortKeys(f.items)
    BY <1>1, <1>3, <1>4, CallKinds DEF FrameFits
  <2>3. PICK items \in Seq(Node(T)) : items = SetKey(f.items, f.key, arg) /\ ShortKeys(items)
    <3>1. PICK S : S = ShortKeyed(Node(T))
      OBVIOUS
    <3>2. f.items \in Seq(S)
      BY <2>2, <3>1, ShortKeysSet
    <3>3. PICK x : x = [key |-> f.key, value |-> arg]
      OBVIOUS
    <3>4. x \in S
      BY <1>2, <1>6, <2>2, <3>1, <3>3 DEF Node, ShortKeyed
    <3>5. SetKey(f.items, f.key, arg) \in Seq(S)
      BY <3>2, <3>3, <3>4, KeySet
    <3>6. S \subseteq Node(T)
      BY <3>1 DEF ShortKeyed
    <3>7. SetKey(f.items, f.key, arg) \in Seq(Node(T))
      BY <3>5, <3>6, SeqWider
    <3> QED
      BY <3>1, <3>5, <3>7, ShortKeysSet
  <2>4. PICK g : g = [f EXCEPT !.items = items]
    OBVIOUS
  <2>5. g = [type |-> TAG_COMPOUND, subtype |-> TAG_END, count |-> 0, key |-> f.key, items |-> items]
    <3>1. f \in Call(T) /\ f.type = TAG_COMPOUND
      BY <1>3, <2>2
    <3>2. g = [f EXCEPT !.items = items]
      BY <2>4
    <3> QED
      BY <3>1, <3>2, OtherItems, ZenonT(30)
  <2>6. g \in Call(T) /\ g.type = TAG_COMPOUND /\ g.key = f.key /\ g.items = items
    BY <2>2, <2>3, <2>5 DEF Call
  <2>7. FrameFits(g)
    BY <2>2, <2>3, <2>6 DEF FrameFits, TAG_LIST, TAG_COMPOUND
  <2>8. stack' = <<g>> \o s
    BY <2>1, <2>3, <2>4
  <2>9. Chained(stack')
    BY <1>4, <2>6, <2>7, <2>8, ChainPush
  <2>10. pc' \in {"parse", "node"} /\ pc' # "parse"
    BY <2>1
  <2> QED
    BY <1>1, <1>2, <2>9, <2>10, AskedCalled
<1> QED
  BY <1>5, <1>6

\* What clients do keeps to what can be written, if their tags and names do.
Fits ==
    /\ \A t \in Tags : Readable(t)
    /\ \A n \in Names : Len(n) < 65536
    /\ \A n, t : [name |-> n, root |-> t] # Nil

\* Whatever happens, what is parsed can be written again.
LEMMA AskedStep ==
  ASSUME NEW T, State(T), Asked, [Next]_vars, Fits
  PROVE  Asked'
<1>1. CASE \E n \in Names : SetName(n)
  <2>1. PICK n \in Names : SetName(n)
    BY <1>1
  <2>2. UNCHANGED stack /\ pc' \notin Reading /\ root_name' = n
    BY <2>1 DEF SetName, Idle, parser, Reading
  <2> QED
    BY <2>2, AskedElse DEF Fits
<1>2. CASE \/ \E t \in Trees : SetRoot(t)
           \/ WriteStart \/ Measure \/ WriteName \/ WriteTag \/ Written \/ Damage
  <2>1. UNCHANGED <<stack, root_name>> /\ pc' \notin Reading
    BY <1>2 DEF SetRoot, WriteStart, Measure, WriteName, WriteTag, Written, Damage, Idle, parser, nbt,
       Reading
  <2>2. Len(root_name') < 65536
    BY <2>1 DEF Asked
  <2> QED
    BY <2>1, <2>2, AskedElse
<1>3. CASE ParseStart
  BY <1>3, StartAsked
<1>4. CASE ParseUnknown
  <2>1. Unread /\ pc = "parse" /\ pc \in Reading /\ Fail /\ UNCHANGED <<stack, name>>
    BY <1>4 DEF ParseUnknown, Unread, Reading
  <2>2. Len(name') < 65536 /\ Chained(stack')
    BY <2>1, AskedFacts
  <2> QED
    BY <2>1, <2>2, AskedFailed
<1>5. CASE ParseScalar
  BY <1>5, ScalarAsked
<1>6. CASE ParseArray
  BY <1>6, ArrayAsked
<1>7. CASE ParseText
  BY <1>7, TextAsked
<1>8. CASE ParseList
  BY <1>8, ListAsked
<1>9. CASE ListItem
  BY <1>9, ListItemAsked
<1>10. CASE ParseCompound
  BY <1>10, CompoundAsked
<1>11. CASE ParseNode
  BY <1>11, NodeAsked
<1>12. CASE ParseCompoundEnd
  BY <1>12, CompoundEndAsked
<1>13. CASE CompoundItem
  BY <1>13, CompoundItemAsked
<1>14. CASE ParseEnd
  <2>1. UNCHANGED stack /\ pc' \notin Reading /\ root_name' \in {name, root_name} /\ pc \in Reading
    BY <1>14 DEF ParseEnd, nbt, Reading
  <2>2. Len(root_name') < 65536
    BY <2>1 DEF Asked
  <2> QED
    BY <2>1, <2>2, AskedElse
<1>15. CASE GoOn
  <2>1. stack' = <<>> /\ pc' = "idle" /\ root_name' \in {<<>>, root_name}
    BY <1>15 DEF GoOn, nbt
  <2>2. Chained(<<>>) /\ Len(<<>>) < 65536
    BY DEF Chained
  <2>3. Len(root_name') < 65536
    BY <2>1, <2>2 DEF Asked
  <2>4. Chained(stack')
    BY <2>1, <2>2
  <2> QED
    BY <2>1, <2>3, <2>4 DEF Asked, Reading
<1>16. CASE UNCHANGED vars
  BY <1>16 DEF vars, nbt, parser, Asked
<1> QED
  BY <1>1, <1>2, <1>3, <1>4, <1>5, <1>6, <1>7, <1>8, <1>9, <1>10, <1>11, <1>12, <1>13, <1>14, <1>15,
     <1>16 DEF Next

-----------------------------------------------------------------------------
(* A file that was damaged, and the one it was.                            *)

\* F is all that is written of the tree u under the name n.
Whole(T, u, n, h, F) == Track(T, u, n, h, F) /\ h[Len(h)].left = <<>>

\* As far as both go, the file is F.
Agree(F) == \A k \in 1 .. Len(bytes) : k <= Len(F) => bytes[k] = F[k]

\* The parser is where F has a tag of the type it is to parse, or where the calls it is
\* in are to go on.
AtTag(T, s) ==
    /\ s.pos = at /\ s.left # <<>>
    /\ Head(s.left).what = "tag" /\ Head(s.left).tag.type = arg
    /\ Matches(Entry(T), Tail(s.left), stack)

AtRest(T, s) == s.pos = at /\ Matches(Entry(T), s.left, stack)

Aligned(T, h) ==
    /\ pc = "parse" => \E i \in 1 .. Len(h) : AtTag(T, h[i])
    /\ pc = "node" \/ (pc = "return" /\ arg # Nil) => \E i \in 1 .. Len(h) : AtRest(T, h[i])

\* Where nothing is parsed any more, nothing is asked.
LEMMA AlignedElse ==
  ASSUME NEW T, NEW h, pc' \notin {"parse", "node"}, pc' = "return" => arg' = Nil
  PROVE  Aligned(T, h)'
  BY DEF Aligned

\* The parser is to parse the tag that is next on the track.
LEMMA AlignedTag ==
  ASSUME NEW T, NEW h, NEW j \in 1 .. Len(h), h[j].pos = at', NEW e, NEW r \in Seq(Entry(T)),
         e \in Entry(T), h[j].left = <<e>> \o r, e.what = "tag", e.tag.type = arg',
         Matches(Entry(T), r, stack'), pc' = "parse"
  PROVE  Aligned(T, h)'
<1>1. h[j].left # <<>> /\ Head(h[j].left) = e /\ Tail(h[j].left) = r
  BY InFrontOf
<1>2. AtTag(T, h[j])'
  BY <1>1 DEF AtTag
<1> QED
  BY <1>2 DEF Aligned

\* The calls are to read what is left on the track.
LEMMA AlignedRest ==
  ASSUME NEW T, NEW h, NEW j \in 1 .. Len(h), h[j].pos = at',
         Matches(Entry(T), h[j].left, stack'), pc' \in {"node", "return"}
  PROVE  Aligned(T, h)'
<1>1. AtRest(T, h[j])'
  BY DEF AtRest
<1> QED
  BY <1>1 DEF Aligned

\* What lies in F is found in the file, unless that is too short.
LEMMA FoundAhead ==
  ASSUME NEW F \in Seq(0 .. 255), bytes \in Seq(0 .. 255), Agree(F), NEW p \in Nat,
         NEW c \in Seq(0 .. 255), Lies(F, p, c), p + Len(c) <= Len(bytes)
  PROVE  Lies(bytes, p, c) /\ SubSeq(bytes, p + 1, p + Len(c)) = c
<1>1. PICK x \in Nat, l \in Nat, m \in Nat : x = Len(c) /\ l = Len(bytes) /\ m = Len(F)
  BY LenProperties
<1>2. p + x <= m /\ p + x <= l /\ \A k \in 1 .. x : F[p + k] = c[k]
  BY <1>1 DEF Lies
<1>3. ASSUME NEW k \in 1 .. x PROVE bytes[p + k] = c[k]
  <2>1. p + k \in 1 .. Len(bytes) /\ p + k <= Len(F)
    BY <1>1, <1>2
  <2> QED
    BY <1>2, <2>1 DEF Agree
<1>4. Lies(bytes, p, c)
  BY <1>1, <1>2, <1>3 DEF Lies
<1> QED
  BY <1>4, LiesFound

\* The next step from p: the entry e, before what else was left.
Onward(T, h, F, p, e, r, j) ==
    /\ e \in Entry(T) /\ r \in Seq(Entry(T)) /\ j \in 1 .. Len(h)
    /\ BytesOf(e) \in Seq(0 .. 255) /\ Parts(e) \in Seq(Entry(T)) /\ Lies(F, p, BytesOf(e))
    /\ h[j].pos = p + Len(BytesOf(e)) /\ h[j].left = Parts(e) \o r

\* Where something is left, there is a next step.
LEMMA OnwardFrom ==
  ASSUME NEW T, NEW u, NEW n, NEW h, NEW F, Whole(T, u, n, h, F), NEW i \in 1 .. Len(h),
         h[i].left # <<>>
  PROVE  Onward(T, h, F, h[i].pos, Head(h[i].left), Tail(h[i].left), i + 1)
<1>1. i \in 1 .. Len(h) - 1 /\ Track(T, u, n, h, F)
  BY TrackEnds DEF Whole
<1>2. Stride(T, F, h[i], h[i + 1]) /\ i + 1 \in 1 .. Len(h)
  BY <1>1, Strides
<1> QED
  BY <1>2 DEF Onward, Stride, Wrote

\* The tag t the parser is at, before what else was left.
TagHere(T, h, F, t, r, j) ==
    /\ t \in T /\ TagOver(T, t) /\ Readable(t) /\ t.type = arg
    /\ r \in Seq(Entry(T)) /\ j \in 1 .. Len(h)
    /\ TagBytes(t) \in Seq(0 .. 255) /\ Parts(ATag(t)) \in Seq(Entry(T)) /\ Lies(F, at, TagBytes(t))
    /\ h[j].pos = at + Len(TagBytes(t)) /\ h[j].left = Parts(ATag(t)) \o r
    /\ Matches(Entry(T), r, stack)

\* A parser that is to parse a tag is where the track has one.
LEMMA HereTag ==
  ASSUME NEW T, NEW u, NEW n, NEW h, NEW F, Whole(T, u, n, h, F), Aligned(T, h), pc = "parse"
  PROVE  \E t, r, j : TagHere(T, h, F, t, r, j)
<1>1. PICK i \in 1 .. Len(h) : AtTag(T, h[i])
  BY DEF Aligned
<1>2. PICK e, r : e = Head(h[i].left) /\ r = Tail(h[i].left)
  OBVIOUS
<1>3. /\ h[i].pos = at /\ h[i].left # <<>> /\ e.what = "tag" /\ e.tag.type = arg
      /\ Matches(Entry(T), r, stack)
  BY <1>1, <1>2 DEF AtTag
<1>4. Onward(T, h, F, at, e, r, i + 1)
  BY <1>2, <1>3, OnwardFrom
<1>5. e \in Entry(T) /\ Sound(T)
  BY <1>4 DEF Onward, Whole, Track
<1>6. e.tag \in T /\ TagOver(T, e.tag) /\ Readable(e.tag) /\ BytesOf(e) = TagBytes(e.tag) /\ e = ATag(e.tag)
  BY <1>3, <1>5, TagEntry
<1>7. TagHere(T, h, F, e.tag, r, i + 1)
  BY <1>3, <1>4, <1>6 DEF Onward, TagHere
<1> QED
  BY <1>7

\* A tag that contains no others.
LEMMA LeafOn ==
  ASSUME NEW T, NEW h, NEW F, NEW t, NEW r, NEW j, TagHere(T, h, F, t, r, j),
         Parts(ATag(t)) = <<>>, at' = at + Len(TagBytes(t)), stack' = stack, pc' = "return"
  PROVE  Aligned(T, h)'
<1>1. h[j].left = r
  <2>1. \A s \in Seq(Entry(T)) : <<>> \o s = s
    BY ConcatEmptySeq
  <2> QED
    BY <2>1 DEF TagHere
<1>2. j \in 1 .. Len(h) /\ h[j].pos = at' /\ Matches(Entry(T), h[j].left, stack')
  BY <1>1 DEF TagHere
<1> QED
  BY <1>2, AlignedRest

\* What every step of the parser has.
Tracked(R, T, u, n, h, F) ==
    /\ State(R) /\ pc \in Reading /\ Unread
    /\ Whole(T, u, n, h, F) /\ Agree(F) /\ Aligned(T, h)

\* What follows from the types.
LEMMA TrackedFacts ==
  ASSUME NEW R, NEW T, NEW u, NEW n, NEW h, NEW F, Tracked(R, T, u, n, h, F)
  PROVE  /\ bytes \in Seq(0 .. 255) /\ F \in Seq(0 .. 255) /\ Len(bytes) \in Nat /\ at \in Nat
         /\ Left = Len(bytes) - at /\ at <= Len(bytes) /\ stack \in Seq(Call(R))
<1>1. State(R) /\ pc \in Reading
  BY DEF Tracked
<1>2. F \in Seq(0 .. 255)
  BY DEF Tracked, Whole, Track
<1> QED
  BY <1>1, <1>2, ParserFacts

\* A call that fails asks no more.
LEMMA FailAligned ==
  ASSUME NEW T, NEW h, Fail
  PROVE  Aligned(T, h)'
<1>1. pc' = "return" /\ arg' = Nil
  BY DEF Fail, ReturnTag
<1> QED
  BY <1>1, AlignedElse

\* The parser reads a number where the track has one, and stands behind it.
LEMMA ScalarAligned ==
  ASSUME NEW R, NEW T, NEW u, NEW n, NEW h, NEW F, Tracked(R, T, u, n, h, F), ParseScalar
  PROVE  Aligned(T, h)'
<1>1. pc = "parse" /\ arg \in Scalar /\ stack' = stack
  BY DEF ParseScalar, Parsing
<1>2. PICK t, r, j : TagHere(T, h, F, t, r, j)
  BY <1>1, HereTag DEF Tracked
<1>3. t.type = arg /\ TagOver(T, t)
  BY <1>2 DEF TagHere
<1>4. Len(TagBytes(t)) = Width(arg) /\ Parts(ATag(t)) = <<>>
  BY <1>1, <1>3, ScalarLies
<1>5. CASE Left < Width(arg)
  <2>1. Fail
    BY <1>5 DEF ParseScalar
  <2> QED
    BY <2>1, FailAligned
<1>6. CASE ~(Left < Width(arg))
  <2>1. at' = at + Width(arg) /\ pc' = "return"
    BY <1>6 DEF ParseScalar, ReturnTag
  <2> QED
    BY <1>1, <1>2, <1>4, <2>1, LeafOn
<1> QED
  BY <1>5, <1>6

\* It reads an array as long as the one the track has.
LEMMA ArrayAligned ==
  ASSUME NEW R, NEW T, NEW u, NEW n, NEW h, NEW F, Tracked(R, T, u, n, h, F), ParseArray
  PROVE  Aligned(T, h)'
<1>1. pc = "parse" /\ arg \in Array /\ stack' = stack
  BY DEF ParseArray, Parsing
<1>2. PICK t, r, j : TagHere(T, h, F, t, r, j)
  BY <1>1, HereTag DEF Tracked
<1>3. t.type = arg /\ TagOver(T, t) /\ Lies(F, at, TagBytes(t)) /\ Readable(t)
  BY <1>2 DEF TagHere
<1>4. /\ bytes \in Seq(0 .. 255) /\ F \in Seq(0 .. 255) /\ Len(bytes) \in Nat /\ at \in Nat
      /\ Left = Len(bytes) - at /\ Agree(F)
  BY TrackedFacts DEF Tracked
<1>5. /\ Lies(F, at, BigEndian(Len(t.data), 4)) /\ Parts(ATag(t)) = <<>>
      /\ t.data \in Seq(Int) /\ Len(TagBytes(t)) = 4 + Width(arg) * Len(t.data)
  BY <1>1, <1>3, <1>4, ArrayLies
<1>6. CASE Fail
  BY <1>6, FailAligned
<1>7. CASE ~Fail
  <2>1. PICK k, w : k = Unsigned(Ahead(4)) /\ w = Width(arg)
    OBVIOUS
  <2>2. ~(Left < 4) /\ at' = at + 4 + w * k /\ pc' = "return"
    BY <1>7, <2>1 DEF ParseArray, ReturnTag
  <2>3. PICK m \in Nat : m = Len(t.data) /\ m <= Huge
    <3>1. Len(t.data) \in Nat /\ Len(t.data) < Huge /\ Huge \in Nat
      BY <1>1, <1>3, <1>5, LenProperties, SMT DEF Readable, Huge
    <3> QED
      BY <3>1
  <2>4. PICK c \in Seq(0 .. 255) : c = BigEndian(m, 4) /\ Len(c) = 4
    BY <2>3, BigEndianBytes
  <2>5. SubSeq(bytes, at + 1, at + 4) = c
    <3>3. Lies(F, at, c)
      BY <1>5, <2>3, <2>4
    <3>4. at + 4 <= Len(bytes)
      BY <1>4, <2>2
    <3>1. Lies(F, at, c) /\ at + Len(c) <= Len(bytes)
      BY <2>4, <3>3, <3>4
    <3>2. SubSeq(bytes, at + 1, at + Len(c)) = c
      BY <1>4, <3>1, FoundAhead
    <3> QED
      BY <2>4, <3>2
  <2>6. k = m
    BY <2>1, <2>3, <2>4, <2>5, FourBytes DEF Ahead
  <2>7. w * m \in Nat
    <3>1. w \in {1, 4}
      BY <1>1, <2>1, Widths
    <3>2. CASE w = 1
      BY <2>3, <3>2
    <3>3. CASE w = 4
      BY <2>3, <3>3
    <3> QED
      BY <3>1, <3>2, <3>3
  <2>8. at' = at + Len(TagBytes(t))
    <3>1. PICK y \in Nat : y = w * m
      BY <2>7
    <3>2. at' = at + 4 + y /\ Len(TagBytes(t)) = 4 + y
      BY <1>5, <2>1, <2>2, <2>3, <2>6, <3>1
    <3> QED
      BY <1>4, <3>2
  <2> QED
    BY <1>1, <1>2, <1>5, <2>2, <2>8, LeafOn
<1> QED
  BY <1>6, <1>7

\* It reads a string as long as the one the track has.
LEMMA TextAligned ==
  ASSUME NEW R, NEW T, NEW u, NEW n, NEW h, NEW F, Tracked(R, T, u, n, h, F), ParseText
  PROVE  Aligned(T, h)'
<1>1. pc = "parse" /\ arg = TAG_STRING /\ stack' = stack
  BY DEF ParseText, Parsing
<1>2. PICK t, r, j : TagHere(T, h, F, t, r, j)
  BY <1>1, HereTag DEF Tracked
<1>3. t.type = TAG_STRING /\ TagOver(T, t) /\ Lies(F, at, TagBytes(t)) /\ Readable(t)
  BY <1>1, <1>2 DEF TagHere
<1>4. /\ bytes \in Seq(0 .. 255) /\ F \in Seq(0 .. 255) /\ Len(bytes) \in Nat /\ at \in Nat
      /\ Left = Len(bytes) - at /\ Agree(F)
  BY TrackedFacts DEF Tracked
<1>5. TagBytes(t) = StringBytes(t.string) /\ Parts(ATag(t)) = <<>> /\ t.string \in Seq(0 .. 255)
  BY <1>3, TextLies
<1>6. CASE StringAhead = Nil
  <2>1. pc' = "crashed"
    BY <1>6 DEF ParseText
  <2> QED
    BY <2>1, AlignedElse
<1>7. CASE StringAhead # Nil
  <2>1. PICK k : k = Unsigned(SubSeq(bytes, at + 1, at + 2))
    OBVIOUS
  <2>2. ~(Left < 2) /\ ~(Left < 2 + k) /\ StringAhead = SubSeq(bytes, at + 3, at + 2 + k)
    BY <1>7, <2>1 DEF StringAhead, Ahead
  <2>3. at' = at + 2 + Len(StringAhead) /\ pc' = "return"
    BY <1>7 DEF ParseText, ReturnTag
  <2>4. PICK m \in Nat : m = Len(t.string) /\ m < 65536
    BY <1>3, <1>5, LenProperties DEF Readable
  <2>5. PICK c \in Seq(0 .. 255) : c = BigEndian(m, 2) /\ Len(c) = 2
    BY <2>4, BigEndianBytes
  <2>6. k = m
    <3>6. at + 2 <= Len(bytes)
      BY <1>4, <2>2
    <3>1. at + Len(c) <= Len(bytes)
      BY <2>5, <3>6
    <3>2. Lies(F, at, c)
      BY <1>3, <1>4, <1>5, <2>4, <2>5, StringLies
    <3>3. SubSeq(bytes, at + 1, at + Len(c)) = c
      BY <1>4, <3>1, <3>2, FoundAhead
    <3>4. k = Unsigned(c)
      BY <2>1, <2>5, <3>3
    <3>5. Unsigned(BigEndian(m, 2)) = m
      BY <2>4, TwoBytes
    <3> QED
      BY <2>5, <3>4, <3>5
  <2>7. Len(StringAhead) = m
    <3>1. ~(Left < 2 + m) /\ StringAhead = SubSeq(bytes, at + 3, at + 2 + m)
      BY <2>2, <2>6
    <3>2. Part(bytes, at + 3, at + 2 + m, m)
      BY <1>4, <3>1 DEF Part
    <3> QED
      BY <3>1, <3>2, SomeBytes DEF Octets
  <2>8. at' = at + Len(TagBytes(t))
    <3>1. Len(TagBytes(t)) = 2 + m
      BY <1>5, <2>4, StringCounted
    <3>2. at' = at + 2 + m
      BY <2>3, <2>7
    <3> QED
      BY <1>4, <3>1, <3>2
  <2> QED
    BY <1>1, <1>2, <1>5, <2>3, <2>8, LeafOn
<1> QED
  BY <1>6, <1>7

\* A concatenation that is not empty in front begins as that does.
LEMMA FirstOfTwo ==
  ASSUME NEW S, NEW a \in Seq(S), NEW b \in Seq(S), a # <<>>, NEW s, s = a \o b
  PROVE  /\ s \in Seq(S) /\ s # <<>> /\ Head(s) = Head(a) /\ Tail(s) = Tail(a) \o b
         /\ Tail(a) \in Seq(S)
<1>1. Head(a) \in S /\ Tail(a) \in Seq(S) /\ a = <<Head(a)>> \o Tail(a)
  BY FirstAndOthers
<1>2. PICK x \in S, c \in Seq(S) : x = Head(a) /\ c = Tail(a)
  BY <1>1
<1>3. PICK y \in Seq(S) : y = <<x>>
  <2>1. <<x>> \in Seq(S)
    BY <1>2
  <2> QED
    BY <2>1
<1>4. (y \o c) \o b = y \o (c \o b)
  BY ConcatAssociative
<1>5. PICK d \in Seq(S) : d = c \o b
  BY ConcatProperties
<1>6. s = <<x>> \o d
  BY <1>1, <1>2, <1>3, <1>4, <1>5
<1>7. s \in Seq(S) /\ s # <<>> /\ Head(s) = x /\ Tail(s) = d
  BY <1>6, InFrontOf
<1> QED
  BY <1>1, <1>2, <1>5, <1>7

\* The entries of a list, of which one is read next.
LEMMA ItemsRemain ==
  ASSUME NEW T, Sound(T), NEW t \in T, t.type = TAG_LIST, NEW f,
         f.type = TAG_LIST, f.subtype = t.subtype, f.count = Len(t.items), t.items # <<>>,
         NEW p, p = Parts(ATag(t))
  PROVE  /\ p \in Seq(Entry(T)) /\ p # <<>> /\ Head(p).what = "tag" /\ Head(p).tag.type = t.subtype
         /\ Tail(p) \in Seq(Entry(T)) /\ Remains(f, Tail(p))
<1>1. TagOver(T, t) /\ Readable(t)
  BY DEF Sound, Closed
<1>2. t.items \in Seq(T) /\ OfOneType(t.items, t.subtype)
  BY <1>1, TagKinds DEF Readable
<1>3. PICK m \in Nat : m = Len(t.items) /\ DOMAIN t.items = 1 .. m
  BY <1>2
<1>4. p = [i \in 1 .. m |-> ATag(t.items[i])]
  BY <1>3 DEF Parts, ATag
<1>5. ASSUME NEW i \in 1 .. m
      PROVE  p[i].what = "tag" /\ p[i].tag.type = t.subtype /\ p[i] \in Entry(T)
  <2>1. t.items[i] \in T /\ t.items[i].type = t.subtype
    BY <1>2, <1>3 DEF OfOneType
  <2> QED
    BY <1>4, <2>1 DEF ATag, Entry
<1>6. p \in Seq(Entry(T)) /\ Len(p) = m
  <2>1. p \in [1 .. m -> Entry(T)]
    BY <1>4, <1>5
  <2> QED
    BY <1>4, <2>1
<1>7. m # 0 /\ p # <<>>
  BY <1>2, <1>3, <1>6
<1>8. /\ Tail(p) \in Seq(Entry(T)) /\ Len(p) = Len(Tail(p)) + 1 /\ Len(Tail(p)) \in Nat
      /\ p[1] = Head(p) /\ \A i \in 1 .. Len(Tail(p)) : p[i + 1] = Tail(p)[i]
  BY <1>6, <1>7, FirstAndOthers
<1>9. Head(p).what = "tag" /\ Head(p).tag.type = t.subtype
  <2>1. 1 \in 1 .. m
    BY <1>3, <1>7
  <2> QED
    BY <1>5, <1>8, <2>1
<1>10. Remains(f, Tail(p))
  <2>1. Len(Tail(p)) = f.count - 1
    BY <1>3, <1>6, <1>8
  <2>2. ASSUME NEW k \in 1 .. Len(Tail(p))
        PROVE  Tail(p)[k].what = "tag" /\ Tail(p)[k].tag.type = f.subtype
    <3>1. k + 1 \in 1 .. m
      BY <1>6, <1>8
    <3> QED
      BY <1>5, <1>8, <3>1
  <2>3. f.type # TAG_COMPOUND
    BY DEF TAG_LIST, TAG_COMPOUND
  <2> QED
    BY <2>1, <2>2, <2>3 DEF Remains
<1> QED
  BY <1>6, <1>7, <1>8, <1>9, <1>10

\* It waits for as many items, of the same type, as the track has.
LEMMA ListAligned ==
  ASSUME NEW R, NEW T, NEW u, NEW n, NEW h, NEW F, Tracked(R, T, u, n, h, F), ParseList
  PROVE  Aligned(T, h)'
<1>1. pc = "parse" /\ arg = TAG_LIST
  BY DEF ParseList, Parsing
<1>2. PICK t, r, j : TagHere(T, h, F, t, r, j)
  BY <1>1, HereTag DEF Tracked
<1>3. /\ t.type = TAG_LIST /\ TagOver(T, t) /\ Lies(F, at, TagBytes(t)) /\ Readable(t) /\ t \in T
      /\ r \in Seq(Entry(T)) /\ j \in 1 .. Len(h) /\ Matches(Entry(T), r, stack)
      /\ h[j].pos = at + Len(TagBytes(t)) /\ h[j].left = Parts(ATag(t)) \o r
  BY <1>1, <1>2 DEF TagHere
<1>4. /\ bytes \in Seq(0 .. 255) /\ F \in Seq(0 .. 255) /\ Len(bytes) \in Nat /\ at \in Nat
      /\ Left = Len(bytes) - at /\ Agree(F) /\ stack \in Seq(Call(R))
  BY TrackedFacts DEF Tracked
<1>5. /\ Lies(F, at, <<t.subtype>>) /\ Lies(F, at + 1, BigEndian(Len(t.items), 4))
      /\ Len(TagBytes(t)) = 5 /\ t.items \in Seq(T) /\ t.subtype \in 0 .. 255
  BY <1>3, <1>4, ListLies, TagKinds
<1>6. CASE Fail
  BY <1>6, FailAligned
<1>7. CASE ~Fail
  <2>1. PICK st, count : st = bytes[at + 1] /\ count = Signed(SubSeq(bytes, at + 2, at + 5))
    OBVIOUS
  <2>2. Left >= 5 /\ at' = at + 5
    BY <1>7 DEF ParseList
  <2>3. at + 5 <= Len(bytes)
    BY <1>4, <2>2
  <2>4. st = t.subtype
    <3>1. PICK c \in Seq(0 .. 255) : c = <<t.subtype>> /\ Len(c) = 1
      BY <1>5, OneByte
    <3>2. at + Len(c) <= Len(bytes)
      BY <1>4, <2>3, <3>1
    <3>3. Lies(bytes, at, c)
      BY <1>4, <1>5, <3>1, <3>2, FoundAhead
    <3> QED
      BY <2>1, <3>1, <3>3, OneLies
  <2>5. PICK m \in Nat : m = Len(t.items) /\ m <= Huge
    BY <1>3, <1>5, LenProperties DEF Readable
  <2>6. count = m
    <3>1. PICK c \in Seq(0 .. 255) : c = BigEndian(m, 4) /\ Len(c) = 4
      BY <2>5, BigEndianBytes
    <3>2. PICK p \in Nat : p = at + 1
      BY <1>4
    <3>3. p + 4 <= Len(bytes) /\ p + 1 = at + 2 /\ p + 4 = at + 5
      BY <1>4, <2>3, <3>2
    <3>4. p + Len(c) <= Len(bytes) /\ Lies(F, p, c)
      BY <1>5, <2>5, <3>1, <3>2, <3>3
    <3>5. SubSeq(bytes, p + 1, p + Len(c)) = c
      BY <1>4, <3>4, FoundAhead
    <3>6. SubSeq(bytes, at + 2, at + 5) = c
      BY <3>1, <3>3, <3>5
    <3>7. Signed(BigEndian(m, 4)) = m
      BY <2>5, FourBytes
    <3> QED
      BY <2>1, <3>1, <3>6, <3>7
  <2>7. CASE count > 0 /\ Left > 5
    <3>1. pc' = "parse" /\ arg' = st /\ stack' = <<Frame(TAG_LIST, st, count, <<>>, <<>>)>> \o stack
      BY <1>7, <2>1, <2>7 DEF ParseList
    <3>2. PICK f : f = Frame(TAG_LIST, st, count, <<>>, <<>>)
      OBVIOUS
    <3>3. f.type = TAG_LIST /\ f.subtype = t.subtype /\ f.count = Len(t.items)
      BY <2>4, <2>5, <2>6, <3>2 DEF Frame
    <3>4. f \in Call(R)
      <4>1. count \in Nat \ {0} /\ <<>> \in Seq(R)
        BY <2>5, <2>6, <2>7
      <4> QED
        BY <1>5, <2>4, <3>2, <4>1 DEF Frame, Call
    <3>5. t.items # <<>>
      BY <2>5, <2>6, <2>7
    <3>6. PICK p : p = Parts(ATag(t))
      OBVIOUS
    <3>7. /\ p \in Seq(Entry(T)) /\ p # <<>> /\ Head(p).what = "tag" /\ Head(p).tag.type = t.subtype
          /\ Tail(p) \in Seq(Entry(T)) /\ Remains(f, Tail(p))
      <4>1. Sound(T)
        BY DEF Tracked, Whole, Track
      <4> QED
        BY <1>3, <3>3, <3>5, <3>6, <4>1, ItemsRemain
    <3>8. PICK q : q = Tail(p) \o r
      OBVIOUS
    <3>9. q \in Seq(Entry(T))
      BY <1>3, <3>7, <3>8, ConcatProperties
    <3>10. Matches(Entry(T), q, stack')
      <4>1. PICK s \in Seq(Call(R)) : s = stack
        BY <1>4
      <4>2. stack' = <<f>> \o s /\ Matches(Entry(T), r, s)
        BY <1>3, <3>1, <3>2, <4>1
      <4> QED
        BY <1>3, <3>4, <3>7, <3>8, <4>2, MatchesPush
    <3>11. h[j].left = p \o r /\ h[j].pos = at'
      BY <1>3, <1>5, <2>2, <3>6
    <3>12. h[j].left # <<>> /\ Head(h[j].left) = Head(p) /\ Tail(h[j].left) = q
      BY <1>3, <3>7, <3>8, <3>11, FirstOfTwo
    <3>13. AtTag(T, h[j])'
      BY <2>4, <3>1, <3>7, <3>10, <3>11, <3>12 DEF AtTag
    <3> QED
      BY <1>3, <3>1, <3>13 DEF Aligned
  <2>8. CASE ~(count > 0 /\ Left > 5)
    <3>1. /\ stack' = stack
          /\ ReturnTag(IF count > 0 THEN Nil
                       ELSE [type |-> TAG_LIST, subtype |-> st, items |-> <<>>])
      BY <1>7, <2>1, <2>8 DEF ParseList
    <3>2. count = 0 /\ pc' = "return"
      BY <1>7, <2>5, <2>6, <3>1 DEF Fail, ReturnTag
    <3>3. Parts(ATag(t)) = <<>>
      <4>3. DOMAIN t.items = 1 .. Len(t.items)
        BY <1>5
      <4>1. DOMAIN t.items = {}
        BY <2>5, <2>6, <3>2, <4>3
      <4>2. Parts(ATag(t)) = [i \in DOMAIN t.items |-> ATag(t.items[i])]
        BY <1>3 DEF Parts, ATag
      <4> QED
        BY <4>1, <4>2
    <3>4. at' = at + Len(TagBytes(t))
      BY <1>5, <2>2
    <3> QED
      BY <1>2, <3>1, <3>2, <3>3, <3>4, LeafOn
  <2> QED
    BY <2>7, <2>8
<1> QED
  BY <1>6, <1>7

\* What is left where the parser is: a for the innermost call, b for those it is in.
RestHere(T, h, i, a, b) ==
    /\ i \in 1 .. Len(h) /\ a \in Seq(Entry(T)) /\ b \in Seq(Entry(T))
    /\ h[i].pos = at /\ h[i].left = a \o b
    /\ Remains(Top, a) /\ Matches(Entry(T), b, Tail(stack))

\* In a container the parser is where the track has what its call is still to read.
LEMMA HereRest ==
  ASSUME NEW R, NEW T, NEW u, NEW n, NEW h, NEW F, Tracked(R, T, u, n, h, F), stack # <<>>,
         pc = "node" \/ (pc = "return" /\ arg # Nil)
  PROVE  \E i, a, b : RestHere(T, h, i, a, b)
<1>1. PICK i \in 1 .. Len(h) : h[i].pos = at /\ Matches(Entry(T), h[i].left, stack)
  BY DEF Tracked, Aligned, AtRest
<1>2. PICK s \in Seq(Call(R)) : s = stack
  BY TrackedFacts
<1>3. PICK l : l = h[i].left
  OBVIOUS
<1>4. \E a \in Seq(Entry(T)), b \in Seq(Entry(T)) :
         l = a \o b /\ Remains(Head(s), a) /\ Matches(Entry(T), b, Tail(s))
  BY <1>1, <1>2, <1>3, MatchesPop
<1> QED
  BY <1>1, <1>2, <1>3, <1>4 DEF Top, RestHere

\* With an item done, the list waits for the next one of the track, or is at its end.
LEMMA ListItemAligned ==
  ASSUME NEW R, NEW T, NEW u, NEW n, NEW h, NEW F, Tracked(R, T, u, n, h, F), ListItem
  PROVE  Aligned(T, h)'
<1>1. pc = "return" /\ at' = at /\ stack # <<>> /\ Top.type = TAG_LIST
  BY DEF ListItem, InA
<1>2. CASE Fail
  BY <1>2, FailAligned
<1>3. CASE ~Fail
  <2>1. arg # Nil
    BY <1>3 DEF ListItem
  <2>0. PICK i, a, b : RestHere(T, h, i, a, b)
    BY <1>1, <2>1, HereRest
  <2>2. /\ i \in 1 .. Len(h) /\ a \in Seq(Entry(T)) /\ b \in Seq(Entry(T))
        /\ h[i].pos = at /\ h[i].left = a \o b
        /\ Remains(Top, a) /\ Matches(Entry(T), b, Tail(stack))
    BY <2>0 DEF RestHere
  <2>3. State(R)
    BY DEF Tracked
  <2>4. PICK f \in Call(R), s \in Seq(Call(R)) : f = Top /\ s = Tail(stack)
    BY <1>1, <2>3, InnerCall
  <2>5. /\ f.type = TAG_LIST /\ f.subtype \in 0 .. 255 /\ f.count \in Nat \ {0} /\ f.key = <<>>
        /\ f.items \in Seq(R)
    BY <1>1, <2>4, CallKinds
  <2>6. /\ Len(a) = f.count - 1
        /\ \A k \in 1 .. Len(a) : a[k].what = "tag" /\ a[k].tag.type = f.subtype
    BY <2>2, <2>4, <2>5 DEF Remains
  <2>7. CASE Top.count = 1 /\ pc' = "return" /\ stack' = Tail(stack)
    <3>1. f.count = 1
      BY <2>4, <2>7
    <3>2. a = <<>>
      BY <2>2, <2>6, <3>1
    <3>3. h[i].left = b
      <4>1. \A x \in Seq(Entry(T)) : <<>> \o x = x
        BY ConcatEmptySeq
      <4> QED
        BY <2>2, <3>2, <4>1
    <3> QED
      BY <1>1, <2>2, <2>7, <3>3, AlignedRest
  <2>8. CASE /\ Top.count > 1 /\ pc' = "parse" /\ arg' = Top.subtype
             /\ stack' = <<[Top EXCEPT !.count = @ - 1, !.items = <<arg>> \o Top.items]>> \o Tail(stack)
    <3>1. PICK items : items = <<arg>> \o Top.items
      OBVIOUS
    <3>2. PICK g : g = [f EXCEPT !.count = @ - 1, !.items = items]
      OBVIOUS
    <3>3. f.count - 1 \in Nat \ {0}
      BY <2>4, <2>5, <2>8
    <3>4. g = [type |-> TAG_LIST, subtype |-> f.subtype, count |-> f.count - 1, key |-> <<>>, items |-> items]
      BY <2>4, <2>5, <3>2, OneItemLess
    <3>5. g.type = TAG_LIST /\ g.subtype = f.subtype /\ g.count = f.count - 1
      BY <3>4
    <3>6. /\ a # <<>> /\ Head(a) \in Entry(T) /\ Tail(a) \in Seq(Entry(T)) /\ Len(a) = Len(Tail(a)) + 1
          /\ Len(Tail(a)) \in Nat /\ a[1] = Head(a) /\ \A k \in 1 .. Len(Tail(a)) : a[k + 1] = Tail(a)[k]
      <4>1. a # <<>>
        BY <2>6, <3>3
      <4> QED
        BY <2>2, <4>1, FirstAndOthers
    <3>7. Head(a).what = "tag" /\ Head(a).tag.type = f.subtype
      <4>1. 1 \in 1 .. Len(a)
        BY <3>6
      <4> QED
        BY <2>6, <3>6, <4>1
    <3>8. Remains(g, Tail(a))
      <4>1. Len(Tail(a)) = g.count - 1
        BY <2>5, <2>6, <3>5, <3>6
      <4>2. ASSUME NEW k \in 1 .. Len(Tail(a))
            PROVE  Tail(a)[k].what = "tag" /\ Tail(a)[k].tag.type = g.subtype
        <5>1. k + 1 \in 1 .. Len(a)
          BY <3>6
        <5> QED
          BY <2>6, <3>5, <3>6, <5>1
      <4>3. g.type # TAG_COMPOUND
        BY <3>5 DEF TAG_LIST, TAG_COMPOUND
      <4> QED
        BY <4>1, <4>2, <4>3 DEF Remains
    <3>9. PICK q : q = Tail(a) \o b
      OBVIOUS
    <3>10. stack' = <<g>> \o s
      BY <2>4, <2>8, <3>1, <3>2
    <3>11. Matches(Entry(T), q, stack')
      <4>1. PICK C : C = Call(R) \cup {g}
        OBVIOUS
      <4>2. g \in C /\ s \in Seq(C)
        BY <2>4, <4>1, SeqWider
      <4>3. Matches(Entry(T), b, s)
        BY <2>2, <2>4
      <4> QED
        BY <2>2, <3>6, <3>8, <3>9, <3>10, <4>2, <4>3, MatchesPush
    <3>12. h[i].left # <<>> /\ Head(h[i].left) = Head(a) /\ Tail(h[i].left) = q
      BY <2>2, <3>6, <3>9, FirstOfTwo
    <3>13. AtTag(T, h[i])'
      BY <1>1, <2>2, <2>4, <2>8, <3>7, <3>11, <3>12 DEF AtTag
    <3> QED
      BY <2>2, <2>8, <3>13 DEF Aligned
  <2> QED
    BY <1>3, <2>1, <2>7, <2>8 DEF ListItem, ReturnTag
<1> QED
  BY <1>2, <1>3

\* The entries of a compound, and its end.
LEMMA NodesRemain ==
  ASSUME NEW T, Sound(T), NEW t \in T, t.type = TAG_COMPOUND, NEW f, f.type = TAG_COMPOUND,
         NEW p, p = Parts(ATag(t)), p \in Seq(Entry(T))
  PROVE  Remains(f, p)
<1>1. TagOver(T, t) /\ ShortKeys(t.items)
  BY DEF Sound, Closed, Readable
<1>2. PICK c : c = [i \in DOMAIN t.items |-> ANode(t.items[i])]
  OBVIOUS
<1>3. p = Append(c, TheEnd) /\ t.items \in Seq(Node(T))
  BY <1>1, <1>2, CompoundLies
<1>4. PICK m \in Nat : m = Len(t.items) /\ DOMAIN t.items = 1 .. m
  BY <1>3
<1>5. ASSUME NEW i \in 1 .. m PROVE ANode(t.items[i]) \in Entry(T) /\ ShortNode(ANode(t.items[i]))
  <2>1. t.items[i] \in Node(T) /\ Len(t.items[i].key) < 65536
    BY <1>1, <1>3, <1>4 DEF ShortKeys
  <2>2. ANode(t.items[i]) \in Entry(T) /\ ANode(t.items[i]).what = "node"
        /\ ANode(t.items[i]).key = t.items[i].key
    BY <2>1 DEF Node, ANode, Entry
  <2> QED
    BY <2>1, <2>2 DEF ShortNode
<1>6. c \in Seq(Entry(T)) /\ Len(c) = m /\ \A i \in 1 .. m : ShortNode(c[i])
  <2>1. c \in [1 .. m -> Entry(T)] /\ \A i \in 1 .. m : ShortNode(c[i])
    BY <1>2, <1>4, <1>5
  <2> QED
    BY <1>4, <2>1
<1>7. TheEnd \in Entry(T)
  BY DEF Entry
<1>8. /\ Len(p) = m + 1 /\ p[m + 1] = TheEnd /\ \A i \in 1 .. m : p[i] = c[i]
  BY <1>3, <1>6, <1>7, AppendProperties
<1>9. p # <<>> /\ Len(p) - 1 = m
  BY <1>4, <1>8
<1>10. f.type # TAG_LIST
  BY DEF TAG_LIST, TAG_COMPOUND
<1> QED
  BY <1>6, <1>8, <1>9, <1>10 DEF Remains

\* A compound that begins is to read the nodes and the end the track has.
LEMMA CompoundAligned ==
  ASSUME NEW R, NEW T, NEW u, NEW n, NEW h, NEW F, Tracked(R, T, u, n, h, F), ParseCompound
  PROVE  Aligned(T, h)'
<1>1. /\ pc = "parse" /\ arg = TAG_COMPOUND /\ at' = at /\ pc' = "node"
      /\ stack' = <<Frame(TAG_COMPOUND, TAG_END, 0, <<>>, <<>>)>> \o stack
  BY DEF ParseCompound, Parsing
<1>2. PICK t, r, j : TagHere(T, h, F, t, r, j)
  BY <1>1, HereTag DEF Tracked
<1>3. /\ t.type = TAG_COMPOUND /\ TagOver(T, t) /\ t \in T
      /\ r \in Seq(Entry(T)) /\ j \in 1 .. Len(h) /\ Matches(Entry(T), r, stack)
      /\ h[j].pos = at + Len(TagBytes(t)) /\ h[j].left = Parts(ATag(t)) \o r
      /\ Parts(ATag(t)) \in Seq(Entry(T))
  BY <1>1, <1>2 DEF TagHere
<1>4. PICK s \in Seq(Call(R)) : s = stack /\ at \in Nat
  BY TrackedFacts
<1>5. h[j].pos = at'
  <2>1. TagBytes(t) = <<>>
    BY <1>3, CompoundLies
  <2>2. Len(TagBytes(t)) = 0
    BY <2>1
  <2> QED
    BY <1>1, <1>3, <1>4, <2>2
<1>6. PICK f : f = Frame(TAG_COMPOUND, TAG_END, 0, <<>>, <<>>)
  OBVIOUS
<1>7. f.type = TAG_COMPOUND
  BY <1>6 DEF Frame
<1>8. PICK p : p = Parts(ATag(t))
  OBVIOUS
<1>9. Remains(f, p) /\ p \in Seq(Entry(T))
  <2>1. Sound(T)
    BY DEF Tracked, Whole, Track
  <2> QED
    BY <1>3, <1>7, <1>8, <2>1, NodesRemain
<1>10. Matches(Entry(T), h[j].left, stack')
  <2>1. PICK C : C = Call(R) \cup {f}
    OBVIOUS
  <2>2. f \in C /\ s \in Seq(C)
    BY <1>4, <2>1, SeqWider
  <2>3. Matches(Entry(T), r, s) /\ stack' = <<f>> \o s /\ h[j].left = p \o r
    BY <1>1, <1>3, <1>4, <1>6, <1>8
  <2> QED
    BY <1>3, <1>9, <2>2, <2>3, MatchesPush
<1> QED
  BY <1>1, <1>3, <1>5, <1>10, AlignedRest

\* What is left of a compound begins with a node or is its end.
LEMMA CompoundRemains ==
  ASSUME NEW E, NEW a \in Seq(E), NEW f, f.type = TAG_COMPOUND, Remains(f, a)
  PROVE  /\ a # <<>>
         /\ \/ Head(a) = TheEnd /\ Tail(a) = <<>>
            \/ ShortNode(Head(a)) /\ \A g : g.type = TAG_COMPOUND => Remains(g, Tail(a))
<1>1. a # <<>> /\ a[Len(a)] = TheEnd /\ \A k \in 1 .. Len(a) - 1 : ShortNode(a[k])
  BY DEF Remains
<1>2. PICK b \in Seq(E), l \in Nat :
        /\ b = Tail(a) /\ l = Len(b) /\ Len(a) = l + 1
        /\ a[1] = Head(a) /\ \A i \in 1 .. l : a[i + 1] = b[i]
  <2>1. /\ Tail(a) \in Seq(E) /\ Len(Tail(a)) \in Nat /\ Len(a) = Len(Tail(a)) + 1
        /\ a[1] = Head(a) /\ \A i \in 1 .. Len(Tail(a)) : a[i + 1] = Tail(a)[i]
    BY <1>1, FirstAndOthers
  <2> QED
    BY <2>1
<1>3. CASE l = 0
  <2>1. Head(a) = TheEnd
    BY <1>1, <1>2, <1>3
  <2>2. b = <<>>
    BY <1>2, <1>3
  <2> QED
    BY <1>1, <1>2, <2>1, <2>2
<1>4. CASE l # 0
  <2>1. ShortNode(Head(a))
    <3>1. 1 \in 1 .. Len(a) - 1
      BY <1>2, <1>4
    <3> QED
      BY <1>1, <1>2, <3>1
  <2>2. b # <<>> /\ b[l] = TheEnd
    <3>1. l \in 1 .. l /\ l + 1 = Len(a)
      BY <1>2, <1>4
    <3>2. a[l + 1] = b[l]
      BY <1>2, <3>1
    <3>3. b # <<>>
      BY <1>2, <1>4
    <3> QED
      BY <1>1, <3>1, <3>2, <3>3
  <2>3. ASSUME NEW k \in 1 .. l - 1 PROVE ShortNode(b[k])
    <3>1. k \in 1 .. l /\ k + 1 \in 1 .. Len(a) - 1
      BY <1>2
    <3> QED
      BY <1>1, <1>2, <3>1
  <2>4. ASSUME NEW g, g.type = TAG_COMPOUND PROVE Remains(g, b)
    <3>1. g.type # TAG_LIST
      BY <2>4 DEF TAG_LIST, TAG_COMPOUND
    <3> QED
      BY <1>2, <2>2, <2>3, <3>1 DEF Remains
  <2> QED
    BY <1>1, <1>2, <2>1, <2>4
<1> QED
  BY <1>3, <1>4

\* In the loop of a compound: the entry e that comes next, what is left of the compound
\* behind it, and what is left for the calls it is in.
NodeHere(T, h, F, e, c, b, j) ==
    /\ e \in Entry(T) /\ c \in Seq(Entry(T)) /\ b \in Seq(Entry(T)) /\ j \in 1 .. Len(h)
    /\ \/ e = TheEnd /\ c = <<>>
       \/ ShortNode(e) /\ \A g : g.type = TAG_COMPOUND => Remains(g, c)
    /\ BytesOf(e) \in Seq(0 .. 255) /\ Parts(e) \in Seq(Entry(T)) /\ Lies(F, at, BytesOf(e))
    /\ h[j].pos = at + Len(BytesOf(e)) /\ h[j].left = Parts(e) \o (c \o b)
    /\ Matches(Entry(T), b, Tail(stack))

\* In the loop of a compound the track has a node or the end next.
LEMMA HereNode ==
  ASSUME NEW R, NEW T, NEW u, NEW n, NEW h, NEW F, Tracked(R, T, u, n, h, F), pc = "node"
  PROVE  /\ stack # <<>> /\ Top.type = TAG_COMPOUND
         /\ \E e, c, b, j : NodeHere(T, h, F, e, c, b, j)
<1>1. stack # <<>> /\ Top.type = TAG_COMPOUND
  BY DEF Tracked, State, ParserTyped, InA
<1>2. PICK i, a, b : RestHere(T, h, i, a, b)
  BY <1>1, HereRest
<1>3. /\ i \in 1 .. Len(h) /\ a \in Seq(Entry(T)) /\ b \in Seq(Entry(T))
      /\ h[i].pos = at /\ h[i].left = a \o b
      /\ Remains(Top, a) /\ Matches(Entry(T), b, Tail(stack))
  BY <1>2 DEF RestHere
<1>4. PICK f : f = Top
  OBVIOUS
<1>5. /\ a # <<>>
      /\ \/ Head(a) = TheEnd /\ Tail(a) = <<>>
         \/ ShortNode(Head(a)) /\ \A g : g.type = TAG_COMPOUND => Remains(g, Tail(a))
  BY <1>1, <1>3, <1>4, CompoundRemains
<1>6. /\ h[i].left # <<>> /\ Head(h[i].left) = Head(a) /\ Tail(h[i].left) = Tail(a) \o b
      /\ Tail(a) \in Seq(Entry(T))
  BY <1>3, <1>5, FirstOfTwo
<1>7. Onward(T, h, F, at, Head(a), Tail(a) \o b, i + 1)
  <2>1. Onward(T, h, F, h[i].pos, Head(h[i].left), Tail(h[i].left), i + 1)
    BY <1>3, <1>6, OnwardFrom DEF Tracked
  <2> QED
    BY <1>3, <1>6, <2>1
<1>8. NodeHere(T, h, F, Head(a), Tail(a), b, i + 1)
  BY <1>3, <1>5, <1>6, <1>7 DEF NodeHere, Onward
<1> QED
  BY <1>1, <1>8

\* A key is read where the track has a node, and its value comes next.
LEMMA NodeAligned ==
  ASSUME NEW R, NEW T, NEW u, NEW n, NEW h, NEW F, Tracked(R, T, u, n, h, F), ParseNode
  PROVE  Aligned(T, h)'
<1>1. pc = "node" /\ Left > 0 /\ bytes[at + 1] # TAG_END
  BY DEF ParseNode
<1>2. CASE Fail
  BY <1>2, FailAligned
<1>3. CASE ~Fail
  <2>1. stack # <<>> /\ Top.type = TAG_COMPOUND
    BY <1>1, HereNode
  <2>2. PICK e, c, b, j : NodeHere(T, h, F, e, c, b, j)
    BY <1>1, HereNode
  <2>3. /\ e \in Entry(T) /\ c \in Seq(Entry(T)) /\ b \in Seq(Entry(T)) /\ j \in 1 .. Len(h)
        /\ Lies(F, at, BytesOf(e)) /\ BytesOf(e) \in Seq(0 .. 255)
        /\ h[j].pos = at + Len(BytesOf(e)) /\ h[j].left = Parts(e) \o (c \o b)
        /\ Matches(Entry(T), b, Tail(stack))
        /\ \/ e = TheEnd /\ c = <<>>
           \/ ShortNode(e) /\ \A g : g.type = TAG_COMPOUND => Remains(g, c)
    BY <2>2 DEF NodeHere
  <2>4. /\ bytes \in Seq(0 .. 255) /\ F \in Seq(0 .. 255) /\ Len(bytes) \in Nat /\ at \in Nat
        /\ Left = Len(bytes) - at /\ Agree(F) /\ State(R)
    BY TrackedFacts DEF Tracked
  <2>5. Sound(T)
    BY DEF Tracked, Whole, Track
  <2>6. at + 1 <= Len(bytes)
    BY <1>1, <2>4
  <2>7. e # TheEnd
    <3> SUFFICES ASSUME e = TheEnd PROVE FALSE
      OBVIOUS
    <3>1. Lies(F, at, <<TAG_END>>)
      BY <2>3, <2>4, EndLies
    <3>2. PICK z \in Seq(0 .. 255) : z = <<TAG_END>> /\ Len(z) = 1
      <4>1. TAG_END \in 0 .. 255
        BY DEF TAG_END
      <4> QED
        BY <4>1, OneByte
    <3>3. at + Len(z) <= Len(bytes)
      BY <2>6, <3>2
    <3>4. Lies(bytes, at, z)
      BY <2>4, <3>1, <3>2, <3>3, FoundAhead
    <3> QED
      BY <1>1, <3>2, <3>4, OneLies
  <2>8. e.what = "node" /\ Len(e.key) < 65536 /\ \A g : g.type = TAG_COMPOUND => Remains(g, c)
    BY <2>3, <2>7 DEF ShortNode
  <2>9. /\ e.tag \in T /\ e.key \in Seq(0 .. 255) /\ e.tag.type \in 1 .. 11
        /\ Lies(F, at, <<e.tag.type>>) /\ Lies(F, at + 1, StringBytes(e.key))
        /\ Len(BytesOf(e)) = 3 + Len(e.key) /\ Parts(e) = <<ATag(e.tag)>>
    BY <2>3, <2>4, <2>5, <2>8, NodeLies
  <2>10. PICK k : k = Unsigned(SubSeq(bytes, at + 2, at + 3))
    OBVIOUS
  <2>11. /\ ~(Left < 3) /\ pc' = "parse" /\ arg' = bytes[at + 1] /\ at' = at + 3 + k
         /\ stack' = <<[Top EXCEPT !.key = SubSeq(bytes, at + 4, at + 3 + k)]>> \o Tail(stack)
    BY <1>3, <2>10 DEF ParseNode
  <2>12. at + 3 <= Len(bytes)
    BY <2>4, <2>11
  <2>13. arg' = e.tag.type
    <3>1. PICK z \in Seq(0 .. 255) : z = <<e.tag.type>> /\ Len(z) = 1
      <4>1. e.tag.type \in 0 .. 255
        BY <2>9
      <4> QED
        BY <4>1, OneByte
    <3>2. at + Len(z) <= Len(bytes)
      BY <2>6, <3>1
    <3>3. Lies(bytes, at, z)
      BY <2>4, <2>9, <3>1, <3>2, FoundAhead
    <3> QED
      BY <2>11, <3>1, <3>3, OneLies
  <2>14. PICK m \in Nat : m = Len(e.key) /\ m < 65536
    BY <2>8, <2>9, LenProperties
  <2>15. k = m
    <3>1. PICK z \in Seq(0 .. 255) : z = BigEndian(m, 2) /\ Len(z) = 2
      BY <2>14, BigEndianBytes
    <3>2. PICK p \in Nat : p = at + 1
      BY <2>4
    <3>3. Lies(F, p, z)
      BY <2>4, <2>9, <2>14, <3>1, <3>2, StringLies
    <3>4. p + 2 <= Len(bytes) /\ p + 1 = at + 2 /\ p + 2 = at + 3
      BY <2>4, <2>12, <3>2
    <3>5. p + Len(z) <= Len(bytes)
      BY <3>1, <3>4
    <3>6. SubSeq(bytes, p + 1, p + Len(z)) = z
      BY <2>4, <3>3, <3>5, FoundAhead
    <3>7. k = Unsigned(z)
      BY <2>10, <3>1, <3>4, <3>6
    <3>8. Unsigned(BigEndian(m, 2)) = m
      BY <2>14, TwoBytes
    <3> QED
      BY <3>1, <3>7, <3>8
  <2>16. h[j].pos = at'
    <3>1. at' = at + 3 + m /\ h[j].pos = at + (3 + m)
      BY <2>3, <2>9, <2>11, <2>14, <2>15
    <3> QED
      BY <2>4, <3>1
  <2>17. PICK f \in Call(R), s \in Seq(Call(R)) : f = Top /\ s = Tail(stack)
    BY <2>1, <2>4, InnerCall
  <2>18. PICK key : key = SubSeq(bytes, at + 4, at + 3 + k)
    OBVIOUS
  <2>19. PICK g : g = [f EXCEPT !.key = key]
    OBVIOUS
  <2>20. g.type = TAG_COMPOUND
    <3>1. f.type = TAG_COMPOUND
      BY <2>1, <2>17
    <3>2. g = [type |-> TAG_COMPOUND, subtype |-> TAG_END, count |-> 0, key |-> key, items |-> f.items]
      BY <2>17, <2>19, <3>1, OtherKey
    <3> QED
      BY <3>2
  <2>21. PICK q : q = c \o b
    OBVIOUS
  <2>22. Matches(Entry(T), q, stack') /\ q \in Seq(Entry(T))
    <3>1. PICK C : C = Call(R) \cup {g}
      OBVIOUS
    <3>2. g \in C /\ s \in Seq(C)
      BY <2>17, <3>1, SeqWider
    <3>3. stack' = <<g>> \o s /\ Matches(Entry(T), b, s) /\ Remains(g, c)
      <4>1. stack' = <<g>> \o s
        BY <2>11, <2>17, <2>18, <2>19
      <4>2. Matches(Entry(T), b, s)
        BY <2>3, <2>17
      <4>3. Remains(g, c)
        BY <2>8, <2>20
      <4> QED
        BY <4>1, <4>2, <4>3
    <3>4. Matches(Entry(T), q, stack')
      BY <2>3, <2>21, <3>2, <3>3, MatchesPush
    <3> QED
      BY <2>3, <2>21, <3>4, ConcatProperties
  <2>23. PICK d : d = ATag(e.tag)
    OBVIOUS
  <2>24. d \in Entry(T) /\ d.what = "tag" /\ d.tag.type = arg' /\ h[j].left = <<d>> \o q
    BY <2>3, <2>9, <2>13, <2>21, <2>23 DEF ATag, Entry
  <2> QED
    BY <2>3, <2>11, <2>16, <2>22, <2>24, AlignedTag
<1> QED
  BY <1>2, <1>3

\* The compound ends where the track has its end.
LEMMA CompoundEndAligned ==
  ASSUME NEW R, NEW T, NEW u, NEW n, NEW h, NEW F, Tracked(R, T, u, n, h, F), ParseCompoundEnd
  PROVE  Aligned(T, h)'
<1>1. pc = "node" /\ (Left > 0 => bytes[at + 1] = TAG_END) /\ stack' = Tail(stack)
  BY DEF ParseCompoundEnd
<1>2. CASE Fail
  BY <1>2, FailAligned
<1>3. CASE ~Fail
  <2>1. /\ Left # 0 /\ at' = at + 1
        /\ ReturnTag([type |-> TAG_COMPOUND, items |-> Top.items])
    BY <1>3 DEF ParseCompoundEnd
  <2>2. PICK e, c, b, j : NodeHere(T, h, F, e, c, b, j)
    BY <1>1, HereNode
  <2>3. /\ e \in Entry(T) /\ c \in Seq(Entry(T)) /\ b \in Seq(Entry(T)) /\ j \in 1 .. Len(h)
        /\ Lies(F, at, BytesOf(e)) /\ BytesOf(e) \in Seq(0 .. 255)
        /\ h[j].pos = at + Len(BytesOf(e)) /\ h[j].left = Parts(e) \o (c \o b)
        /\ Matches(Entry(T), b, Tail(stack))
        /\ \/ e = TheEnd /\ c = <<>>
           \/ ShortNode(e) /\ \A g : g.type = TAG_COMPOUND => Remains(g, c)
    BY <2>2 DEF NodeHere
  <2>4. /\ bytes \in Seq(0 .. 255) /\ F \in Seq(0 .. 255) /\ Len(bytes) \in Nat /\ at \in Nat
        /\ Left = Len(bytes) - at /\ at <= Len(bytes) /\ Agree(F)
    BY TrackedFacts DEF Tracked
  <2>5. Sound(T)
    BY DEF Tracked, Whole, Track
  <2>6. at + 1 <= Len(bytes) /\ bytes[at + 1] = TAG_END
    BY <1>1, <2>1, <2>4
  <2>7. ~ShortNode(e)
    <3> SUFFICES ASSUME ShortNode(e) PROVE FALSE
      OBVIOUS
    <3>1. e.what = "node"
      BY DEF ShortNode
    <3>2. e.tag.type \in 1 .. 11 /\ Lies(F, at, <<e.tag.type>>)
      BY <2>3, <2>4, <2>5, <3>1, NodeLies
    <3>3. PICK z \in Seq(0 .. 255) : z = <<e.tag.type>> /\ Len(z) = 1
      <4>1. e.tag.type \in 0 .. 255
        BY <3>2
      <4> QED
        BY <4>1, OneByte
    <3>4. at + Len(z) <= Len(bytes)
      BY <2>6, <3>3
    <3>5. Lies(bytes, at, z)
      BY <2>4, <3>2, <3>3, <3>4, FoundAhead
    <3>6. e.tag.type = TAG_END
      BY <2>6, <3>3, <3>5, OneLies
    <3> QED
      BY <3>2, <3>6 DEF TAG_END
  <2>8. e = TheEnd /\ c = <<>>
    BY <2>3, <2>7
  <2>9. Len(BytesOf(e)) = 1 /\ Parts(e) = <<>>
    BY <2>3, <2>4, <2>8, EndLies
  <2>10. h[j].pos = at' /\ h[j].left = b
    <3>1. \A x \in Seq(Entry(T)) : <<>> \o x = x
      BY ConcatEmptySeq
    <3> QED
      BY <2>1, <2>3, <2>8, <2>9, <3>1
  <2>11. Matches(Entry(T), h[j].left, stack') /\ pc' \in {"node", "return"}
    BY <1>1, <2>1, <2>3, <2>10 DEF ReturnTag
  <2> QED
    BY <2>3, <2>10, <2>11, AlignedRest
<1> QED
  BY <1>2, <1>3

\* What is left for a compound is left for it with one more item.
LEMMA SameRemains ==
  ASSUME NEW f, NEW g, f.type = TAG_COMPOUND, g.type = TAG_COMPOUND, NEW a, Remains(f, a)
  PROVE  Remains(g, a)
  BY DEF Remains, TAG_LIST, TAG_COMPOUND

\* With a value done, the loop goes on with what else the track has.
LEMMA CompoundItemAligned ==
  ASSUME NEW R, NEW T, NEW u, NEW n, NEW h, NEW F, Tracked(R, T, u, n, h, F), CompoundItem
  PROVE  Aligned(T, h)'
<1>1. pc = "return" /\ at' = at /\ stack # <<>> /\ Top.type = TAG_COMPOUND
  BY DEF CompoundItem, InA
<1>2. CASE arg = Nil
  <2>1. Fail
    BY <1>2 DEF CompoundItem
  <2> QED
    BY <2>1, FailAligned
<1>3. CASE arg # Nil
  <2>1. /\ pc' = "node"
        /\ stack' = <<[Top EXCEPT !.items = SetKey(@, Top.key, arg)]>> \o Tail(stack)
    BY <1>3 DEF CompoundItem
  <2>2. PICK i, a, b : RestHere(T, h, i, a, b)
    BY <1>1, <1>3, HereRest
  <2>3. /\ i \in 1 .. Len(h) /\ a \in Seq(Entry(T)) /\ b \in Seq(Entry(T))
        /\ h[i].pos = at /\ h[i].left = a \o b
        /\ Remains(Top, a) /\ Matches(Entry(T), b, Tail(stack))
    BY <2>2 DEF RestHere
  <2>4. State(R)
    BY DEF Tracked
  <2>5. PICK f \in Call(R), s \in Seq(Call(R)) : f = Top /\ s = Tail(stack)
    BY <1>1, <2>4, InnerCall
  <2>6. PICK items : items = SetKey(f.items, f.key, arg)
    OBVIOUS
  <2>7. PICK g : g = [f EXCEPT !.items = items]
    OBVIOUS
  <2>8. f.type = TAG_COMPOUND
    BY <1>1, <2>5
  <2>9. g.type = TAG_COMPOUND
    <3>1. g = [type |-> TAG_COMPOUND, subtype |-> TAG_END, count |-> 0, key |-> f.key, items |-> items]
      BY <2>5, <2>7, <2>8, OtherItems
    <3> QED
      BY <3>1
  <2>10. stack' = <<g>> \o s
    BY <2>1, <2>5, <2>6, <2>7
  <2>11. Remains(g, a)
    <3>1. Remains(f, a)
      BY <2>3, <2>5
    <3> QED
      BY <2>8, <2>9, <3>1, SameRemains
  <2>12. PICK q : q = a \o b
    OBVIOUS
  <2>13. Matches(Entry(T), q, stack')
    <3>1. PICK C : C = Call(R) \cup {g}
      OBVIOUS
    <3>2. g \in C /\ s \in Seq(C)
      BY <2>5, <3>1, SeqWider
    <3>3. Matches(Entry(T), b, s)
      BY <2>3, <2>5
    <3> QED
      BY <2>3, <2>10, <2>11, <2>12, <3>2, <3>3, MatchesPush
  <2>14. h[i].pos = at' /\ Matches(Entry(T), h[i].left, stack') /\ pc' \in {"node", "return"}
    BY <1>1, <2>1, <2>3, <2>12, <2>13
  <2> QED
    BY <2>3, <2>14, AlignedRest
<1> QED
  BY <1>2, <1>3

\* The root's type and the name lead to the first step.
LEMMA StartAligned ==
  ASSUME NEW R, State(R), NEW T, NEW u, NEW n, NEW h, NEW F, Whole(T, u, n, h, F), Agree(F),
         ParseStart
  PROVE  Aligned(T, h)'
<1>1. CASE pc' = "failed"
  BY <1>1, AlignedElse
<1>2. CASE pc' # "failed"
  <2>1. PICK k : k = Unsigned(SubSeq(bytes, 2, 3))
    OBVIOUS
  <2>2. /\ ~(Len(bytes) < 4) /\ pc' = "parse" /\ arg' = bytes[1] /\ at' = 3 + k /\ stack' = <<>>
    BY <1>2, <2>1 DEF ParseStart
  <2>3. /\ bytes \in Seq(0 .. 255) /\ Len(bytes) \in Nat
    BY LenProperties DEF State, FileTyped
  <2>0. Len(bytes) >= 4
    BY <2>2, <2>3
  <2>4. /\ Sound(T) /\ u \in T /\ n \in Seq(0 .. 255) /\ Len(n) < 65536 /\ F \in Seq(0 .. 255)
        /\ Lies(F, 0, <<u.type>>) /\ Lies(F, 1, StringBytes(n))
        /\ h \in Seq(Stamp(T)) /\ h # <<>> /\ h[1] = [left |-> <<ATag(u)>>, pos |-> 3 + Len(n)]
    BY DEF Whole, Track, Headed
  <2>5. 1 \in 1 .. Len(h)
    BY <2>4
  <2>6. u.type \in 0 .. 255
    <3>1. TagOver(T, u)
      BY <2>4 DEF Sound, Closed
    <3>2. u.type \in Scalar \cup Array \cup {TAG_STRING} \cup Container
      BY <3>1, TagKinds
    <3> QED
      BY <3>2, TypeBytes
  <2>7. arg' = u.type
    <3>1. PICK z \in Seq(0 .. 255) : z = <<u.type>> /\ Len(z) = 1
      BY <2>6, OneByte
    <3>2. PICK p \in Nat : p = 0
      OBVIOUS
    <3>3. p + Len(z) <= Len(bytes) /\ p + 1 = 1 /\ Lies(F, p, z)
      BY <2>0, <2>3, <2>4, <3>1, <3>2
    <3>4. Lies(bytes, p, z)
      <4>1. F \in Seq(0 .. 255)
        BY <2>4
      <4>2. p + Len(z) <= Len(bytes) /\ Lies(F, p, z)
        BY <3>3
      <4> QED
        BY <2>3, <4>1, <4>2, FoundAhead
    <3>5. bytes[p + 1] = u.type
      BY <3>1, <3>4, OneLies
    <3> QED
      BY <2>2, <3>3, <3>5
  <2>8. PICK m \in Nat : m = Len(n) /\ m < 65536
    BY <2>4, LenProperties
  <2>9. k = m
    <3>1. PICK z \in Seq(0 .. 255) : z = BigEndian(m, 2) /\ Len(z) = 2
      BY <2>8, BigEndianBytes
    <3>2. PICK p \in Nat : p = 1
      OBVIOUS
    <3>3. Lies(F, p, z)
      BY <2>4, <2>8, <3>1, <3>2, StringLies
    <3>4. p + Len(z) <= Len(bytes) /\ p + 1 = 2 /\ p + Len(z) = 3
      <4>1. p + 2 = 3 /\ p + 1 = 2
        BY <3>2
      <4>2. Len(z) = 2
        BY <3>1
      <4>3. p + Len(z) = 3
        BY <4>1, <4>2
      <4> QED
        BY <2>0, <2>3, <4>1, <4>3
    <3>5. SubSeq(bytes, p + 1, p + Len(z)) = z
      <4>1. F \in Seq(0 .. 255)
        BY <2>4
      <4>2. p + Len(z) <= Len(bytes)
        BY <3>4
      <4> QED
        BY <2>3, <3>3, <4>1, <4>2, FoundAhead
    <3>6. Unsigned(BigEndian(m, 2)) = m
      BY <2>8, TwoBytes
    <3> QED
      BY <2>1, <3>1, <3>4, <3>5, <3>6
  <2>10. PICK d : d = ATag(u)
    OBVIOUS
  <2>11. PICK r \in Seq(Entry(T)) : r = <<>>
    <3>1. \A E : <<>> \in Seq(E)
      OBVIOUS
    <3> QED
      BY <3>1
  <2>12. d \in Entry(T) /\ d.what = "tag" /\ d.tag.type = arg'
    BY <2>4, <2>7, <2>10 DEF ATag, Entry
  <2>13. h[1].left = <<d>> \o r
    <3>1. \A x \in Seq(Entry(T)) : x \o <<>> = x
      BY ConcatEmptySeq
    <3>2. PICK x \in Seq(Entry(T)) : x = <<d>>
      <4>1. <<d>> \in Seq(Entry(T))
        BY <2>12
      <4> QED
        BY <4>1
    <3> QED
      BY <2>4, <2>10, <2>11, <3>1, <3>2
  <2>14. h[1].pos = at'
    BY <2>2, <2>4, <2>8, <2>9
  <2>15. Matches(Entry(T), r, stack')
    BY <2>2, <2>11, NothingMatches
  <2> QED
    BY <2>2, <2>5, <2>12, <2>13, <2>14, <2>15, AlignedTag
<1> QED
  BY <1>1, <1>2

-----------------------------------------------------------------------------
(* The file on disk, and the one it comes from.                            *)

\* The second pass has written the steps of a track up to here.
Filled ==
    pc = "write" => origin = Nil /\ \E T : Reached(T, root, root_name, bytes, todo)

\* A file that is not damaged is all of a tree.
Saved == origin # Nil => \E T, u, n, h : Whole(T, u, n, h, bytes)

\* The file does not begin with a type, which the parser gives up on at once.
Blunt ==
    /\ bytes[1] \notin 1 .. 11
    /\ pc # "node"
    /\ pc = "parse" => arg = bytes[1] /\ stack = <<>>
    /\ pc = "return" => arg = Nil /\ stack = <<>>

\* The file was another, of which it has as much as both are long, and the parser goes
\* through it as it would through that one.
Wrecked ==
    \E T, u, n, h, F : Whole(T, u, n, h, F) /\ Len(bytes) # Len(F) /\ Agree(F) /\ Aligned(T, h)

Trail ==
    /\ Filled /\ Saved
    /\ origin = Nil /\ bytes # <<>> /\ pc # "write" => Blunt \/ Wrecked
    /\ pc \in Reading => bytes # <<>>

\* Steps that neither write nor parse.
LEMMA TrailCalm ==
  ASSUME Trail, UNCHANGED <<bytes, origin>>, pc # "write", pc' \notin Reading \cup {"write"}
  PROVE  Trail'
<1>1. Filled' /\ Saved'
  BY DEF Trail, Filled, Saved
<1>2. ASSUME origin' = Nil, bytes' # <<>> PROVE (Blunt \/ Wrecked)'
  <2>1. Blunt \/ Wrecked
    BY <1>2 DEF Trail
  <2>2. CASE Blunt
    BY <2>2 DEF Blunt, Reading
  <2>3. CASE Wrecked
    <3>1. PICK T, u, n, h, F : Whole(T, u, n, h, F) /\ Len(bytes) # Len(F) /\ Agree(F)
      BY <2>3 DEF Wrecked
    <3>2. Aligned(T, h)'
      BY AlignedElse DEF Reading
    <3>3. Agree(F)' /\ Len(bytes') # Len(F)
      BY <3>1 DEF Agree
    <3> QED
      BY <3>1, <3>2, <3>3 DEF Wrecked
  <2> QED
    BY <2>1, <2>2, <2>3
<1> QED
  BY <1>1, <1>2 DEF Trail, Reading

\* Steps of the parser.
LEMMA TrailRead ==
  ASSUME Trail, UNCHANGED <<bytes, origin>>, bytes # <<>>,
         pc # "write", pc' # "write", Blunt => Blunt',
         \A T, u, n, h, F : Whole(T, u, n, h, F) /\ Agree(F) /\ Aligned(T, h) => Aligned(T, h)'
  PROVE  Trail'
<1>1. Filled' /\ Saved'
  BY DEF Trail, Filled, Saved
<1>2. ASSUME origin' = Nil PROVE (Blunt \/ Wrecked)'
  <2>1. Blunt \/ Wrecked
    BY <1>2 DEF Trail
  <2>3. CASE Wrecked
    <3>1. PICK T, u, n, h, F :
             Whole(T, u, n, h, F) /\ Len(bytes) # Len(F) /\ Agree(F) /\ Aligned(T, h)
      BY <2>3 DEF Wrecked
    <3>2. Aligned(T, h)'
      BY <3>1
    <3>3. Agree(F)' /\ Len(bytes') # Len(F)
      BY <3>1 DEF Agree
    <3> QED
      BY <3>1, <3>2, <3>3 DEF Wrecked
  <2> QED
    BY <2>1, <2>3
<1> QED
  BY <1>1, <1>2 DEF Trail

\* A file of which nothing was written yet has no track.
LEMMA ForgetTrail ==
  ASSUME NewFile, pc' \notin Reading \cup {"write"}
  PROVE  Trail'
  BY DEF NewFile, Trail, Filled, Saved, Reading

\* The type of the root and the name begin a track.
LEMMA WriteNameTrail ==
  ASSUME NEW T, State(T), Sound(T), Asked, WriteName
  PROVE  Trail'
<1>1. /\ pc = "measure" /\ pc' = "write" /\ bytes' = <<root.type>> \o StringBytes(root_name)
      /\ todo' = <<ATag(root)>> /\ origin' = Nil /\ root' = root /\ root_name' = root_name
  BY DEF WriteName, nbt
<1>2. root \in T /\ root_name \in Seq(0 .. 255) /\ Len(root_name) < 65536
  BY <1>1 DEF State, WriterTyped, Asked
<1>3. PICK u \in T, n \in Seq(0 .. 255) : u = root /\ n = root_name
  BY <1>2
<1>4. PICK m \in Nat : m = Len(n)
  BY LenProperties
<1>5. PICK a \in Seq(0 .. 255) : a = <<u.type>> /\ Len(a) = 1
  <2>1. TagOver(T, u)
    BY DEF Sound, Closed
  <2>2. u.type \in Scalar \cup Array \cup {TAG_STRING} \cup Container
    BY <2>1, TagKinds
  <2>3. u.type \in 0 .. 255
    BY <2>2, TypeBytes
  <2> QED
    BY <2>3, OneByte
<1>6. PICK b \in Seq(0 .. 255) : b = StringBytes(n) /\ Len(b) = 2 + m
  BY <1>4, StringCounted
<1>7. PICK F \in Seq(0 .. 255) : F = a \o b /\ Len(F) = 3 + m
  <2>1. a \o b \in Seq(0 .. 255) /\ Len(a \o b) = Len(a) + Len(b)
    BY MoreBytes
  <2>2. Len(a) + Len(b) = 3 + m
    BY <1>5, <1>6
  <2> QED
    BY <2>1, <2>2
<1>8. Headed(F, u, n)
  <2>1. PICK p \in Nat : p = 0
    OBVIOUS
  <2>2. PICK q \in Nat : q = Len(a)
    BY <1>5
  <2>3. \A k \in 1 .. 1 : p + k = k
    BY <2>1
  <2>4. Lies(a, p, a)
    BY <1>5, <2>1, <2>3 DEF Lies
  <2>5. Lies(F, p, a)
    BY <1>5, <1>7, <2>4, LiesFurther
  <2>6. Lies(F, q, b)
    BY <1>7, <2>2, LiesBehind
  <2> QED
    BY <1>5, <1>6, <2>1, <2>2, <2>5, <2>6 DEF Headed
<1>9. PICK s : s = [left |-> <<ATag(u)>>, pos |-> 3 + Len(n)]
  OBVIOUS
<1>10. s \in Stamp(T) /\ s.pos = Len(F) /\ s.left = <<ATag(u)>>
  <2>1. ATag(u) \in Entry(T)
    BY DEF ATag, Entry
  <2> QED
    BY <1>4, <1>7, <1>9, <2>1 DEF Stamp
<1>11. PICK h \in Seq(Stamp(T)) : h = <<s>> /\ Len(h) = 1 /\ h[1] = s /\ h # <<>>
  <2>1. <<s>> \in Seq(Stamp(T)) /\ Len(<<s>>) = 1 /\ <<s>>[1] = s /\ <<s>> # <<>>
    BY <1>10
  <2> QED
    BY <2>1
<1>12. 1 .. Len(h) - 1 = {}
  BY <1>11
<1>13. Track(T, u, n, h, F)
  BY <1>2, <1>3, <1>7, <1>8, <1>9, <1>10, <1>11, <1>12 DEF Track
<1>14. F = bytes' /\ h[Len(h)].left = todo'
  BY <1>1, <1>3, <1>5, <1>6, <1>7, <1>10, <1>11
<1>15. Track(T, root', root_name', h, bytes')
  BY <1>1, <1>3, <1>13, <1>14
<1>16. Filled'
  BY <1>1, <1>14, <1>15 DEF Filled, Reached
<1> QED
  BY <1>1, <1>16 DEF Trail, Saved, Reading

\* Writing what is next leads one step on.
LEMMA ReachedOn ==
  ASSUME NEW T, NEW u, NEW n, NEW F, NEW s, Reached(T, u, n, F, s), s # <<>>
  PROVE  Reached(T, u, n, F \o BytesOf(Head(s)), Parts(Head(s)) \o Tail(s))
<1>1. PICK h : Track(T, u, n, h, F) /\ h[Len(h)].left = s
  BY DEF Reached
<1>2. h \in Seq(Stamp(T)) /\ h # <<>>
  BY <1>1 DEF Track
<1>3. Len(h) \in 1 .. Len(h)
  BY <1>2
<1>4. h[Len(h)] \in Stamp(T)
  BY <1>2, <1>3, ElementOfSeq
<1>5. PICK l \in Seq(Entry(T)) : l = s
  BY <1>1, <1>4 DEF Stamp
<1>6. h[Len(h)].left = l /\ l # <<>>
  BY <1>1, <1>5
<1>7. Reached(T, u, n, F \o BytesOf(Head(l)), Parts(Head(l)) \o Tail(l))
  BY <1>1, <1>5, <1>6, TrackOn
<1> QED
  BY <1>5, <1>7

\* What the second pass writes of a tag is one more step.
LEMMA WriteTagTrail ==
  ASSUME Trail, WriteTag
  PROVE  Trail'
<1>1. /\ pc = "write" /\ pc' = "write" /\ todo # <<>> /\ UNCHANGED <<root, root_name, origin>>
      /\ bytes' = bytes \o BytesOf(Head(todo)) /\ todo' = Parts(Head(todo)) \o Tail(todo)
  BY DEF WriteTag, nbt
<1>2. PICK T : Reached(T, root, root_name, bytes, todo)
  BY <1>1 DEF Trail, Filled
<1>3. origin = Nil
  BY <1>1 DEF Trail, Filled
<1>4. Reached(T, root', root_name', bytes', todo')
  BY <1>1, <1>2, ReachedOn
<1>5. Filled' /\ origin' = Nil
  BY <1>1, <1>3, <1>4 DEF Filled
<1> QED
  BY <1>1, <1>5 DEF Trail, Saved, Reading

\* A file that was written to its end has a track that leads to the end.
LEMMA WrittenTrail ==
  ASSUME Fits, Trail, Written
  PROVE  Trail'
<1>1. /\ pc = "write" /\ pc' = "idle" /\ todo = <<>> /\ UNCHANGED bytes
      /\ origin' = [name |-> root_name, root |-> root]
  BY DEF Written
<1>2. PICK T, h : Track(T, root, root_name, h, bytes) /\ h[Len(h)].left = <<>>
  BY <1>1 DEF Trail, Filled, Reached
<1>3. Whole(T, root, root_name, h, bytes')
  BY <1>1, <1>2 DEF Whole
<1>4. Saved' /\ Filled'
  BY <1>1, <1>3 DEF Saved, Filled
<1>5. origin' # Nil
  BY <1>1 DEF Fits
<1> QED
  BY <1>1, <1>4, <1>5 DEF Trail, Reading

\* A damaged file differs from the one it was in its length or in its first byte.
LEMMA DamageTrail ==
  ASSUME Trail, Damage
  PROVE  Trail'
<1>1. /\ pc = "idle" /\ pc' = "idle" /\ origin # Nil /\ origin' = Nil
      /\ \/ \E k \in {k \in Cuts : k < Len(bytes)} : bytes' = SubSeq(bytes, 1, k)
         \/ \E x \in Extra : bytes' = Append(bytes, x)
         \/ \E x \in Alien : bytes' = [bytes EXCEPT ![1] = x]
  BY DEF Damage, Idle
<1>2. PICK T, u, n, h, F : Whole(T, u, n, h, F) /\ F = bytes
  BY <1>1 DEF Trail, Saved
<1>3. /\ F \in Seq(0 .. 255) /\ Len(F) \in Nat /\ Lies(F, 0, <<u.type>>)
  BY <1>2, LenProperties DEF Whole, Track, Headed
<1>4. PICK l \in Nat : l = Len(F) /\ DOMAIN F = 1 .. l
  BY <1>3
<1>5. Aligned(T, h)'
  BY <1>1, AlignedElse
<1>6. ASSUME Len(bytes') # Len(F), Agree(F)' PROVE (Blunt \/ Wrecked)'
  BY <1>2, <1>5, <1>6 DEF Wrecked
<1>7. ASSUME \E k \in {k \in Cuts : k < Len(bytes)} : bytes' = SubSeq(bytes, 1, k)
      PROVE  (Blunt \/ Wrecked)'
  <2>1. PICK k \in Nat : k < l /\ bytes' = SubSeq(F, 1, k)
    BY <1>2, <1>4, <1>7, BytesAssumption
  <2>2. k <= Len(F) /\ 1 \in Nat /\ k = k - 1 + 1
    BY <1>4, <2>1
  <2>3. Part(F, 1, k, k)
    BY <1>3, <2>2 DEF Part
  <2>4. PICK c \in Seq(0 .. 255) : c = bytes' /\ Len(c) = k
    BY <2>1, <2>3, SomeBytes DEF Octets
  <2>5. ASSUME NEW i \in 1 .. k PROVE c[i] = F[i]
    <3>1. \A m \in Nat : m = k => SubSeq(F, 1, m)[i] = F[i]
      BY <1>3
    <3> QED
      BY <2>1, <2>4, <3>1
  <2>6. Len(bytes') # Len(F)
    BY <1>4, <2>1, <2>4
  <2>7. Agree(F)'
    BY <2>4, <2>5 DEF Agree
  <2> QED
    BY <1>6, <2>6, <2>7
<1>8. ASSUME \E x \in Extra : bytes' = Append(bytes, x)
      PROVE  (Blunt \/ Wrecked)'
  <2>1. PICK x \in 0 .. 255 : bytes' = Append(F, x)
    BY <1>2, <1>8, BytesAssumption
  <2>2. Len(bytes') = l + 1 /\ \A i \in 1 .. l : bytes'[i] = F[i]
    BY <1>3, <1>4, <2>1, AppendProperties
  <2>3. Len(bytes') # Len(F)
    BY <1>4, <2>2
  <2>4. Agree(F)'
    <3>1. ASSUME NEW i \in 1 .. Len(bytes'), i <= Len(F) PROVE bytes'[i] = F[i]
      <4>1. i \in 1 .. l
        BY <1>4, <2>2, <3>1
      <4> QED
        BY <2>2, <4>1
    <3> QED
      BY <3>1 DEF Agree
  <2> QED
    BY <1>6, <2>3, <2>4
<1>9. ASSUME \E x \in Alien : bytes' = [bytes EXCEPT ![1] = x]
      PROVE  (Blunt \/ Wrecked)'
  <2>1. PICK x \in Alien : bytes' = [F EXCEPT ![1] = x]
    BY <1>2, <1>9
  <2>2. x \notin 1 .. 11
    BY BytesAssumption
  <2>3. 1 \in DOMAIN F
    <3>1. PICK z : z = <<u.type>>
      OBVIOUS
    <3>2. Len(z) = 1
      BY <3>1
    <3>3. 0 + 1 <= Len(F)
      BY <1>3, <3>1, <3>2 DEF Lies
    <3> QED
      BY <1>4, <3>3
  <2>4. bytes'[1] = x
    BY <2>1, <2>3
  <2>5. Blunt'
    BY <1>1, <2>2, <2>4 DEF Blunt
  <2> QED
    BY <2>5
<1>10. (Blunt \/ Wrecked)'
  BY <1>1, <1>7, <1>8, <1>9
<1> QED
  BY <1>1, <1>10 DEF Trail, Filled, Saved, Reading

\* A file that does not begin with a type is given up on.
LEMMA BluntStep ==
  ASSUME NEW R, State(R), Blunt, UNCHANGED bytes, pc \in Reading,
         \/ ParseUnknown \/ ParseScalar \/ ParseArray \/ ParseText \/ ParseList \/ ListItem
         \/ ParseCompound \/ ParseNode \/ ParseCompoundEnd \/ CompoundItem
  PROVE  Blunt'
<1>1. CASE ParseUnknown
  <2>1. pc = "parse" /\ stack' = stack /\ pc' = "return" /\ arg' = Nil
    BY <1>1 DEF ParseUnknown, Fail, ReturnTag
  <2> QED
    BY <2>1 DEF Blunt
<1>2. CASE ParseScalar \/ ParseArray \/ ParseText \/ ParseList \/ ParseCompound
  <2>1. pc = "parse" /\ arg \in Scalar \cup Array \cup {TAG_STRING} \cup Container
    BY <1>2 DEF ParseScalar, ParseArray, ParseText, ParseList, ParseCompound, Parsing, Container
  <2>2. arg \in 1 .. 11
    BY <2>1, TypeBytes
  <2> QED
    BY <2>1, <2>2 DEF Blunt
<1>3. CASE ParseNode \/ ParseCompoundEnd
  BY <1>3 DEF ParseNode, ParseCompoundEnd, Blunt
<1>4. CASE ListItem \/ CompoundItem
  <2>1. pc = "return" /\ stack # <<>>
    BY <1>4 DEF ListItem, CompoundItem, InA
  <2> QED
    BY <2>1 DEF Blunt
<1> QED
  BY <1>1, <1>2, <1>3, <1>4

\* Whatever a step of the parser does, it goes on as in the file that was damaged.
LEMMA ParsedTrail ==
  ASSUME NEW R, State(R), Trail,
         \/ ParseUnknown \/ ParseScalar \/ ParseArray \/ ParseText \/ ParseList \/ ListItem
         \/ ParseCompound \/ ParseNode \/ ParseCompoundEnd \/ CompoundItem
  PROVE  Trail'
<1>1. Unread /\ pc \in Reading
  BY DEF ParseUnknown, ParseScalar, ParseArray, ParseText, ParseList, ListItem, ParseCompound,
         ParseNode, ParseCompoundEnd, CompoundItem, Parsing, Unread, Reading
<1>2. pc' \in Reading \cup {"crashed"}
  BY DEF ParseUnknown, ParseScalar, ParseArray, ParseText, ParseList, ListItem, ParseCompound,
         ParseNode, ParseCompoundEnd, CompoundItem, Fail, ReturnTag, Reading
<1>3. UNCHANGED <<bytes, origin>> /\ bytes # <<>>
  BY <1>1 DEF Unread, Trail
<1>4. ASSUME NEW T, NEW u, NEW n, NEW h, NEW F, Whole(T, u, n, h, F), Agree(F), Aligned(T, h)
      PROVE  Aligned(T, h)'
  <2>1. Tracked(R, T, u, n, h, F)
    BY <1>1, <1>4 DEF Tracked
  <2>2. CASE ParseUnknown
    <3>1. Fail
      BY <2>2 DEF ParseUnknown
    <3> QED
      BY <3>1, FailAligned
  <2>3. CASE ParseScalar
    BY <2>1, <2>3, ScalarAligned
  <2>4. CASE ParseArray
    BY <2>1, <2>4, ArrayAligned
  <2>5. CASE ParseText
    BY <2>1, <2>5, TextAligned
  <2>6. CASE ParseList
    BY <2>1, <2>6, ListAligned
  <2>7. CASE ListItem
    BY <2>1, <2>7, ListItemAligned
  <2>8. CASE ParseCompound
    BY <2>1, <2>8, CompoundAligned
  <2>9. CASE ParseNode
    BY <2>1, <2>9, NodeAligned
  <2>10. CASE ParseCompoundEnd
    BY <2>1, <2>10, CompoundEndAligned
  <2>11. CASE CompoundItem
    BY <2>1, <2>11, CompoundItemAligned
  <2> QED
    BY <2>2, <2>3, <2>4, <2>5, <2>6, <2>7, <2>8, <2>9, <2>10, <2>11
<1>5. Blunt => Blunt'
  BY <1>1, <1>3, BluntStep
<1>6. pc # "write" /\ pc' # "write"
  BY <1>1, <1>2 DEF Reading
<1> QED
  BY <1>3, <1>4, <1>5, <1>6, TrailRead

\* The parser starts on the track of the file it has, or of the one that was damaged.
LEMMA StartTrail ==
  ASSUME NEW R, State(R), Trail, ParseStart
  PROVE  Trail'
<1>1. /\ pc = "idle" /\ bytes # <<>> /\ UNCHANGED <<bytes, origin>> /\ pc' \in {"failed", "parse"}
      /\ pc' = "parse" => arg' = bytes[1] /\ stack' = <<>>
  BY DEF ParseStart, Idle
<1>2. ASSUME NEW T, NEW u, NEW n, NEW h, NEW F, Whole(T, u, n, h, F), Agree(F), Aligned(T, h)
      PROVE  Aligned(T, h)'
  BY <1>2, StartAligned
<1>3. Blunt => Blunt'
  BY <1>1 DEF Blunt
<1>4. pc # "write" /\ pc' # "write"
  BY <1>1
<1> QED
  BY <1>1, <1>2, <1>3, <1>4, TrailRead

\* Every step keeps to the track.
LEMMA TrailStep ==
  ASSUME Fits, NEW T, State(T), Sound(T), Asked, Trail, [Next]_vars
  PROVE  Trail'
<1>1. CASE \E n \in Names : SetName(n)
  <2>1. NewFile /\ pc' = "idle"
    BY <1>1 DEF SetName, Idle
  <2> QED
    BY <2>1, ForgetTrail DEF Reading
<1>2. CASE \E t \in Trees : SetRoot(t)
  <2>1. NewFile /\ pc' = "idle"
    BY <1>2 DEF SetRoot, Idle
  <2> QED
    BY <2>1, ForgetTrail DEF Reading
<1>3. CASE WriteStart \/ Measure \/ ParseEnd \/ GoOn
  <2>1. UNCHANGED <<bytes, origin>> /\ pc # "write" /\ pc' \in {"measure", "idle", "failed"}
    BY <1>3 DEF WriteStart, Measure, ParseEnd, GoOn, Idle
  <2>2. pc' \notin Reading \cup {"write"}
    BY <2>1 DEF Reading
  <2> QED
    BY <2>1, <2>2, TrailCalm
<1>4. CASE WriteName
  BY <1>4, WriteNameTrail
<1>5. CASE WriteTag
  BY <1>5, WriteTagTrail
<1>6. CASE Written
  BY <1>6, WrittenTrail
<1>7. CASE Damage
  BY <1>7, DamageTrail
<1>8. CASE ParseStart
  BY <1>8, StartTrail
<1>9. CASE \/ ParseUnknown \/ ParseScalar \/ ParseArray \/ ParseText \/ ParseList \/ ListItem
           \/ ParseCompound \/ ParseNode \/ ParseCompoundEnd \/ CompoundItem
  BY <1>9, ParsedTrail
<1>10. CASE UNCHANGED vars
  <2>1. UNCHANGED <<root_name, root, bytes, origin, pc, todo, at, stack, arg>>
    BY <1>10 DEF vars, nbt, writer, parser
  <2>2. Filled' /\ Saved'
    BY <2>1 DEF Trail, Filled, Saved
  <2>3. Blunt => Blunt'
    BY <2>1 DEF Blunt
  <2>4. Wrecked => Wrecked'
    <3>1. \A F : Agree(F) => Agree(F)'
      BY <2>1 DEF Agree
    <3>2. \A U, h : Aligned(U, h) => Aligned(U, h)'
      BY <2>1 DEF Aligned, AtTag, AtRest
    <3> QED
      BY <2>1, <3>1, <3>2 DEF Wrecked
  <2> QED
    BY <2>1, <2>2, <2>3, <2>4 DEF Trail
<1> QED
  BY <1>1, <1>2, <1>3, <1>4, <1>5, <1>6, <1>7, <1>8, <1>9, <1>10 DEF Next

-----------------------------------------------------------------------------
(* The theorem.                                                            *)

DamageInv ==
    \E T : State(T) /\ Sound(T) /\ Asked /\ Trail

\* The invariant holds at first.
LEMMA DamageStart ==
  ASSUME Fits, Init
  PROVE  DamageInv
<1>1. State(Tags)
  BY FirstState
<1>2. Sound(Tags)
  BY <1>1 DEF State, Sound, Fits
<1>3. /\ bytes = <<>> /\ origin = Nil /\ pc = "idle" /\ stack = <<>> /\ root_name = <<>>
  BY DEF Init
<1>4. Asked
  <2>1. Chained(<<>>) /\ Len(<<>>) < 65536
    BY DEF Chained
  <2>2. Chained(stack) /\ Len(root_name) < 65536
    BY <1>3, <2>1
  <2> QED
    BY <1>3, <2>2 DEF Asked, Reading
<1>5. Trail
  BY <1>3 DEF Trail, Filled, Saved, Reading
<1> QED
  BY <1>1, <1>2, <1>4, <1>5 DEF DamageInv

\* The invariant is inductive.
LEMMA DamageKeeps ==
  ASSUME Fits, DamageInv, [Next]_vars
  PROVE  DamageInv'
<1>1. PICK T : State(T) /\ Sound(T) /\ Asked /\ Trail
  BY DEF DamageInv
<1>2. Asked'
  BY <1>1, AskedStep
<1>3. Trail'
  BY <1>1, TrailStep
<1>4. PICK U : (U = T \/ (pc' = "return" /\ arg' # Nil /\ U = T \cup {arg'})) /\ State(U)'
  BY <1>1, NextTags DEF Grown
<1>5. Closed(U)
  BY <1>4 DEF State, Closed, TagOver
<1>6. ASSUME NEW t \in U PROVE Readable(t)
  <2>1. CASE t \in T
    BY <1>1, <2>1 DEF Sound
  <2>2. CASE t \notin T
    <3>1. pc' = "return" /\ arg' # Nil /\ t = arg'
      BY <1>4, <2>2
    <3>2. Readable(arg')
      BY <1>2, <3>1 DEF Asked
    <3> QED
      BY <3>1, <3>2
  <2> QED
    BY <2>1, <2>2
<1>7. Sound(U)
  BY <1>5, <1>6 DEF Sound
<1>8. Sound(U)'
  <2>1. Closed(U)'
    BY <1>5 DEF Closed, TagOver
  <2>2. (\A t \in U : Readable(t))'
    BY <1>6 DEF Readable, OfOneType, ShortKeys
  <2> QED
    BY <2>1, <2>2 DEF Sound
<1> QED
  BY <1>2, <1>3, <1>4, <1>8 DEF DamageInv

\* When the root is parsed, all of the other file has been: the parser is at its end,
\* and not at the end of this one.
LEMMA InvNoticed ==
  ASSUME DamageInv
  PROVE  DamageNoticed
<1> SUFFICES ASSUME origin = Nil, pc = "return", stack = <<>>, arg # Nil
             PROVE  Left # 0
  BY DEF DamageNoticed, Accepted
<1>1. PICK R : State(R) /\ Sound(R) /\ Asked /\ Trail
  BY DEF DamageInv
<1>2. Blunt \/ Wrecked
  BY <1>1 DEF Trail, Reading
<1>3. PICK T, u, n, h, F : Whole(T, u, n, h, F) /\ Len(bytes) # Len(F) /\ Aligned(T, h)
  BY <1>2 DEF Blunt, Wrecked
<1>4. PICK i \in 1 .. Len(h) : h[i].pos = at /\ Matches(Entry(T), h[i].left, stack)
  BY <1>3 DEF Aligned, AtRest
<1>5. h[i].left = <<>>
  BY <1>4, NothingMatches
<1>6. at = Len(F)
  BY <1>3, <1>4, <1>5, TrackEnds DEF Whole
<1>7. at \in Nat /\ Len(bytes) \in Nat
  BY <1>1, LenProperties DEF State, FileTyped
<1> QED
  BY <1>3, <1>6, <1>7 DEF Left

\* If tags and names are such that their lengths fit into the bytes they are written in,
\* and lists have items of one type, no file that is cut off, goes on after its end or does
\* not begin with a type is taken for an NBT file (nbt.c:92-346, 349-361).
THEOREM DamageIsNoticed == Fits => (Spec => []DamageNoticed)
<1>1. Fits /\ Init => DamageInv
  BY DamageStart
<1>2. Fits /\ DamageInv /\ [Next]_vars => DamageInv'
  BY DamageKeeps
<1>3. DamageInv => DamageNoticed
  BY InvNoticed
<1>4. Fits => Fits'
  BY DEF Fits, Readable
<1> QED
  BY <1>1, <1>2, <1>3, <1>4, PTL DEF Spec
=============================================================================
