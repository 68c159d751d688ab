-------------------------------- MODULE NBT --------------------------------
(***************************************************************************)
(* src/src/nbt.c: NBT files are trees of tags, written to bytes and parsed *)
(* from them.                                                              *)
(*                                                                         *)
(* A tag is a record of its type and its contents; a string or a key is    *)
(* the sequence of its bytes.  The tags of four and eight bytes that are   *)
(* not TAG_Int differ from it in their width only and are left out, as is  *)
(* the compression around the bytes (module Compression).  The memory of   *)
(* the tags is the subject of module TagHeap; what recurses over whole     *)
(* trees, searching them among it, is in module NBTTrees.                  *)
(*                                                                         *)
(* The functions recurse over the tree.  The recursion is modelled call by *)
(* call: the writer keeps the list of what is still to be written, the     *)
(* parser the stack of the lists and compounds it is in.                   *)
(***************************************************************************)
EXTENDS Integers, SequencesExt, FiniteSetsExt

CONSTANTS
    Names,      \* names clients give to files
    Tags,       \* tags clients make
    Trees,      \* those of them that they set as roots
    Cuts,       \* how many bytes a file that is cut off may have left
    Extra,      \* bytes that may follow a file by mistake
    Alien,      \* bytes that are no type, found where the root's should be
    Nil         \* NULL

TAG_END == 0
TAG_BYTE == 1
TAG_SHORT == 2
TAG_INT == 3
TAG_BYTE_ARRAY == 7
TAG_STRING == 8
TAG_LIST == 9
TAG_COMPOUND == 10
TAG_INT_ARRAY == 11

Scalar == {TAG_BYTE, TAG_SHORT, TAG_INT}
Array == {TAG_BYTE_ARRAY, TAG_INT_ARRAY}
Container == {TAG_LIST, TAG_COMPOUND}

ASSUME BytesAssumption ==
    /\ Extra \cup Alien \subseteq 0 .. 255 /\ Alien \cap 1 .. 11 = {}
    /\ Cuts \subseteq Nat
    /\ Names \subseteq Seq(0 .. 255)

\* A tag, the tags it contains being in T.
TagOver(T, t) ==
    \/ t.type \in Scalar /\ t.int \in Int
    \/ t.type \in Array /\ t.data \in Seq(Int)
    \/ t.type = TAG_STRING /\ t.string \in Seq(0 .. 255)
    \/ t.type = TAG_LIST /\ t.subtype \in 0 .. 255 /\ t.items \in Seq(T)
    \/ t.type = TAG_COMPOUND /\ t.items \in Seq([key : Seq(0 .. 255), value : T])

ASSUME TagsAssumption == Trees \subseteq Tags /\ \A t \in Tags : TagOver(Tags, t)

Width(type) ==
    IF type \in {TAG_BYTE, TAG_BYTE_ARRAY} THEN 1 ELSE IF type = TAG_SHORT THEN 2 ELSE 4

Huge == 2147483647   \* a length of 2^31 or more, which no buffer here has

VARIABLES
    root_name, root,  \* the RSNBT
    bytes,            \* the uncompressed file
    origin,           \* the RSNBT it was written from; Nil once it is damaged
    pc,               \* the call in progress
    rawlen,           \* size of the buffer to write to
    todo,             \* what is still to be measured or written
    at,               \* how many bytes have been read
    stack,            \* the calls of _rs_nbt_parse_tag, innermost first
    arg,              \* the type to parse or the tag parsed
    name              \* the name parsed

nbt == <<root_name, root>>
writer == <<rawlen, todo>>
parser == <<at, stack, arg, name>>
vars == <<nbt, bytes, origin, pc, writer, parser>>

Init ==
    /\ root_name = <<>> /\ root = Nil
    /\ bytes = <<>> /\ origin = Nil
    /\ pc = "idle"
    /\ rawlen = 0 /\ todo = <<>>
    /\ at = 0 /\ stack = <<>> /\ arg = Nil /\ name = Nil

Idle == pc = "idle"

-----------------------------------------------------------------------------
(* rsendian.c: numbers, most significant byte first, in two's complement.  *)

\* Mutant: the bytes are not cut down to eight bits.
Shifted(n, w) ==
    IF w = 1 THEN <<n>>
    ELSE IF w = 2 THEN <<n \div 256, n>>
    ELSE <<n \div 16777216, n \div 65536, n \div 256, n>>

BigEndian(n, w) ==
    IF w = 1 THEN <<n % 256>>
    ELSE IF w = 2 THEN <<(n \div 256) % 256, n % 256>>
    ELSE <<(n \div 16777216) % 256, (n \div 65536) % 256, (n \div 256) % 256, n % 256>>

\* The value of bytes b whose first byte counts as `first'.
ValueOf(b, first) ==
    IF Len(b) = 1 THEN first
    ELSE IF Len(b) = 2 THEN first * 256 + b[2]
    ELSE ((first * 256 + b[2]) * 256 + b[3]) * 256 + b[4]

\* Mutant: in bytes and shorts the first byte has no sign.
SignLost(b) == ValueOf(b, IF Len(b) < 4 \/ b[1] < 128 THEN b[1] ELSE b[1] - 256)

Signed(b) == ValueOf(b, IF b[1] < 128 THEN b[1] ELSE b[1] - 256)
Unsigned(b) == IF Len(b) = 4 /\ b[1] >= 128 THEN Huge ELSE ValueOf(b, b[1])

-----------------------------------------------------------------------------
(* The client's changes to the RSNBT.  A bound: the file written before is *)
(* forgotten, so that a file is always the newest version of the RSNBT.    *)

NewFile == bytes' = <<>> /\ origin' = Nil

SetName(n) ==
    /\ Idle
    /\ root_name' = n
    /\ NewFile
    /\ UNCHANGED <<root, pc, writer, parser>>

SetRoot(t) ==
    /\ Idle
    /\ root' = t
    /\ NewFile
    /\ UNCHANGED <<root_name, pc, writer, parser>>

-----------------------------------------------------------------------------
(* Writing.  What is to be written is a tag, a node of a compound (a key   *)
(* and a tag), or the end of a compound.                                   *)

ATag(t) == [what |-> "tag", key |-> <<>>, tag |-> t]
ANode(n) == [what |-> "node", key |-> n.key, tag |-> n.value]
TheEnd == [what |-> "end", key |-> <<>>, tag |-> Nil]

\* What follows e, its own bytes apart.
Parts(e) ==
    IF e.what = "node" THEN <<ATag(e.tag)>>
    ELSE IF e.what = "tag" /\ e.tag.type = TAG_LIST
    THEN [i \in DOMAIN e.tag.items |-> ATag(e.tag.items[i])]
    ELSE IF e.what = "tag" /\ e.tag.type = TAG_COMPOUND
    THEN Append([i \in DOMAIN e.tag.items |-> ANode(e.tag.items[i])], TheEnd)
    ELSE <<>>

\* What _rs_nbt_tag_length counts for a tag, those in it apart.  The end of a
\* compound is counted with its beginning.
TagLength(t) ==
    IF t.type \in Scalar THEN Width(t.type)
    ELSE IF t.type \in Array THEN 4 + Width(t.type) * Len(t.data)
    ELSE IF t.type = TAG_STRING THEN 2 + Len(t.string)
    ELSE IF t.type = TAG_LIST THEN 1 + 4
    ELSE 1

LengthOf(e) ==
    IF e.what = "node" THEN 1 + 2 + Len(e.key)
    ELSE IF e.what = "end" THEN 0
    ELSE TagLength(e.tag)

\* Mutant: the zero that ends a C string is written too.
StringWithZero(s) == BigEndian(Len(s), 2) \o s \o <<0>>

\* The length of a string is stored in 16 bits, whatever it is.
StringBytes(s) == BigEndian(Len(s), 2) \o s

ArrayBytes(t) ==
    LET w == Width(t.type)
    IN  BigEndian(Len(t.data), 4) \o
        [i \in 1 .. w * Len(t.data) |->
            BigEndian(t.data[((i - 1) \div w) + 1], w)[((i - 1) % w) + 1]]

\* What _rs_nbt_write_tag writes for a tag before those in it.
TagBytes(t) ==
    IF t.type \in Scalar THEN BigEndian(t.int, Width(t.type))
    ELSE IF t.type \in Array THEN ArrayBytes(t)
    ELSE IF t.type = TAG_STRING THEN StringBytes(t.string)
    ELSE IF t.type = TAG_LIST THEN <<t.subtype>> \o BigEndian(Len(t.items), 4)
    ELSE <<>>

BytesOf(e) ==
    IF e.what = "node" THEN <<e.tag.type>> \o StringBytes(e.key)
    ELSE IF e.what = "end" THEN <<TAG_END>>
    ELSE TagBytes(e.tag)

\* rs_nbt_write; without a root it returns false.
WriteStart ==
    /\ Idle /\ root # Nil
    /\ pc' = "measure"
    /\ rawlen' = 0 /\ todo' = <<ATag(root)>>
    /\ UNCHANGED <<nbt, bytes, origin, parser>>

\* Bound: no file has Huge bytes or more.  The code counts them in a uint32_t.
Counted(n) == n < Huge

Measure ==
    /\ pc = "measure" /\ todo # <<>> /\ Counted(rawlen + LengthOf(Head(todo)))
    /\ rawlen' = rawlen + LengthOf(Head(todo))
    /\ todo' = Parts(Head(todo)) \o Tail(todo)
    /\ UNCHANGED <<nbt, bytes, origin, pc, parser>>

\* The buffer is allocated, and the type of the root and the name go first.
WriteName ==
    /\ pc = "measure" /\ todo = <<>> /\ Counted(rawlen + 2 + Len(root_name) + 1)
    /\ rawlen' = rawlen + 2 + Len(root_name) + 1
    /\ bytes' = <<root.type>> \o StringBytes(root_name)
    /\ todo' = <<ATag(root)>>
    /\ origin' = Nil
    /\ pc' = "write"
    /\ UNCHANGED <<nbt, parser>>

WriteTag ==
    /\ pc = "write" /\ todo # <<>>
    /\ bytes' = bytes \o BytesOf(Head(todo))
    /\ todo' = Parts(Head(todo)) \o Tail(todo)
    /\ UNCHANGED <<nbt, origin, pc, rawlen, parser>>

Written ==
    /\ pc = "write" /\ todo = <<>>
    /\ origin' = [name |-> root_name, root |-> root]
    /\ rawlen' = 0
    /\ pc' = "idle"
    /\ UNCHANGED <<nbt, bytes, todo, parser>>

\* The file is cut off, more follows it, or it does not begin as one should.
Damage ==
    /\ Idle /\ origin # Nil
    /\ \/ \E n \in {n \in Cuts : n < Len(bytes)} : bytes' = SubSeq(bytes, 1, n)
       \/ \E x \in Extra : bytes' = Append(bytes, x)
       \/ \E x \in Alien : bytes' = [bytes EXCEPT ![1] = x]
    /\ origin' = Nil
    /\ UNCHANGED <<nbt, pc, writer, parser>>

-----------------------------------------------------------------------------
(* Parsing.                                                                *)

Left == Len(bytes) - at
Ahead(n) == SubSeq(bytes, at + 1, at + n)   \* the next n bytes

\* _rs_nbt_parse_string: the string that comes next, or NULL.
StringAhead ==
    IF Left < 2 THEN Nil
    ELSE LET n == Unsigned(Ahead(2))
         IN  IF Left < 2 + n THEN Nil ELSE SubSeq(bytes, at + 3, at + 2 + n)

\* A call of _rs_nbt_parse_tag ends with t; NULL is its failure.
ReturnTag(t) == pc' = "return" /\ arg' = t
Fail == ReturnTag(Nil)

\* rs_nbt_parse: the root's type and the name.
ParseStart ==
    /\ Idle /\ bytes # <<>>
    /\ LET nameBytes == Unsigned(SubSeq(bytes, 2, 3))
       IN  IF Len(bytes) < 4 \/ Len(bytes) < 3 + nameBytes
           THEN /\ pc' = "failed"
                /\ UNCHANGED parser
           ELSE /\ pc' = "parse" /\ arg' = bytes[1]
                /\ at' = 3 + nameBytes
                /\ name' = SubSeq(bytes, 4, 3 + nameBytes)
                /\ stack' = <<>>
    /\ UNCHANGED <<nbt, bytes, origin, writer>>

Parsing(types) == pc = "parse" /\ arg \in types

\* The default of the switch.  rs_tag_new0 has returned NULL for such a type.
ParseUnknown ==
    /\ pc = "parse" /\ arg \notin Scalar \cup Array \cup {TAG_STRING} \cup Container
    /\ Fail
    /\ UNCHANGED <<nbt, bytes, origin, writer, at, stack, name>>

ParseScalar ==
    /\ Parsing(Scalar)
    /\ IF Left < Width(arg)
       THEN Fail /\ UNCHANGED at
       ELSE /\ at' = at + Width(arg)
            /\ ReturnTag([type |-> arg, int |-> Signed(Ahead(Width(arg)))])
    /\ UNCHANGED <<nbt, bytes, origin, writer, stack, name>>

ParseArray ==
    /\ Parsing(Array)
    /\ LET w == Width(arg)
           n == Unsigned(Ahead(4))
       IN  IF Left < 4
           THEN Fail /\ UNCHANGED at
           ELSE IF n = Huge \/ Left - 4 < w * n
           THEN Fail /\ at' = at + 4
           ELSE /\ at' = at + 4 + w * n
                /\ ReturnTag([type |-> arg,
                              data |-> [i \in 1 .. n |->
                                 Unsigned(SubSeq(bytes, at + 5 + w * (i - 1), at + 4 + w * i))]])
    /\ UNCHANGED <<nbt, bytes, origin, writer, stack, name>>

\* The string is not tested: without one, rs_strdup follows a NULL pointer.
ParseText ==
    /\ Parsing({TAG_STRING})
    /\ IF StringAhead = Nil
       THEN pc' = "crashed" /\ UNCHANGED <<at, arg>>
       ELSE /\ at' = at + 2 + Len(StringAhead)
            /\ ReturnTag([type |-> TAG_STRING, string |-> StringAhead])
    /\ UNCHANGED <<nbt, bytes, origin, writer, stack, name>>

\* A call that is in a container: for a list the items still to come, for a
\* compound the key of the node to come.
Frame(type, subtype, count, key, items) ==
    [type |-> type, subtype |-> subtype, count |-> count, key |-> key, items |-> items]

Top == Head(stack)
InA(type) == stack # <<>> /\ Top.type = type

ParseList ==
    /\ Parsing({TAG_LIST})
    /\ LET subtype == bytes[at + 1]
           count == Signed(SubSeq(bytes, at + 2, at + 5))
       IN  \/ /\ Left < 5
              /\ Fail /\ UNCHANGED <<at, stack>>
           \/ /\ Left >= 5 /\ at' = at + 5
              /\ IF count > 0 /\ Left > 5
                 THEN /\ pc' = "parse" /\ arg' = subtype
                      /\ stack' = <<Frame(TAG_LIST, subtype, count, <<>>, <<>>)>> \o stack
                 ELSE /\ ReturnTag(IF count > 0 THEN Nil
                                   ELSE [type |-> TAG_LIST, subtype |-> subtype, items |-> <<>>])
                      /\ UNCHANGED stack
    /\ UNCHANGED <<nbt, bytes, origin, writer, name>>

\* Items are put in at the front; the list is turned round when all are there.
ListItem ==
    /\ pc = "return" /\ InA(TAG_LIST)
    /\ LET items == <<arg>> \o Top.items
       IN  \/ /\ arg = Nil \/ (Top.count > 1 /\ Left = 0)
              /\ Fail /\ stack' = Tail(stack)
           \/ /\ arg # Nil /\ Top.count = 1
              /\ ReturnTag([type |-> TAG_LIST, subtype |-> Top.subtype, items |-> Reverse(items)])
              /\ stack' = Tail(stack)
           \/ /\ arg # Nil /\ Top.count > 1 /\ Left > 0
              /\ pc' = "parse" /\ arg' = Top.subtype
              /\ stack' = <<[Top EXCEPT !.count = @ - 1, !.items = items]>> \o Tail(stack)
    /\ UNCHANGED <<nbt, bytes, origin, writer, at, name>>

ParseCompound ==
    /\ Parsing({TAG_COMPOUND})
    /\ pc' = "node" /\ arg' = Nil
    /\ stack' = <<Frame(TAG_COMPOUND, TAG_END, 0, <<>>, <<>>)>> \o stack
    /\ UNCHANGED <<nbt, bytes, origin, writer, at, name>>

\* The loop of a compound: the type and the key of a node, or the end.
ParseNode ==
    /\ pc = "node" /\ Left > 0 /\ bytes[at + 1] # TAG_END
    /\ LET n == Unsigned(SubSeq(bytes, at + 2, at + 3))
       IN  IF Left < 3 \/ Left < 3 + n
           THEN Fail /\ at' = at + 1 /\ stack' = Tail(stack)
           ELSE /\ pc' = "parse" /\ arg' = bytes[at + 1]
                /\ at' = at + 3 + n
                /\ stack' = <<[Top EXCEPT !.key = SubSeq(bytes, at + 4, at + 3 + n)]>> \o Tail(stack)
    /\ UNCHANGED <<nbt, bytes, origin, writer, name>>

ParseCompoundEnd ==
    /\ pc = "node" /\ (Left > 0 => bytes[at + 1] = TAG_END)
    /\ IF Left = 0
       THEN Fail /\ UNCHANGED at
       ELSE /\ ReturnTag([type |-> TAG_COMPOUND, items |-> Top.items])
            /\ at' = at + 1
    /\ stack' = Tail(stack)
    /\ UNCHANGED <<nbt, bytes, origin, writer, name>>

\* rs_tag_compound_set: a node of the same key is deleted, the new one is first.
SetKey(items, key, value) ==
    LET keyed == {i \in DOMAIN items : items[i].key = key}
    IN  <<[key |-> key, value |-> value]>>
            \o (IF keyed = {} THEN items ELSE RemoveAt(items, Min(keyed)))

CompoundItem ==
    /\ pc = "return" /\ InA(TAG_COMPOUND)
    /\ IF arg = Nil
       THEN Fail /\ stack' = Tail(stack)
       ELSE /\ pc' = "node" /\ arg' = Nil
            /\ stack' = <<[Top EXCEPT !.items = SetKey(@, Top.key, arg)]>> \o Tail(stack)
    /\ UNCHANGED <<nbt, bytes, origin, writer, at, name>>

\* Mutant: what is left behind the root goes unnoticed.
AnyRoot == arg # Nil

\* The file is read: all of it, or the parser returns NULL and the client keeps
\* the RSNBT it had.
Accepted == arg # Nil /\ Left = 0

ParseEnd ==
    /\ pc = "return" /\ stack = <<>>
    /\ IF Accepted
       THEN /\ root' = arg /\ root_name' = name
            /\ pc' = "idle"
       ELSE /\ pc' = "failed"
            /\ UNCHANGED nbt
    /\ at' = 0 /\ arg' = Nil /\ name' = Nil
    /\ UNCHANGED <<bytes, origin, writer, stack>>

\* A client that got NULL goes on with the RSNBT it had; one that crashed starts
\* again with rs_nbt_new.
GoOn ==
    /\ pc \in {"failed", "crashed"}
    /\ IF pc = "failed" THEN UNCHANGED nbt ELSE root' = Nil /\ root_name' = <<>>
    /\ pc' = "idle"
    /\ at' = 0 /\ stack' = <<>> /\ arg' = Nil /\ name' = Nil
    /\ UNCHANGED <<bytes, origin, writer>>

-----------------------------------------------------------------------------
Next ==
    \/ \E n \in Names : SetName(n)
    \/ \E t \in Trees : SetRoot(t)
    \/ WriteStart
    \/ Measure
    \/ WriteName
    \/ WriteTag
    \/ Written
    \/ Damage
    \/ ParseStart
    \/ ParseUnknown
    \/ ParseScalar
    \/ ParseArray
    \/ ParseText
    \/ ParseList
    \/ ListItem
    \/ ParseCompound
    \/ ParseNode
    \/ ParseCompoundEnd
    \/ CompoundItem
    \/ ParseEnd
    \/ GoOn

Spec == Init /\ [][Next]_vars

-----------------------------------------------------------------------------
(* Properties.                                                             *)

\* The parser never leaves the file, files are made of bytes, and a list waits
\* for items only while some are missing.
TypeOK ==
    /\ bytes \in Seq(0 .. 255)
    /\ rawlen \in Nat
    /\ pc \in {"idle", "measure", "write", "parse", "node", "return", "failed", "crashed"}
    /\ at \in 0 .. Len(bytes)
    /\ stack # <<>> => pc \in {"parse", "node", "return", "crashed"}
    /\ \A i \in DOMAIN stack : stack[i].type = TAG_LIST => stack[i].count > 0

\* rs_nbt_write computes the size of its buffer in one pass over the tree and
\* fills it in another (nbt.c:529-543): the second never leaves the buffer, and
\* leaves no byte of it unwritten.
BufferFilled ==
    pc = "write" =>
        /\ Len(bytes) <= rawlen
        /\ todo = <<>> => Len(bytes) = rawlen

\* A file that is cut off, that goes on after its end, or whose first byte is no
\* type, is not taken for an NBT file.
DamageNoticed ==
    origin = Nil /\ pc = "return" /\ stack = <<>> => ~Accepted

\* "if we make it here, it's a failure (too little info, couldn't parse a tag"
\* (nbt.c:285): a file that ends too early is an error, and the parser returns
\* NULL for it.
TooLittleIsFailure == pc # "crashed"
=============================================================================
