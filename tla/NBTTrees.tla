------------------------------ MODULE NBTTrees ------------------------------
(***************************************************************************)
(* Trees of tags as wholes: searching them and changing what is found, as  *)
(* the tools do between loading and saving (tag.c), and the comparison of  *)
(* a tree that was parsed with the one that was written (nbt.c).           *)
(***************************************************************************)
EXTENDS NBT

CONSTANT Values      \* integers clients store

-----------------------------------------------------------------------------
(* tag.c: finding a tag and changing it, between loading and saving.  A    *)
(* tag below another is told by its path: the index of the item to take at *)
(* each level.                                                             *)

\* rs_tag_compound_get.
Get(t, key) ==
    LET found == {i \in DOMAIN t.items : t.items[i].key = key}
    IN  IF found = {} THEN Nil ELSE t.items[Min(found)].value

\* rs_tag_compound_get_chain.
GetChain(t, keys) ==
    FoldLeft(LAMBDA u, key : IF u = Nil \/ u.type # TAG_COMPOUND THEN Nil ELSE Get(u, key), t, keys)

\* Mutant: lists are not searched.
KidsOfCompound(t) ==
    IF t.type = TAG_COMPOUND THEN [i \in DOMAIN t.items |-> t.items[i].value] ELSE <<>>

Kids(t) ==
    CASE t.type = TAG_COMPOUND -> [i \in DOMAIN t.items |-> t.items[i].value]
      [] t.type = TAG_LIST -> t.items
      [] OTHER -> <<>>

At(t, path) == FoldLeft(LAMBDA u, i : Kids(u)[i], t, path)

\* rs_tag_find: the path to the tag it finds.  A compound looks among its own keys
\* before it searches its values.
RECURSIVE PathTo(_, _)
PathTo(t, key) ==
    LET own == IF t.type # TAG_COMPOUND THEN {}
               ELSE {i \in DOMAIN t.items : t.items[i].key = key}
        deep == {i \in DOMAIN Kids(t) : PathTo(Kids(t)[i], key) # Nil}
    IN  IF own # {} THEN <<Min(own)>>
        ELSE IF deep # {} THEN <<Min(deep)>> \o PathTo(Kids(t)[Min(deep)], key)
        ELSE Nil

\* rs_tag_set_integer: the number is cut down to the width of the tag.
Stored(t, v) == [t EXCEPT !.int = Signed(BigEndian(v, Width(t.type)))]

\* t with u for the tag at a path.
RECURSIVE Replace(_, _, _)
Replace(t, path, u) ==
    IF path = <<>> THEN u
    ELSE LET kid == Replace(Kids(t)[Head(path)], Tail(path), u)
         IN  IF t.type = TAG_LIST THEN [t EXCEPT !.items[Head(path)] = kid]
             ELSE [t EXCEPT !.items[Head(path)].value = kid]

\* rs_tag_set_integer, on what rs_tag_find gives.  Clients ask for the type before,
\* since other tags are an error.
SetInteger(key, v) ==
    /\ Idle /\ root # Nil
    /\ LET path == PathTo(root, key)
       IN  /\ path # Nil /\ At(root, path).type \in Scalar
           /\ SetRoot(Replace(root, path, Stored(At(root, path), v)))

-----------------------------------------------------------------------------
(* Clients that edit the tree too, as the tools setspawn and setgamemode   *)
(* do, which go on only if the tag is a TAG_INT.  To the rest of the       *)
(* module an edit is one more root that is set.                            *)

EditNext == Next \/ \E n \in Names, v \in Values : SetInteger(n, v)

EditSpec == Init /\ [][EditNext]_vars

-----------------------------------------------------------------------------
(* Properties.                                                             *)

\* Two tags with the same contents; the nodes of a compound come in any order.
RECURSIVE Same(_, _)
Same(t, u) ==
    /\ t.type = u.type
    /\ CASE t.type \in Scalar -> t.int = u.int
         [] t.type \in Array -> t.data = u.data
         [] t.type = TAG_STRING -> t.string = u.string
         [] t.type = TAG_LIST ->
               /\ t.subtype = u.subtype
               /\ Len(t.items) = Len(u.items)
               /\ \A i \in DOMAIN t.items : Same(t.items[i], u.items[i])
         [] t.type = TAG_COMPOUND ->
               /\ Len(t.items) = Len(u.items)
               /\ \A i \in DOMAIN t.items : \E j \in DOMAIN u.items :
                     /\ t.items[i].key = u.items[j].key
                     /\ Same(t.items[i].value, u.items[j].value)

\* What is written can be read: the parser accepts every file the writer wrote,
\* and finds the name and the contents that were written.
WrittenIsReadable ==
    /\ origin # Nil => pc \notin {"failed", "crashed"}
    /\ origin # Nil /\ pc = "return" /\ stack = <<>> =>
          /\ Accepted
          /\ name = origin.name
          /\ Same(arg, origin.root)

\* The tags in t, in what they contain, and so on.
RECURSIVE Within(_)
Within(t) ==
    {t} \cup
    CASE t.type = TAG_COMPOUND -> UNION {Within(t.items[i].value) : i \in DOMAIN t.items}
      [] t.type = TAG_LIST -> UNION {Within(t.items[i]) : i \in DOMAIN t.items}
      [] OTHER -> {}

\* rs_tag_find gives a tag exactly if some compound at any depth, in lists too, has
\* the key; what it gives is filed under that key; and where no list lies on the
\* way rs_tag_compound_get_chain leads to the same tag.
FindsEveryKey ==
    root # Nil => \A n \in Names :
        LET path == PathTo(root, n)
            above(i) == At(root, SubSeq(path, 1, i - 1))
            compounds == {u \in Within(root) : u.type = TAG_COMPOUND}
        IN  /\ path # Nil <=> \E u \in compounds : Get(u, n) # Nil
            /\ path # Nil =>
                  /\ above(Len(path)) \in compounds
                  /\ At(root, path) = Get(above(Len(path)), n)
                  /\ (\A i \in DOMAIN path : above(i) \in compounds) =>
                        At(root, path) =
                            GetChain(root, [i \in DOMAIN path |-> above(i).items[path[i]].key])
=============================================================================
