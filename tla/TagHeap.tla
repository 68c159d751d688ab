------------------------------ MODULE TagHeap ------------------------------
(***************************************************************************)
(* The memory of NBT tags: src/src/tag.c, on the lists of src/src/list.c,  *)
(* and the root pointer of src/src/nbt.c.                                  *)
(*                                                                         *)
(* A tag counts the references to it.  It is born with the count 0, which  *)
(* is a floating reference: the first rs_tag_ref sinks it.  Containers ref *)
(* what is put into them, rs_tag_unref frees a tag whose count comes to 0  *)
(* and unrefs what it contains in turn.                                    *)
(*                                                                         *)
(* The recursion of rs_tag_unref is modelled one tag at a time: `unrefs'   *)
(* holds the calls still to be made, and nothing else happens before they  *)
(* are.  The client follows the rules of tag.h: it uses tags it can reach, *)
(* unrefs what it has ref'd or created, and builds trees, not cycles (the  *)
(* recursion would not end; the code does not check).  rs_tag_new with     *)
(* children makes the calls modelled here one after the other.             *)
(***************************************************************************)
EXTENDS Integers, SequencesExt, FiniteSetsExt

CONSTANTS
    Tag,        \* addresses of tags
    Key,        \* names in compounds
    Nil,        \* NULL; also the key of a list item
    MaxItems,   \* bound: items a container may hold
    MaxOwned,   \* bound: references the client takes to one tag
    MaxCount    \* bound: the count of a tag (each leaked value adds one)

ASSUME TagAssumption ==
    /\ IsFiniteSet(Tag) /\ Nil \notin Tag \cup Key
    /\ {MaxItems, MaxOwned, MaxCount} \subseteq Nat

VARIABLES
    type,      \* of each tag; "free" if there is none at the address
    refcount,
    subtype,   \* list.type
    items,     \* the cells of a list or a compound, first to last
    root,      \* the root of an RSNBT
    owned,     \* how many references to each tag the client holds
    unrefs,    \* the calls of rs_tag_unref still to be made
    lost,      \* history: references dropped without rs_tag_unref, of each tag
    crashed

tags == <<type, refcount, subtype, items>>
vars == <<tags, root, owned, unrefs, lost, crashed>>

Types == {"leaf", "list", "compound"}
Item == [key : Key \cup {Nil}, value : Tag]

\* Counts never go below zero (they are unsigned in tag.c), and cells hold tags.
TypeOK ==
    /\ type \in [Tag -> Types \cup {"free"}]
    /\ refcount \in [Tag -> Nat]
    /\ subtype \in [Tag -> Types \cup {"end"}]
    /\ items \in [Tag -> Seq(Item)]
    /\ root \in Tag \cup {Nil}
    /\ owned \in [Tag -> Nat]
    /\ unrefs \in Seq(Tag)
    /\ lost \in [Tag -> Nat]
    /\ crashed \in BOOLEAN

Init ==
    /\ type = [t \in Tag |-> "free"]
    /\ refcount = [t \in Tag |-> 0]
    /\ subtype = [t \in Tag |-> "end"]
    /\ items = [t \in Tag |-> <<>>]
    /\ root = Nil
    /\ owned = [t \in Tag |-> 0]
    /\ unrefs = <<>>
    /\ lost = [t \in Tag |-> 0]
    /\ crashed = FALSE

-----------------------------------------------------------------------------
(* What the client may use.                                                *)

Live == {t \in Tag : type[t] # "free"}
Floating == {t \in Live : refcount[t] = 0}
Contents(t) == {items[t][i].value : i \in DOMAIN items[t]}

Closed(C) == \A t \in C : Contents(t) \subseteq C

\* The tags in S, in what they contain, and so on.
Within(S) == {t \in Tag : \A C \in SUBSET Tag : S \subseteq C /\ Closed(C) => t \in C}

Usable == Within(Floating \cup {t \in Tag : owned[t] > 0} \cup ({root} \ {Nil}))

Ready == unrefs = <<>> /\ ~crashed

\* Tag c is a container of the given type that may take v.
MayTake(c, ty, v) ==
    /\ Ready /\ {c, v} \subseteq Usable
    /\ type[c] = ty
    /\ Len(items[c]) < MaxItems
    /\ c \notin Within({v})

-----------------------------------------------------------------------------
(* Creating tags, and references of the client.                            *)

New(t, ty) ==
    /\ Ready /\ type[t] = "free"
    /\ type' = [type EXCEPT ![t] = ty]
    /\ refcount' = [refcount EXCEPT ![t] = 0]
    /\ subtype' = [subtype EXCEPT ![t] = "end"]
    /\ items' = [items EXCEPT ![t] = <<>>]
    /\ UNCHANGED <<root, owned, unrefs, lost, crashed>>

\* Mutant: what is put into a container is not ref'd.
RefNothing(t) == UNCHANGED refcount

RefTag(t) ==
    /\ refcount[t] < MaxCount
    /\ refcount' = [refcount EXCEPT ![t] = @ + 1]

Ref(t) ==
    /\ Ready /\ t \in Usable /\ owned[t] < MaxOwned
    /\ RefTag(t)
    /\ owned' = [owned EXCEPT ![t] = @ + 1]
    /\ UNCHANGED <<type, subtype, items, root, unrefs, lost, crashed>>

\* The client drops a reference, or a tag that still floats.
Unref(t) ==
    /\ Ready
    /\ \/ owned[t] > 0 /\ owned' = [owned EXCEPT ![t] = @ - 1]
       \/ t \in Floating /\ UNCHANGED owned
    /\ unrefs' = <<t>>
    /\ UNCHANGED <<tags, root, lost, crashed>>

\* Mutant: a floating tag counts down below zero.
OneReference(t) == refcount[t] = 1

\* One call of rs_tag_unref.  It frees the tag if this was the last reference,
\* or if the tag still floats, and unrefs the contents.
LastReference(t) == refcount[t] <= 1

Drop(t) ==
    /\ refcount' = [refcount EXCEPT ![t] = @ - 1]
    /\ UNCHANGED <<type, subtype, items>>

Free(t) ==
    /\ type' = [type EXCEPT ![t] = "free"]
    /\ refcount' = [refcount EXCEPT ![t] = 0]
    /\ subtype' = [subtype EXCEPT ![t] = "end"]
    /\ items' = [items EXCEPT ![t] = <<>>]

\* Mutant: a container is freed, its contents are not unref'd.
NoChildren(t) == <<>>

Children(t) == [i \in DOMAIN items[t] |-> items[t][i].value]

UnrefStep ==
    /\ unrefs # <<>>
    /\ LET t == Head(unrefs)
       IN  IF LastReference(t)
           THEN Free(t) /\ unrefs' = Children(t) \o Tail(unrefs)
           ELSE Drop(t) /\ unrefs' = Tail(unrefs)
    /\ UNCHANGED <<root, owned, lost, crashed>>

-----------------------------------------------------------------------------
(* Lists.                                                                  *)

\* Mutant: the type of a list with items may be set.
ListRetype(l, ty) ==
    /\ Ready /\ l \in Usable /\ type[l] = "list"
    /\ subtype' = [subtype EXCEPT ![l] = ty]
    /\ UNCHANGED <<type, refcount, items, root, owned, unrefs, lost, crashed>>

ListSetType(l, ty) ==
    /\ Ready /\ l \in Usable /\ type[l] = "list"
    /\ items[l] = <<>>
    /\ subtype' = [subtype EXCEPT ![l] = ty]
    /\ UNCHANGED <<type, refcount, items, root, owned, unrefs, lost, crashed>>

\* An index behind the end stands for the end.
ListInsert(l, i, v) ==
    /\ MayTake(l, "list", v) /\ type[v] = subtype[l]
    /\ i = 0 \/ items[l] # <<>>
    /\ RefTag(v)
    /\ items' = [items EXCEPT ![l] =
                    InsertAt(@, IF i < Len(@) THEN i + 1 ELSE Len(@) + 1,
                             [key |-> Nil, value |-> v])]
    /\ UNCHANGED <<type, subtype, root, owned, unrefs, lost, crashed>>

\* In an empty list the cell before such an index is NULL, and is written to.
ListInsertCrash(l, i, v) ==
    /\ MayTake(l, "list", v) /\ type[v] = subtype[l]
    /\ i > 0 /\ items[l] = <<>>
    /\ RefTag(v)
    /\ crashed' = TRUE
    /\ UNCHANGED <<type, subtype, items, root, owned, unrefs, lost>>

\* Mutant: the cell goes, the tag is not unref'd.
ListForget(l, i) ==
    /\ Ready /\ l \in Usable /\ type[l] = "list"
    /\ i < Len(items[l])
    /\ items' = [items EXCEPT ![l] = RemoveAt(@, i + 1)]
    /\ UNCHANGED <<type, refcount, subtype, root, owned, unrefs, lost, crashed>>

ListDelete(l, i) ==
    /\ Ready /\ l \in Usable /\ type[l] = "list"
    /\ i < Len(items[l])
    /\ unrefs' = <<items[l][i + 1].value>>
    /\ items' = [items EXCEPT ![l] = RemoveAt(@, i + 1)]
    /\ UNCHANGED <<type, refcount, subtype, root, owned, lost, crashed>>

ListReverse(l) ==
    /\ Ready /\ l \in Usable /\ type[l] = "list"
    /\ items' = [items EXCEPT ![l] = Reverse(@)]
    /\ UNCHANGED <<type, refcount, subtype, root, owned, unrefs, lost, crashed>>

-----------------------------------------------------------------------------
(* Compounds, and the root of an NBT file.                                 *)

\* The cells of compound c that have key k, as rs_tag_compound_delete finds them.
Keyed(c, k) == {i \in DOMAIN items[c] : items[c][i].key = k}

\* Mutant: the old value of a key stays.
WithKey(c, k) == items[c]

\* The compound without the first of them.  The cell and its node go; the value is
\* not unref'd.
WithoutKey(c, k) ==
    IF Keyed(c, k) = {} THEN items[c] ELSE RemoveAt(items[c], Min(Keyed(c, k)))

Lose(c, k) ==
    lost' = [t \in Tag |->
                IF \E i \in Keyed(c, k) : items[c][i].value = t THEN lost[t] + 1 ELSE lost[t]]

CompoundSet(c, k, v) ==
    /\ MayTake(c, "compound", v)
    /\ RefTag(v)
    /\ items' = [items EXCEPT ![c] = <<[key |-> k, value |-> v]>> \o WithoutKey(c, k)]
    /\ Lose(c, k)
    /\ UNCHANGED <<type, subtype, root, owned, unrefs, crashed>>

CompoundDelete(c, k) ==
    /\ Ready /\ c \in Usable /\ type[c] = "compound"
    /\ items' = [items EXCEPT ![c] = WithoutKey(c, k)]
    /\ Lose(c, k)
    /\ UNCHANGED <<type, refcount, subtype, root, owned, unrefs, crashed>>

\* rs_nbt_set_root refs the new root before it unrefs the old one: they may be
\* the same.
SetRoot(t) ==
    /\ Ready /\ t \in Usable \cup {Nil}
    /\ IF t = Nil THEN UNCHANGED refcount ELSE RefTag(t)
    /\ unrefs' = IF root = Nil THEN <<>> ELSE <<root>>
    /\ root' = t
    /\ UNCHANGED <<type, subtype, items, owned, lost, crashed>>

-----------------------------------------------------------------------------
Next ==
    \/ \E t \in Tag, ty \in Types : New(t, ty) \/ ListSetType(t, ty)
    \/ \E t \in Tag : Ref(t) \/ Unref(t) \/ ListReverse(t)
    \/ \E l, v \in Tag, i \in 0 .. MaxItems :
          ListInsert(l, i, v) \/ ListInsertCrash(l, i, v)
    \/ \E l \in Tag, i \in 0 .. MaxItems - 1 : ListDelete(l, i)
    \/ \E c, v \in Tag, k \in Key : CompoundSet(c, k, v)
    \/ \E c \in Tag, k \in Key : CompoundDelete(c, k)
    \/ \E t \in Tag \cup {Nil} : SetRoot(t)
    \/ UnrefStep

Spec == Init /\ [][Next]_vars

-----------------------------------------------------------------------------
(* Properties.                                                             *)

\* The cells that hold t, and the calls of rs_tag_unref that will drop t.
Cells(t) == {p \in Tag \X (1 .. MaxItems) :
                p[2] \in DOMAIN items[p[1]] /\ items[p[1]][p[2]].value = t}
Calls(t) == {i \in DOMAIN unrefs : unrefs[i] = t}

\* How many hold a reference to t: the client, cells, calls to come and the root.
Holders(t) ==
    owned[t] + Cardinality(Cells(t)) + Cardinality(Calls(t)) + (IF root = t THEN 1 ELSE 0)

\* No tag is freed that something still points to: the contents of live tags, the
\* root, what the client owns and what is about to be unref'd are all live, also
\* half-way through the recursion of rs_tag_unref.
NoDangling ==
    /\ \A t \in Live : Contents(t) \subseteq Live
    /\ \A t \in Tag : owned[t] > 0 => t \in Live
    /\ root # Nil => root \in Live
    /\ \A i \in DOMAIN unrefs : unrefs[i] \in Live

\* A list holds tags of its own type only, whatever was inserted, deleted and
\* retyped before (the writer of nbt.c stores one type for all of them).
ListsHomogeneous ==
    \A l \in Live : type[l] = "list" => \A v \in Contents(l) : type[v] = subtype[l]

\* A compound has one value for a key: rs_tag_compound_set takes the old one out.
KeysUnique ==
    \A c \in Live : type[c] = "compound" =>
        \A i, j \in DOMAIN items[c] : items[c][i].key = items[c][j].key => i = j

\* The count of a tag is the number of those who hold a reference to it, but for
\* those that rs_tag_compound_delete has dropped: no other function forgets one.
CountExact ==
    ~crashed => \A t \in Live \ Floating : refcount[t] = Holders(t) + lost[t]

\* A tag the client cannot reach has been dropped by rs_tag_compound_delete, or is
\* inside one that was: nothing else leaks.
OnlyLostLeaks == Ready => Live \subseteq Usable \cup Within({t \in Live : lost[t] > 0})

\* "if you create a tag and add it to something, you don't have to unref it"
\* (tag.h:63): every tag stays within reach, so that it will be freed.
NothingLeaks == Ready => Live \subseteq Usable
=============================================================================
