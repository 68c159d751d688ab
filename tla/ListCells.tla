----------------------------- MODULE ListCells -----------------------------
(***************************************************************************)
(* The memory of lists and compounds: src/src/list.c cell by cell, as      *)
(* src/src/tag.c uses it, the iterators of tag.c, and the table of         *)
(* allocator functions of src/src/memory.c that the cells come from.       *)
(*                                                                         *)
(* There is one container at a time and one loop over it.  An iterator is  *)
(* a bare pointer to the cell of the next item; between two turns of the   *)
(* loop its client calls whatever it likes.  The client may break the      *)
(* rules of a loop (see Breaks): what happens then is remembered, and not  *)
(* ruled out.  A read of a cell that is not allocated is undefined; here   *)
(* the process faults.                                                     *)
(*                                                                         *)
(* The tags in the cells, and the counts of references to them, are the    *)
(* subject of module TagHeap.  The cells of a compound hold its keys.      *)
(***************************************************************************)
EXTENDS Integers, SequencesExt, FiniteSetsExt

CONSTANTS
    Cell,      \* addresses of cells; their number bounds the lists
    Tag,       \* what the cells of a list hold
    Key,       \* what those of a compound hold
    Table,     \* tables of allocator functions, the default one too
    NULL

Item == Tag \cup Key

ASSUME CellAssumption ==
    /\ IsFiniteSet(Cell)
    /\ NULL \notin Cell \cup Item \cup Table
    /\ Table # {}

VARIABLES
    memfuncs,  \* the table in use
    kind,      \* the container: "list", "compound", or "none"
    items,     \* its first cell: list.items or compound
    next,
    data,
    live,      \* the cells that are allocated
    maker,     \* the table each was allocated with
    pc,        \* the loop of list.c in progress, or "idle"
    last,      \* its locals
    cell,
    order,     \* history: the cells of the container, first to last
    looping,   \* a loop over the container is in progress
    it,        \* its iterator
    given,     \* history: the cells whose items the loop has had
    kept,      \* history: the cells that were there when it began, and still are
    turned,    \* history: the list was reversed since
    broken     \* history: the client broke a rule in this loop

memory == <<next, data, live, maker>>
locals == <<pc, last, cell>>
loop == <<looping, it, given, kept, turned, broken>>
vars == <<memfuncs, kind, items, memory, locals, order, loop>>

Pointer == Cell \cup {NULL}

\* Pointers point to cells or nowhere; every allocated cell has an item and was
\* made by some table, and memory that is not allocated holds nothing.
TypeOK ==
    /\ memfuncs \in Table
    /\ kind \in {"none", "list", "compound"}
    /\ items \in Pointer
    /\ next \in [Cell -> Pointer]
    /\ data \in [Cell -> Item \cup {NULL}]
    /\ live \subseteq Cell
    /\ maker \in [Cell -> Table \cup {NULL}]
    /\ pc \in {"idle", "reverse", "free", "faulted"}
    /\ {last, cell, it} \subseteq Pointer
    /\ order \in Seq(Cell)
    /\ {looping, turned, broken} \subseteq BOOLEAN
    /\ given \subseteq Cell /\ kept \subseteq Cell
    /\ \A c \in Cell \ live : next[c] = NULL /\ data[c] = NULL /\ maker[c] = NULL
    /\ \A c \in live : data[c] # NULL /\ maker[c] # NULL

Init ==
    /\ memfuncs \in Table
    /\ kind = "none" /\ items = NULL
    /\ next = [c \in Cell |-> NULL] /\ data = next /\ live = {} /\ maker = next
    /\ pc = "idle" /\ last = NULL /\ cell = NULL
    /\ order = <<>>
    /\ looping = FALSE /\ it = NULL /\ given = {} /\ kept = {}
    /\ turned = FALSE /\ broken = FALSE

Idle == pc = "idle"

-----------------------------------------------------------------------------
(* memory.c.                                                               *)

\* The table is replaced as a whole.  A client does this while it holds nothing.
SetMemoryFunctions(t) ==
    /\ Idle /\ kind = "none"
    /\ memfuncs' = t
    /\ UNCHANGED <<kind, items, memory, locals, order, loop>>

\* What is allocated once the cells in `gone' were freed and, after that, c was
\* made to hold x by rs_list_cell_new; NULL for c if there is no new cell.
Allocate(c, x, gone) ==
    /\ c \notin live \ gone
    /\ live' = (live \ gone) \cup ({c} \ {NULL})
    /\ maker' = [d \in Cell |-> IF d = c THEN memfuncs ELSE IF d \in gone THEN NULL ELSE maker[d]]
    /\ data' = [d \in Cell |-> IF d = c THEN x ELSE IF d \in gone THEN NULL ELSE data[d]]

\* Mutant: the item is not put into its cell.
EmptyCell(c, x) == c \notin live /\ live' = live \cup {c} /\ UNCHANGED <<maker, data>>

NewCell(c, x) == Allocate(c, x, {})

\* Mutant: the cell is unlinked, and not freed.
KeepCell(c) == UNCHANGED <<live, maker, data>>

FreeCell(c) == Allocate(NULL, NULL, {c})

-----------------------------------------------------------------------------
(* list.c: following the cells from the first.                             *)

\* The pointer n cells from the first: rs_list_nth_cell, for every index.
Nth[n \in Nat] ==
    IF n = 0 THEN items
    ELSE IF Nth[n - 1] = NULL THEN NULL ELSE next[Nth[n - 1]]

Size == Cardinality({n \in 0 .. Cardinality(Cell) - 1 : Nth[n] # NULL})

Linked == {Nth[n] : n \in 0 .. Size - 1}

\* Mutant: the cell before the removed one keeps pointing to it.
StillLinked(c) ==
    [items |-> IF c = items THEN next[c] ELSE items, next |-> [next EXCEPT ![c] = NULL]]

\* rs_list_remove: the pointers without cell c.
Without(c) ==
    IF c = items
    THEN [items |-> next[c], next |-> [next EXCEPT ![c] = NULL]]
    ELSE LET before == CHOOSE b \in Linked : next[b] = c
         IN  [items |-> items, next |-> [next EXCEPT ![before] = next[c], ![c] = NULL]]

Point(m) == items' = m.items /\ next' = m.next

-----------------------------------------------------------------------------
(* The rules of a loop.                                                    *)

\* A client may take out only items it was given in this loop, and none after
\* it has turned the list round.
Breaks(gone) == looping /\ gone # {} /\ (turned \/ ~ gone \subseteq given)

\* The cells in `gone' go, and what the loop has seen of them is forgotten.
LoopWithout(gone) ==
    /\ given' = given \ gone /\ kept' = kept \ gone
    /\ broken' = (broken \/ Breaks(gone))
    /\ UNCHANGED <<looping, it, turned>>

-----------------------------------------------------------------------------
(* tag.c: containers.                                                      *)

New(k) ==
    /\ Idle /\ kind = "none"
    /\ kind' = k
    /\ UNCHANGED <<memfuncs, items, memory, locals, order, loop>>

\* Mutant: the cells behind the new one are forgotten.
CutOff(i, c) ==
    IF i = 0 THEN [items |-> c, next |-> [next EXCEPT ![c] = items]]
    ELSE [items |-> items,
          next |-> [next EXCEPT ![Nth[IF i >= Size THEN Size - 1 ELSE i - 1]] = c]]

\* The pointers with cell c at index i.
With(i, c) ==
    IF i = 0 THEN [items |-> c, next |-> [next EXCEPT ![c] = items]]
    ELSE LET prev == Nth[IF i >= Size THEN Size - 1 ELSE i - 1]
         IN  [items |-> items, next |-> [next EXCEPT ![prev] = c, ![c] = next[prev]]]

\* An index behind the end stands for the end.  (In an empty list that is a
\* write through NULL, which TagHeap shows.)
ListInsert(i, x, c) ==
    /\ Idle /\ kind = "list"
    /\ i = 0 \/ Size > 0
    /\ NewCell(c, x)
    /\ Point(With(i, c))
    /\ order' = InsertAt(order, IF i < Len(order) THEN i + 1 ELSE Len(order) + 1, c)
    /\ UNCHANGED <<memfuncs, kind, locals, loop>>

\* Nothing is done for an index behind the end.
ListDelete(i) ==
    /\ Idle /\ kind = "list" /\ Nth[i] # NULL
    /\ Point(Without(Nth[i]))
    /\ FreeCell(Nth[i])
    /\ order' = RemoveAt(order, i + 1)
    /\ LoopWithout({Nth[i]})
    /\ UNCHANGED <<memfuncs, kind, locals>>

\* The cells with key x, up to the first: the loop of rs_tag_compound_delete.
Keyed(x) ==
    LET found == {n \in 0 .. Size - 1 : data[Nth[n]] = x}
    IN  IF found = {} THEN {} ELSE {Nth[Min(found)]}

PointersWithout(x) ==
    IF Keyed(x) = {} THEN [items |-> items, next |-> next]
    ELSE Without(CHOOSE c \in Keyed(x) : TRUE)

Rest(x) ==
    IF Keyed(x) = {} THEN order
    ELSE RemoveAt(order, CHOOSE i \in DOMAIN order : order[i] \in Keyed(x))

CompoundDelete(x) ==
    /\ Idle /\ kind = "compound" /\ Keyed(x) # {}
    /\ Point(PointersWithout(x))
    /\ Allocate(NULL, NULL, Keyed(x))
    /\ order' = Rest(x)
    /\ LoopWithout(Keyed(x))
    /\ UNCHANGED <<memfuncs, kind, locals>>

\* Mutant: the new cell goes to the end, like that of rs_tag_list_insert.
CompoundAppend(x, c) ==
    /\ Idle /\ kind = "compound"
    /\ Allocate(c, x, Keyed(x))
    /\ LET m == PointersWithout(x)
           end == {b \in Linked \ Keyed(x) : m.next[b] = NULL}
       IN  Point([items |-> IF end = {} THEN c ELSE m.items,
                  next |-> [b \in Cell |-> IF b = c THEN NULL
                                           ELSE IF b \in end THEN c ELSE m.next[b]]])
    /\ order' = Append(Rest(x), c)
    /\ LoopWithout(Keyed(x))
    /\ UNCHANGED <<memfuncs, kind, locals>>

\* The cell of the key is freed, then the new one is pushed; it may have the
\* address of the old one.
CompoundSet(x, c) ==
    /\ Idle /\ kind = "compound"
    /\ Allocate(c, x, Keyed(x))
    /\ LET m == PointersWithout(x)
       IN  Point([items |-> c, next |-> [m.next EXCEPT ![c] = m.items]])
    /\ order' = <<c>> \o Rest(x)
    /\ LoopWithout(Keyed(x))
    /\ UNCHANGED <<memfuncs, kind, locals>>

-----------------------------------------------------------------------------
(* rs_list_reverse, one turn of its loop at a time.                        *)

ListReverse ==
    /\ Idle /\ kind = "list"
    /\ pc' = "reverse" /\ last' = NULL /\ cell' = items
    /\ turned' = looping
    /\ UNCHANGED <<memfuncs, kind, items, memory, order, looping, it, given, kept, broken>>

\* Mutant: the first cell keeps its pointer.
ReverseLoosely ==
    /\ pc = "reverse" /\ cell # NULL
    /\ next' = IF last = NULL THEN next ELSE [next EXCEPT ![cell] = last]
    /\ last' = cell /\ cell' = next[cell]
    /\ UNCHANGED <<memfuncs, kind, items, data, live, maker, pc, order, loop>>

ReverseCell ==
    /\ pc = "reverse" /\ cell # NULL
    /\ next' = [next EXCEPT ![cell] = last]
    /\ last' = cell /\ cell' = next[cell]
    /\ UNCHANGED <<memfuncs, kind, items, data, live, maker, pc, order, loop>>

Reversed ==
    /\ pc = "reverse" /\ cell = NULL
    /\ items' = last
    /\ pc' = "idle" /\ last' = NULL
    /\ order' = Reverse(order)
    /\ UNCHANGED <<memfuncs, kind, memory, cell, loop>>

-----------------------------------------------------------------------------
(* The last rs_tag_unref of the container: rs_list_free pops each cell.    *)

FreeContainer ==
    /\ Idle /\ kind # "none"
    /\ kind' = "none" /\ items' = NULL
    /\ pc' = "free" /\ cell' = items
    /\ order' = <<>>
    /\ LoopWithout(Linked)
    /\ UNCHANGED <<memfuncs, memory, last>>

\* Mutant: the loop ends before the last cell.
PopButLast ==
    /\ pc = "free" /\ cell # NULL
    /\ cell' = next[cell]
    /\ IF next[cell] = NULL THEN UNCHANGED memory
       ELSE /\ next' = [next EXCEPT ![cell] = NULL]
            /\ FreeCell(cell)
    /\ UNCHANGED <<memfuncs, kind, items, pc, last, order, loop>>

Pop ==
    /\ pc = "free" /\ cell # NULL
    /\ cell' = next[cell]
    /\ next' = [next EXCEPT ![cell] = NULL]
    /\ FreeCell(cell)
    /\ UNCHANGED <<memfuncs, kind, items, pc, last, order, loop>>

Freed ==
    /\ pc = "free" /\ cell = NULL
    /\ pc' = "idle"
    /\ UNCHANGED <<memfuncs, kind, items, memory, last, cell, order, loop>>

-----------------------------------------------------------------------------
(* Iterators.                                                              *)

LoopOver ==
    /\ given' = {} /\ kept' = {}
    /\ looping' = FALSE /\ it' = NULL
    /\ turned' = FALSE /\ broken' = FALSE

IteratorInit ==
    /\ Idle /\ kind # "none" /\ ~looping
    /\ looping' = TRUE /\ it' = items
    /\ kept' = Linked
    /\ UNCHANGED <<memfuncs, kind, items, memory, locals, order, given, turned, broken>>

\* Mutant: the iterator stays on the item it gives, and moves on in the next call.
IteratorLags ==
    /\ Idle /\ looping
    /\ it \in live
    /\ LET c == IF it \in given THEN next[it] ELSE it
       IN  c # NULL /\ given' = given \cup {c} /\ it' = c
    /\ UNCHANGED <<memfuncs, kind, items, memory, locals, order, looping, kept, turned, broken>>

\* The next item, and the iterator goes on before the client gets it.
IteratorNext ==
    /\ Idle /\ looping
    /\ it \in live
    /\ given' = given \cup {it}
    /\ it' = next[it]
    /\ UNCHANGED <<memfuncs, kind, items, memory, locals, order, looping, kept, turned, broken>>

\* There is no next item, or the client leaves the loop before.
IteratorEnd ==
    /\ Idle /\ looping
    /\ LoopOver
    /\ UNCHANGED <<memfuncs, kind, items, memory, locals, order>>

\* The cell the iterator stands on was freed.
IteratorFault ==
    /\ Idle /\ looping
    /\ it \in Cell \ live
    /\ pc' = "faulted"
    /\ UNCHANGED <<memfuncs, kind, items, memory, last, cell, order, loop>>

-----------------------------------------------------------------------------
Next ==
    \/ \E t \in Table : SetMemoryFunctions(t)
    \/ \E k \in {"list", "compound"} : New(k)
    \/ \E i \in 0 .. Cardinality(Cell), x \in Tag, c \in Cell : ListInsert(i, x, c)
    \/ \E i \in 0 .. Cardinality(Cell) : ListDelete(i)
    \/ \E x \in Key, c \in Cell : CompoundSet(x, c)
    \/ \E x \in Key : CompoundDelete(x)
    \/ ListReverse \/ ReverseCell \/ Reversed
    \/ FreeContainer \/ Pop \/ Freed
    \/ IteratorInit \/ IteratorNext \/ IteratorEnd \/ IteratorFault

Spec == Init /\ [][Next]_vars

\* The client of a loop goes on with it.
FairSpec == Spec /\ WF_vars(IteratorNext)

-----------------------------------------------------------------------------
(* Properties.                                                             *)

\* The cells of s are linked in this order, from pointer p to NULL.
Chain(p, s) ==
    /\ p = IF s = <<>> THEN NULL ELSE s[1]
    /\ \A i \in DOMAIN s : next[s[i]] = IF i = Len(s) THEN NULL ELSE s[i + 1]

\* Following the pointers gives the cells of the container in order, each once
\* and then NULL; while the list is turned round, those already turned hang on
\* `last', the others on `cell' (list.c:123-136).
WellLinked ==
    /\ \A i, j \in DOMAIN order : order[i] = order[j] => i = j
    /\ IF pc = "reverse"
       THEN \E k \in 0 .. Len(order) :
               /\ Chain(last, Reverse(SubSeq(order, 1, k)))
               /\ Chain(cell, SubSeq(order, k + 1, Len(order)))
       ELSE Chain(items, order)

\* No cell is lost and none is freed that the container still uses: what is
\* allocated is what is linked, and nothing once rs_list_free is done.
CellsExact ==
    /\ pc # "free" => live = ToSet(order)
    /\ pc = "free" /\ cell = NULL => live = {}

\* Every cell is freed by the table of functions that allocated it, if clients
\* replace the table only while they hold no container (memory.c:13-23): none of
\* the cells outlives its container.
OneAllocator == \A c \in live : maker[c] = memfuncs

\* A loop whose body takes out only items it was given reads no freed cell: the
\* iterator has left an item's cell before the client gets the item
\* (tag.c:616-617, 726).
NoStaleRead == pc = "faulted" => broken

\* Such a loop gives each item that stays in the container to its client exactly
\* once, whatever is inserted, set or deleted meanwhile, unless the list is
\* turned round under it.
EachOnce ==
    looping /\ ~turned /\ ~broken =>
        /\ it \notin given
        /\ it = NULL => kept \subseteq given

\* A loop over a compound comes to its end, though its body may set keys in every
\* turn: new cells go in front, where the iterator does not come.  (A loop over a
\* list whose body appends need not end.)
LoopsEnd == looping /\ kind = "compound" ~> ~looping \/ it = NULL \/ broken

\* The cells implement the sequences of TagList, and a pointer to a cell the
\* place in them.
Sequence == INSTANCE TagList WITH
    content <- [i \in DOMAIN order |-> data[order[i]]],
    place <- IF ~looping THEN 0
             ELSE IF it = NULL THEN -1
             ELSE IF it \in ToSet(order) THEN CHOOSE i \in DOMAIN order : order[i] = it
             ELSE -2

ListSpec == Sequence!ListSpec
=============================================================================
