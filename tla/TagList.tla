------------------------------ MODULE TagList ------------------------------
(***************************************************************************)
(* What src/src/tag.h promises of the items of a list or a compound, and   *)
(* of a loop over them, without cells and pointers: a sequence, as module  *)
(* TagHeap uses it, and the place of an iterator in it.  The items of a    *)
(* compound are its keys.                                                  *)
(*                                                                         *)
(* An iterator stays with its item when others come and go.  If its own    *)
(* item is deleted it is lost, and nothing is promised of it any more.     *)
(***************************************************************************)
EXTENDS Integers, SequencesExt, FiniteSetsExt

CONSTANTS Item

VARIABLES
    content,
    place     \* of the next item of the loop, or one of the following

lvars == <<content, place>>

NoLoop == 0
AtEnd == -1
Lost == -2

ListInit == content = <<>> /\ place = NoLoop

\* The iterator goes to p, unless it was lost.
MoveTo(p) ==
    IF place = Lost THEN place' \in {NoLoop, AtEnd, Lost} \cup DOMAIN content'
    ELSE place' = p

Insert(i, x) ==
    LET p == IF i < Len(content) THEN i + 1 ELSE Len(content) + 1
    IN  /\ content' = InsertAt(content, p, x)
        /\ MoveTo(IF place >= p THEN place + 1 ELSE place)

PlaceWithout(p) ==
    IF place = p THEN Lost ELSE IF place > p THEN place - 1 ELSE place

Delete(p) ==
    /\ content' = RemoveAt(content, p)
    /\ MoveTo(PlaceWithout(p))

\* A key that was there comes to the front.
SetKey(x) ==
    IF \E p \in DOMAIN content : content[p] = x
    THEN \E p \in DOMAIN content :
            /\ content[p] = x
            /\ content' = <<x>> \o RemoveAt(content, p)
            /\ IF place = p THEN place' \in {Lost} \cup DOMAIN content'
               ELSE MoveTo(IF place > 0 THEN PlaceWithout(p) + 1 ELSE place)
    ELSE Insert(0, x)

Turn ==
    /\ content' = Reverse(content)
    /\ MoveTo(IF place > 0 THEN Len(content) + 1 - place ELSE place)

Clear ==
    /\ content' = <<>>
    /\ MoveTo(IF place > 0 THEN Lost ELSE place)

Begin ==
    /\ place' = IF content = <<>> THEN AtEnd ELSE 1
    /\ UNCHANGED content

Advance ==
    /\ place # NoLoop
    /\ MoveTo(IF place = AtEnd THEN NoLoop ELSE IF place = Len(content) THEN AtEnd ELSE place + 1)
    /\ UNCHANGED content

LeaveLoop == place' = NoLoop /\ UNCHANGED content

ListNext ==
    \/ \E i \in 0 .. Len(content), x \in Item : Insert(i, x)
    \/ \E p \in DOMAIN content : Delete(p)
    \/ \E x \in Item : SetKey(x)
    \/ Turn
    \/ Clear
    \/ Begin
    \/ Advance
    \/ LeaveLoop

ListSpec == ListInit /\ [][ListNext]_lvars
=============================================================================
