--------------------------- MODULE RegionHistory ---------------------------
(***************************************************************************)
(* What a client of src/src/region.c may rely on, and under which rules.   *)
(*                                                                         *)
(* Region lets clients do everything the functions accept.  Here clients   *)
(* keep to rules under which the flush is meant to work (CarefulNext), and *)
(* two history variables remember the chunks and the unused sectors at the *)
(* start of the flush in progress, so that properties can speak of old     *)
(* and new.                                                                *)
(***************************************************************************)
EXTENDS Region, FiniteSetsExt

CONSTANTS Absent, Torn, Nothing

VARIABLES
    before,  \* each chunk as it read when the flush in progress began
    slack    \* unused sectors at that time

hvars == <<vars, before, slack>>

-----------------------------------------------------------------------------
(* Reading chunks.                                                         *)

\* The dates chunks may have: those of clients and of the first file.
Dates == Times \cup {f.timestamps[c] : f \in InitialFiles, c \in Chunk}

Value == [data : Payload, enc : 0..2, time : Dates]

EndOf(c) == locations[c].offset + locations[c].sector_count

\* What a reader of the file finds: the payload if every sector is there.
View(c) ==
    LET o == locations[c].offset
        head == sectors[o]
        whole == /\ o \in DOMAIN sectors
                 /\ head.data # NoData
                 /\ locations[c].sector_count = SectorsFor(PayloadLen[head.data])
                 /\ \A k \in 0 .. locations[c].sector_count - 1 :
                       /\ o + k \in DOMAIN sectors
                       /\ sectors[o + k] = [head EXCEPT !.part = k]
    IN  IF ~ContainsChunk(c) THEN Absent
        ELSE IF whole THEN [data |-> head.data, enc |-> head.enc, time |-> timestamps[c]]
        ELSE Torn

Views == [c \in Chunk |-> View(c)]

Live == {c \in Chunk : ContainsChunk(c)}

\* Every live chunk lies inside the file and no two of them share a sector.
LayoutOK ==
    /\ \A c \in Live : locations[c].offset >= HeaderSectors /\ EndOf(c) <= fsize
    /\ \A c, d \in Live : c # d => EndOf(c) <= locations[d].offset
                                   \/ EndOf(d) <= locations[c].offset

Sound == ~ragged /\ LayoutOK /\ \A c \in Chunk : View(c) # Torn

Slack ==
    fsize - HeaderSectors - SumFunction([c \in Live |-> locations[c].sector_count])

\* The value each chunk has once all writes of the list are applied.
Written(w) ==
    IF w.data = NoData THEN Absent
    ELSE [data |-> w.data, enc |-> EncodingByte(w.encoding), time |-> w.timestamp]

Outstanding ==
    [c \in Chunk |->
        IF \E i \in DOMAIN cached_writes : cached_writes[i].pos = c
        THEN Written(cached_writes[CHOOSE i \in DOMAIN cached_writes :
                                        cached_writes[i].pos = c])
        ELSE Nothing]

After == [c \in Chunk |-> IF Outstanding[c] = Nothing THEN before[c] ELSE Outstanding[c]]

\* A region has 32 by 32 chunks (region.c:149).
ASSUME ChunkAssumption == IsFiniteSet(Chunk) /\ Cardinality(Chunk) <= 1024

ASSUME HistoryAssumption ==
    /\ {Absent, Torn, Nothing} \cap Value = {}
    /\ Absent # Torn /\ Absent # Nothing /\ Torn # Nothing

-----------------------------------------------------------------------------
(* The rules clients keep.                                                 *)

\* A chunk has a NULL pointer exactly if it has no length, fits the uint8_t of
\* the location table, and is dated: a chunk of time 0 counts as absent.
CarefulWrite(w) ==
    /\ w.data = NoData <=> w.length = 0
    /\ SectorsFor(w.length) < CountMod
    /\ w.length > 0 => w.timestamp # 0

\* The writes that a flush would take for shrinks, and the sectors they free.
ShrinkWrites ==
    {i \in DOMAIN cached_writes :
        LET w == cached_writes[i]
        IN  /\ ContainsChunk(w.pos)
            /\ \/ w.data = NoData
               \/ \E l \in LengthsAt(locations[w.pos].offset) : w.length <= l}

Frees(w) ==
    locations[w.pos].sector_count - (IF w.data = NoData THEN 0 ELSE CountFor(w.length))

Freed == SumFunction([i \in ShrinkWrites |-> Frees(cached_writes[i])])

\* The shrinking pass moves nothing that lies behind the last chunk it shrinks,
\* and the resize cuts the freed sectors off the end.
TailSurvives ==
    \A c \in Live :
        (\A i \in ShrinkWrites :
            locations[cached_writes[i].pos].offset < locations[c].offset)
        => EndOf(c) <= fsize - Freed

CarefulOpen(m) == Open(m) /\ Sound

CarefulSet(c) == SetChunk(c) /\ CarefulWrite(cached_writes'[1])

CarefulFlush(b) == StartFlush(b) /\ (mapped => TailSurvives)

\* The history variables of a step: a flush remembers what it starts from.
History ==
    IF pc' = "idle" THEN before' = Views' /\ slack' = 0
    ELSE IF pc = "idle" THEN before' = Views /\ slack' = Slack
    ELSE UNCHANGED <<before, slack>>

HistoryInit == Init /\ before = Views /\ slack = 0

\* Clients that keep to no rule.
HistorySpec == HistoryInit /\ [][Next /\ History]_hvars

\* Clients that keep to all of them.  They also ask nothing of a region that is
\* not mapped; of one that is, LayoutAtLoopHeads says a getter cannot fault.
CarefulStep ==
    \/ \E m \in {"ro", "rw"} : CarefulOpen(m)
    \/ \E c \in Chunk : CarefulSet(c) \/ ClearChunk(c)
    \/ \E b \in BOOLEAN : CarefulFlush(b)
    \/ CloseClean
    \/ FlushStep
    \/ Crash

CarefulNext == CarefulStep /\ History

CarefulInit == HistoryInit /\ Sound

CarefulSpec == CarefulInit /\ [][CarefulNext]_hvars

\* A flush is a loop of one process: it takes its next step unless it dies.
FairCarefulSpec == CarefulSpec /\ WF_hvars(FlushStep /\ History)

-----------------------------------------------------------------------------
(* Properties.                                                             *)

\* Under the rules no assertion of the flush fails and nothing is read or
\* written outside the mapping (rs_assert at region.c:404, 521-523, 592, 632-634).
NoFailure == status = "ok"

\* Steps between which every chunk has its bytes where the table says.
LoopHead == pc \in {"idle", "size", "place", "classify", "shrink", "shrinkEntry",
                    "resize", "grow", "growEntry", "finish"}

\* Whenever no move or store is under way, in the middle of a flush too, the
\* live chunks are disjoint and inside the file.
LayoutAtLoopHeads == LoopHead => LayoutOK

\* At every store of a flush each live chunk's entry points into the file as it is
\* then: a process that maps the file in the middle of another's flush, or after
\* its crash, can ask for every chunk without leaving its mapping (region.c:526-539,
\* 593-598, 642-650; the getters check nothing).
EntriesInFile == \A c \in Live : EndOf(c) <= fsize

\* The chunks whose bytes a move or a store has in hand.
InHand ==
    CASE pc = "placeData" -> {cached_writes[cell].pos}
      [] pc = "shrinkData" -> {g.write.pos : g \in {h \in shrinks : HeadsShrinks(h)}}
      [] pc = "growData" -> {g.write.pos : g \in {h \in grows : HeadsGrows(h)}}
      [] pc = "shrinkMove" ->
            {c \in Live : \E g \in shrinks :
                /\ HeadsShrinks(g)
                /\ locations[c].offset \in write_head .. write_head + ShrinkGap(g) - 1}
      [] pc = "growMove" ->
            {c \in Live : \E g \in grows :
                /\ HeadsGrows(g)
                /\ locations[c].offset \in write_head - GrowGap(g) .. write_head - 1}
      [] OTHER -> {}

\* At every point of a flush, so after a crash at any point too, each chunk the
\* flush does not have in hand reads as before the flush or as written.
EachOldOrNew ==
    pc # "idle" => \A c \in Chunk \ InHand : View(c) \in {before[c], After[c]}

\* The sectors a chunk gains by a write of the growing pass.
Growth(w) ==
    CountFor(w.length) - (IF ContainsChunk(w.pos) THEN locations[w.pos].sector_count ELSE 0)

\* The gap between the heads of the growing pass is what the chunks not yet
\* grown need: the pass neither runs out of room nor leaves a hole.
GapIsGrowth ==
    pc = "grow" =>
        write_head - read_head = SumFunction([g \in grows |-> Growth(g.write)])

\* A flush of an existing file wastes no sector; one of an empty file wastes
\* one for every clear in its list.
FlushKeepsSlack ==
    pc = "finish" =>
        Slack = IF slack >= 0 THEN slack
                ELSE Cardinality({i \in DOMAIN cached_writes :
                                     cached_writes[i].length = 0})

\* When a flush ends, every chunk reads as written, or as before if it was not
\* written ("flushes all cached writes", region.h:197).
FlushAppliesWrites ==
    pc = "finish" /\ (\A c \in Chunk : before[c] # Torn) => Views = After

\* A getter asked of an open region answers, "If the chunk does not exist, this
\* is NULL" (region.h:101): a fault outside a flush is a getter's.
GettersAnswer == status = "faulted" => pc # "idle"

\* The assertions of the flush are never tripped by what the file holds: rs_assert
\* is for "internal-consistancy checks ONLY" (error.h:17).
AssertionsInternal == status # "aborted"

\* A flush that is not interrupted ends.
FlushTerminates == pc # "idle" ~> pc = "idle"

\* The region implements the promise of RegionStore: seen from outside, a flush
\* happens at once when it ends.
Store == INSTANCE RegionStore WITH
            Date <- [v \in Value |-> v.time],
            store <- IF pc = "idle" THEN Views ELSE before,
            pending <- Outstanding

StoreSpec == Store!StoreSpec
=============================================================================
