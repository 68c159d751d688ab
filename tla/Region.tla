------------------------------- MODULE Region -------------------------------
(***************************************************************************)
(* The region container of libredstone: src/src/region.c.                  *)
(*                                                                         *)
(* A region file is an array of 4096-byte sectors.  The first two hold the *)
(* chunk location table and the timestamp table; every live chunk owns a   *)
(* run of sectors behind them.  The library maps the file into memory,     *)
(* remembers writes in a list, and rs_region_flush rewrites the mapping in *)
(* place: one pass over the shrinking chunks towards the front, a resize,  *)
(* one pass over the growing chunks towards the back.                      *)
(*                                                                         *)
(* The mapping is shared, so every store into it is at once a store into   *)
(* the file.  A flush is therefore modelled store by store: location       *)
(* shift, memmove, table entry, chunk data.  The process may die between   *)
(* any two of them.  Sizes and positions are counted in sectors.           *)
(* An access outside the mapping is undefined: it may fault, or read       *)
(* arbitrary bytes and write to memory that belongs to something else.     *)
(* A store into the first two sectors puts arbitrary bytes into the tables. *)
(***************************************************************************)
EXTENDS Integers, Sequences, FiniteSets

CONSTANTS
    Chunk,        \* chunk coordinates (x, z) of the region
    Payload,      \* contents a client may store
    NoData,       \* a NULL data pointer
    PayloadLen,   \* byte length of each payload
    Guess,        \* what rs_get_compression_type says of each payload
    Encodings,    \* encodings clients pass to rs_region_set_chunk_data
    Times,        \* timestamps clients pass to rs_region_set_chunk_data_full
    NullLens,     \* lengths clients pass along with a NULL data pointer
    InitialFiles, \* files the region may be opened on
    StrayLocations, StrayTimes, \* what other bytes read as, if they lie in the tables
    MaxFile       \* bound: no flush starts that could exceed this many sectors

SectorSize == 4096
HeaderSectors == 2
CountMod == 256          \* ChunkLocation.sector_count is a uint8_t
WordSectors == 1048576   \* 2^32 bytes, the range of a uint32_t, in sectors
Huge == 2147483647       \* stands for UINT32_MAX: above every offset and length

Encoding == {"gzip", "zlib", "unknown", "auto"}

\* Sectors needed for len bytes behind the 5-byte chunk header.
SectorsFor(len) == (len + 5 + (SectorSize - 1)) \div SectorSize

\* Mutant: a sector too many in the table.
CountOneMore(len) == SectorsFor(len) + 1

\* What the uint8_t of the location table keeps of that number.
CountFor(len) == SectorsFor(len) % CountMod

\* Mutant: the number of the enum is stored, not that of the file format.
EnumByte(enc) == CASE enc = "auto" -> 0 [] enc = "gzip" -> 1 [] enc = "zlib" -> 2 [] OTHER -> 3

EncodingByte(enc) == CASE enc = "gzip" -> 1 [] enc = "zlib" -> 2 [] OTHER -> 0

Location == [offset : Int, sector_count : 0 .. CountMod - 1]
NoLocation == [offset |-> 0, sector_count |-> 0]

Sector == [data : Payload \cup {NoData}, part : Nat, enc : 0..2]
Blank == [data |-> NoData, part |-> 0, enc |-> 0]     \* a sector of zeros
Garbage == [data |-> NoData, part |-> 1, enc |-> 0]   \* bytes of no chunk

IsFile(f) ==
    /\ f.fsize \in Nat
    /\ f.ragged \in BOOLEAN
    /\ f.locations \in [Chunk -> Location]
    /\ f.timestamps \in [Chunk -> Nat]
    /\ f.sectors \in [HeaderSectors .. f.fsize - 1 -> Sector]
    /\ f.fsize = 0 => \A c \in Chunk :
                        f.locations[c] = NoLocation /\ f.timestamps[c] = 0

ASSUME PayloadAssumption ==
    /\ NoData \notin Payload
    /\ PayloadLen \in [Payload -> Nat \ {0}]
    /\ Guess \in [Payload -> {"gzip", "zlib", "unknown"}]
ASSUME InputAssumption ==
    /\ Encodings \subseteq Encoding
    /\ Times \subseteq Nat
    /\ NullLens \subseteq Nat
    /\ MaxFile \in Nat
ASSUME StrayAssumption == StrayLocations \subseteq Location /\ StrayTimes \subseteq Nat
ASSUME FileAssumption == \A f \in InitialFiles : IsFile(f)

VARIABLES
    \* the file
    fsize,          \* its length in sectors, a last partial one included
    ragged,         \* whether that last sector is partial
    locations,      \* the location table
    timestamps,     \* the timestamp table
    sectors,        \* what the sectors behind the tables hold
    \* the handle
    mode,           \* "closed", "ro" or "rw"
    mapped,         \* whether the file is mapped (it is not while empty)
    cached_writes,  \* the list of writes, newest first
    \* the flush in progress
    pc,             \* the store it makes next
    cell,           \* index into cached_writes
    shrinks, grows, \* the two ordered lists, as sets of ordered writes
    sectors_added,
    new_fsize,
    read_head,
    write_head,
    closing,        \* whether rs_region_close called it
    status          \* "ok", "aborted" by an assertion, or "faulted"

file == <<fsize, ragged, locations, timestamps, sectors>>
handle == <<mode, mapped, cached_writes>>
plan == <<shrinks, grows, sectors_added, new_fsize>>
heads == <<read_head, write_head>>
vars == <<file, handle, pc, cell, plan, heads, closing, status>>

ChunkWrite ==
    [pos : Chunk, data : Payload \cup {NoData}, length : Nat,
     encoding : Encoding, timestamp : Nat]
OrderedChunkWrite == [write : ChunkWrite, order : Int, rank : Nat]

Steps == {"idle", "size", "place", "placeData",
          "classify", "shrink", "shrinkMove", "shrinkEntry", "shrinkData",
          "resize", "grow", "growMove", "growEntry", "growData", "finish"}

\* The file, the handle and the flush in progress are what their types say: every
\* sector of the file has contents, after each resize too, and the lists hold
\* writes.
FileTypeOK ==
    /\ fsize \in Nat
    /\ locations \in [Chunk -> Location]
    /\ timestamps \in [Chunk -> Nat]
    /\ sectors \in [HeaderSectors .. fsize - 1 -> Sector]

HandleTypeOK ==
    /\ mode \in {"closed", "ro", "rw"}
    /\ cached_writes \in Seq(ChunkWrite)

FlushTypeOK ==
    /\ pc \in Steps
    /\ cell \in Nat
    /\ shrinks \subseteq OrderedChunkWrite
    /\ grows \subseteq OrderedChunkWrite
    /\ sectors_added \in Int
    /\ new_fsize \in Int
    /\ read_head \in Int
    /\ write_head \in Int
    /\ status \in {"ok", "aborted", "faulted"}

FlagTypeOK == {ragged, mapped, closing} \subseteq BOOLEAN

\* Type correctness, of all of it: the file is a file at every store of a flush.
TypeOK == FileTypeOK /\ HandleTypeOK /\ FlushTypeOK /\ FlagTypeOK

-----------------------------------------------------------------------------
(* Reading the tables.                                                     *)

\* rs_region_contains_chunk, on a mapped file.
ContainsChunk(c) ==
    /\ locations[c].offset # 0
    /\ locations[c].sector_count # 0
    /\ timestamps[c] # 0

\* The lengths rs_region_get_chunk_length may return of a chunk at sector o.
\* A sector in the middle of a chunk holds arbitrary bytes: read as a length
\* they may be below or above anything they are compared with.  So does memory
\* behind the mapping, when reading it does not fault.
LengthsAt(o) ==
    LET head == sectors[o]
    IN  IF o \notin DOMAIN sectors THEN {0, Huge}
        ELSE IF head = Blank THEN {Huge}
        ELSE IF head.data # NoData /\ head.part = 0 THEN {PayloadLen[head.data]}
        ELSE {0, Huge}

-----------------------------------------------------------------------------
(* Opening, querying, and remembering writes.                              *)

NoFlush ==
    /\ pc = "idle" /\ cell = 0
    /\ shrinks = {} /\ grows = {} /\ sectors_added = 0 /\ new_fsize = 0
    /\ read_head = 0 /\ write_head = 0
    /\ closing = FALSE /\ status = "ok"

Init ==
    /\ \E f \in InitialFiles :
          /\ fsize = f.fsize
          /\ ragged = f.ragged
          /\ locations = f.locations
          /\ timestamps = f.timestamps
          /\ sectors = f.sectors
    /\ mode = "closed" /\ mapped = FALSE /\ cached_writes = <<>>
    /\ NoFlush

Idle == pc = "idle" /\ status = "ok" /\ mode # "closed"

\* Zero size is valid, but anything between 0 and the two header sectors isn't.
Open(m) ==
    /\ mode = "closed"
    /\ \/ fsize = 0
       \/ fsize > HeaderSectors
       \/ fsize = HeaderSectors /\ ~ragged
    /\ mode' = m
    /\ mapped' = (fsize > 0)
    /\ UNCHANGED <<file, cached_writes, pc, cell, plan, heads, closing, status>>

\* Whether sector o lies behind the mapping, or before it.
Outside(o) == o \notin 0 .. fsize - 1

\* A getter leaves everything alone, but may fault on what is not mapped: the
\* tables of a file that is still empty, or a chunk behind the end of the file.
QueryFault(c) ==
    /\ Idle
    /\ \/ ~mapped
       \/ ContainsChunk(c) /\ Outside(locations[c].offset)
    /\ status' = "faulted"
    /\ UNCHANGED <<file, handle, pc, cell, plan, heads, closing>>

\* rs_list_remove of the i-th cell.
WithoutCell(s, i) ==
    [j \in 1 .. Len(s) - 1 |-> IF j < i THEN s[j] ELSE s[j + 1]]

\* Mutant: the old write stays in the list.
WithOldWrite(c) == cached_writes

\* The cached writes less the first one for chunk c, if there is one.
WithoutWrite(c) ==
    LET found == {i \in DOMAIN cached_writes : cached_writes[i].pos = c}
        first == CHOOSE i \in found : \A j \in found : i <= j
    IN  IF found = {} THEN cached_writes ELSE WithoutCell(cached_writes, first)

\* Mutant: a region opened for reading takes writes too.
SetWhateverMode(c, data, len, enc, t) ==
    /\ Idle
    /\ cached_writes' = <<[pos |-> c, data |-> data, length |-> len,
                           encoding |-> "zlib", timestamp |-> t]>> \o WithoutWrite(c)
    /\ UNCHANGED <<file, mode, mapped, pc, cell, plan, heads, closing, status>>

SetChunkDataFull(c, data, len, enc, t) ==
    /\ Idle /\ mode = "rw"
    /\ LET real == data # NoData /\ len > 0
           job == [pos |-> c,
                   data |-> IF real THEN data ELSE NoData,
                   length |-> len,
                   encoding |-> IF real /\ enc = "auto" THEN Guess[data] ELSE enc,
                   timestamp |-> t]
       IN  cached_writes' = <<job>> \o WithoutWrite(c)
    /\ UNCHANGED <<file, mode, mapped, pc, cell, plan, heads, closing, status>>

SetChunk(c) ==
    \E enc \in Encodings, t \in Times :
        \/ \E p \in Payload : SetChunkDataFull(c, p, PayloadLen[p], enc, t)
        \/ \E len \in NullLens : SetChunkDataFull(c, NoData, len, enc, t)

ClearChunk(c) == SetChunkDataFull(c, NoData, 0, "unknown", 0)

-----------------------------------------------------------------------------
(* Starting and ending a flush.  With nothing to write, or in read-only    *)
(* mode, rs_region_flush changes nothing.                                  *)

\* Bound: the file stays within MaxFile sectors.
WithinBound ==
    LET owned(c) == IF ContainsChunk(c) THEN locations[c].sector_count ELSE 0
        extra(w) == SectorsFor(w.length) - owned(w.pos)
        total[i \in 0 .. Len(cached_writes)] ==
            IF i = 0 THEN (IF mapped THEN fsize ELSE HeaderSectors)
            ELSE total[i - 1] + (IF extra(cached_writes[i]) > 0
                                 THEN extra(cached_writes[i]) ELSE 0)
    IN  total[Len(cached_writes)] <= MaxFile

StartFlush(byClose) ==
    /\ Idle /\ mode = "rw" /\ cached_writes # <<>> /\ WithinBound
    /\ pc' = IF mapped THEN "classify" ELSE "size"
    /\ cell' = 1
    /\ closing' = byClose
    /\ UNCHANGED <<file, handle, plan, heads, status>>

CloseClean ==
    /\ Idle /\ cached_writes = <<>>
    /\ mode' = "closed" /\ mapped' = FALSE
    /\ UNCHANGED <<file, cached_writes, pc, cell, plan, heads, closing, status>>

Flushing == pc # "idle" /\ status = "ok"

Finish ==
    /\ Flushing /\ pc = "finish"
    /\ mode' = (IF closing THEN "closed" ELSE mode)
    /\ mapped' = ~closing
    /\ cached_writes' = <<>>
    /\ pc' = "idle" /\ cell' = 0
    /\ shrinks' = {} /\ grows' = {} /\ sectors_added' = 0 /\ new_fsize' = 0
    /\ read_head' = 0 /\ write_head' = 0 /\ closing' = FALSE
    /\ UNCHANGED <<file, status>>

\* rs_assert: the process aborts, the file stays as it is.
Abort ==
    /\ status' = "aborted"
    /\ UNCHANGED <<file, handle, pc, cell, plan, heads, closing>>

Fault ==
    /\ status' = "faulted"
    /\ UNCHANGED <<file, handle, pc, cell, plan, heads, closing>>

-----------------------------------------------------------------------------
(* Flushing into an empty file: size it, map it, place the writes in order. *)

\* One write of the loop that adds up final_size.  A clear counts too: its
\* five header bytes are rounded up to a sector that stays unused.
SizeWrite ==
    /\ Flushing /\ pc = "size" /\ cell <= Len(cached_writes)
    /\ new_fsize' = new_fsize + SectorsFor(cached_writes[cell].length)
    /\ cell' = cell + 1
    /\ UNCHANGED <<file, handle, pc, shrinks, grows, sectors_added, heads,
                   closing, status>>

CreateFile ==
    /\ Flushing /\ pc = "size" /\ cell > Len(cached_writes)
    /\ fsize' = HeaderSectors + new_fsize
    /\ locations' = [c \in Chunk |-> NoLocation]
    /\ timestamps' = [c \in Chunk |-> 0]
    /\ sectors' = [s \in HeaderSectors .. fsize' - 1 |-> Blank]
    /\ mapped' = TRUE
    /\ write_head' = HeaderSectors
    /\ pc' = "place" /\ cell' = 1
    /\ UNCHANGED <<ragged, mode, cached_writes, plan, read_head, closing, status>>

\* The three stores into the tables.
SetEntry(c, offset, count, t) ==
    /\ locations' = [locations EXCEPT ![c] =
                        [offset |-> offset, sector_count |-> count]]
    /\ timestamps' = [timestamps EXCEPT ![c] = t]

\* Mutant: the entries of all chunks that lie behind the cleared one go too.
ClearFrom(c) ==
    LET behind == {d \in Chunk : locations[d].offset >= locations[c].offset}
    IN  /\ locations' = [d \in Chunk |-> IF d \in behind THEN NoLocation ELSE locations[d]]
        /\ timestamps' = [d \in Chunk |-> IF d \in behind THEN 0 ELSE timestamps[d]]

ClearEntry(c) == SetEntry(c, 0, 0, 0)

PlaceClear ==
    /\ Flushing /\ pc = "place" /\ cell <= Len(cached_writes)
    /\ cached_writes[cell].length = 0
    /\ ClearEntry(cached_writes[cell].pos)
    /\ cell' = cell + 1
    /\ UNCHANGED <<fsize, ragged, sectors, handle, pc, plan, heads, closing, status>>

PlaceEntry ==
    /\ Flushing /\ pc = "place" /\ cell <= Len(cached_writes)
    /\ LET w == cached_writes[cell]
       IN  /\ w.length # 0
           /\ SetEntry(w.pos, write_head, CountFor(w.length), w.timestamp)
    /\ pc' = "placeData"
    /\ UNCHANGED <<fsize, ragged, sectors, handle, cell, plan, heads, closing, status>>

\* The sectors of write w, stored from sector `at' on.
StoreData(w, at) ==
    sectors' = [s \in DOMAIN sectors |->
                  IF s \in at .. at + SectorsFor(w.length) - 1
                  THEN [data |-> w.data, part |-> s - at,
                        enc |-> EncodingByte(w.encoding)]
                  ELSE sectors[s]]

\* What storing n sectors from sector `at' on does to the tables: they lie in the
\* first two, and no store of a flush looks whether it reaches them.
StoreTables(at, n) ==
    /\ IF 0 \in at .. at + n - 1 THEN locations' \in [Chunk -> StrayLocations]
       ELSE UNCHANGED locations
    /\ IF 1 \in at .. at + n - 1 THEN timestamps' \in [Chunk -> StrayTimes]
       ELSE UNCHANGED timestamps

\* The chunk header is written before rs_assert(write->data).
PlaceHeaderOnly ==
    /\ Flushing /\ pc = "placeData"
    /\ LET w == cached_writes[cell]
       IN  /\ w.data = NoData
           /\ sectors' = [sectors EXCEPT ![write_head] =
                             [data |-> NoData, part |-> 1,
                              enc |-> EncodingByte(w.encoding)]]
    /\ status' = "aborted"
    /\ UNCHANGED <<fsize, ragged, locations, timestamps, handle, pc, cell, plan,
                   heads, closing>>

PlaceData ==
    /\ Flushing /\ pc = "placeData"
    /\ LET w == cached_writes[cell]
       IN  /\ w.data # NoData
           /\ StoreData(w, write_head)
           /\ write_head' = write_head + CountFor(w.length)
    /\ pc' = "place" /\ cell' = cell + 1
    /\ UNCHANGED <<fsize, ragged, locations, timestamps, handle, plan, read_head,
                   closing, status>>

PlacedAll ==
    /\ Flushing /\ pc = "place" /\ cell > Len(cached_writes)
    /\ pc' = "finish"
    /\ UNCHANGED <<file, handle, cell, plan, heads, closing, status>>

-----------------------------------------------------------------------------
(* Flushing in place, first part: sort the writes into shrinks and grows.  *)
(* The lists are ordered by sector and a write goes before those of equal  *)
(* order, so a list is the set of its members with their rank in           *)
(* cached_writes to break ties.                                            *)

Classifying == Flushing /\ pc = "classify" /\ cell <= Len(cached_writes)

Ordered(w) ==
    [write |-> w,
     order |-> IF ContainsChunk(w.pos) THEN locations[w.pos].offset ELSE Huge,
     rank |-> cell]

\* The length of the old chunk is read behind the end of the file.
ClassifyFault ==
    /\ Classifying
    /\ LET w == cached_writes[cell]
       IN  /\ w.data # NoData /\ ContainsChunk(w.pos)
           /\ Outside(locations[w.pos].offset)
    /\ Fault

\* Mutant: the loop goes on without taking the next cell.
SkipNowhere ==
    /\ Classifying
    /\ LET w == cached_writes[cell] IN w.data = NoData /\ ~ContainsChunk(w.pos)
    /\ UNCHANGED vars

ClassifySkip ==
    /\ Classifying
    /\ LET w == cached_writes[cell] IN w.data = NoData /\ ~ContainsChunk(w.pos)
    /\ cell' = cell + 1
    /\ UNCHANGED <<file, handle, pc, plan, heads, closing, status>>

ClassifyShrink ==
    /\ Classifying
    /\ LET w == cached_writes[cell]
           o == locations[w.pos].offset
       IN  /\ ContainsChunk(w.pos)
           /\ \/ w.data = NoData
              \/ \E l \in LengthsAt(o) : w.length <= l
           /\ shrinks' = shrinks \cup {Ordered(w)}
    /\ cell' = cell + 1
    /\ UNCHANGED <<file, handle, pc, grows, sectors_added, new_fsize, heads,
                   closing, status>>

ClassifyGrow ==
    /\ Classifying
    /\ LET w == cached_writes[cell]
           l == locations[w.pos]
           exists == ContainsChunk(w.pos)
       IN  /\ w.data # NoData
           /\ exists => \E len \in LengthsAt(l.offset) : w.length > len
           /\ grows' = grows \cup {Ordered(w)}
           /\ sectors_added' = sectors_added + SectorsFor(w.length)
                                - (IF exists THEN l.sector_count ELSE 0)
    /\ cell' = cell + 1
    /\ UNCHANGED <<file, handle, pc, shrinks, new_fsize, heads, closing, status>>

\* Mutant: the list is in the order of the writes, not sorted by sector.
HeadsUnsorted(g) == g \in shrinks /\ \A h \in shrinks : g.rank >= h.rank

\* Whether g heads its list as the passes take them; grows is reversed.
HeadsShrinks(g) ==
    /\ g \in shrinks
    /\ \A h \in shrinks :
          g.order < h.order \/ (g.order = h.order /\ g.rank >= h.rank)
HeadsGrows(g) ==
    /\ g \in grows
    /\ \A h \in grows :
          g.order > h.order \/ (g.order = h.order /\ g.rank <= h.rank)

Classified ==
    /\ Flushing /\ pc = "classify" /\ cell > Len(cached_writes)
    /\ new_fsize' = fsize
    /\ IF shrinks = {} THEN UNCHANGED heads
       ELSE \E g \in shrinks :
               /\ HeadsShrinks(g)
               /\ read_head' = locations[g.write.pos].offset
               /\ write_head' = read_head'
    /\ pc' = "shrink"
    /\ UNCHANGED <<file, handle, cell, shrinks, grows, sectors_added, closing, status>>

-----------------------------------------------------------------------------
(* Second part: shrink and delete chunks from the front to the back.  What *)
(* lies between two of them moves down over the space gained so far; what  *)
(* lies behind the last one is not moved.                                  *)

\* Mutant: the data moves, the table does not.
ShiftNothing(lo, hi, by) == UNCHANGED locations

\* The table entries of chunks in sectors lo .. hi - 1 move by `by' sectors.
ShiftLocations(lo, hi, by) ==
    locations' = [c \in Chunk |->
                    IF locations[c].offset \in lo .. hi - 1
                    THEN [locations[c] EXCEPT !.offset = @ + by]
                    ELSE locations[c]]

\* Mutant: the last sector is left behind.
MoveAllButOne(from, to, n) ==
    sectors' = [s \in DOMAIN sectors |->
                  IF s \in to .. to + n - 2 THEN sectors[s - to + from] ELSE sectors[s]]

\* memmove of n sectors.  What it reads behind the mapping is arbitrary.
MoveSectors(from, to, n) ==
    sectors' = [s \in DOMAIN sectors |->
                  IF s \notin to .. to + n - 1 THEN sectors[s]
                  ELSE IF s - to + from \in DOMAIN sectors THEN sectors[s - to + from]
                  ELSE Garbage]

Shrinking(step, g) == Flushing /\ pc = step /\ HeadsShrinks(g)

\* Where the data of the next shrinking chunk starts, as seen by the read head.
ShrinkGap(g) == locations[g.write.pos].offset - read_head

ShrinkAbort(g) ==
    /\ Shrinking("shrink", g)
    /\ ShrinkGap(g) < 0 \/ read_head < write_head
    /\ Abort

ShrinkShift(g) ==
    /\ Shrinking("shrink", g)
    /\ ShrinkGap(g) >= 0 /\ read_head >= write_head
    /\ ShiftLocations(read_head, read_head + ShrinkGap(g), write_head - read_head)
    /\ pc' = "shrinkMove"
    /\ UNCHANGED <<fsize, ragged, timestamps, sectors, handle, cell, plan, heads,
                   closing, status>>

\* The memmove gets as far as some sector and then faults.
ShrinkMoveFault(g) ==
    /\ Shrinking("shrinkMove", g)
    /\ ShrinkGap(g) > 0 /\ read_head + ShrinkGap(g) > fsize
    /\ \E n \in 0 .. ShrinkGap(g) - 1 :
          MoveSectors(read_head, write_head, n) /\ StoreTables(write_head, n)
    /\ status' = "faulted"
    /\ UNCHANGED <<fsize, ragged, handle, pc, cell, plan, heads, closing>>

ShrinkMove(g) ==
    /\ Shrinking("shrinkMove", g)
    /\ MoveSectors(read_head, write_head, ShrinkGap(g))
    /\ StoreTables(write_head, ShrinkGap(g))
    /\ read_head' = read_head + ShrinkGap(g)
    /\ write_head' = write_head + ShrinkGap(g)
    /\ pc' = "shrinkEntry"
    /\ UNCHANGED <<fsize, ragged, handle, cell, plan, closing, status>>

ShrinkDelete(g) ==
    /\ Shrinking("shrinkEntry", g)
    /\ LET w == g.write
           old == locations[w.pos].sector_count
       IN  /\ w.data = NoData
           /\ ClearEntry(w.pos)
           /\ read_head' = read_head + old
           /\ new_fsize' = new_fsize - old
    /\ shrinks' = shrinks \ {g}
    /\ pc' = "shrink"
    /\ UNCHANGED <<fsize, ragged, sectors, handle, cell, grows, sectors_added,
                   write_head, closing, status>>

ShrinkEntry(g) ==
    /\ Shrinking("shrinkEntry", g)
    /\ LET w == g.write
           old == locations[w.pos].sector_count
       IN  /\ w.data # NoData
           /\ SetEntry(w.pos, write_head, CountFor(w.length), w.timestamp)
           /\ read_head' = read_head + old
           /\ new_fsize' = new_fsize + CountFor(w.length) - old
    /\ pc' = "shrinkData"
    /\ UNCHANGED <<fsize, ragged, sectors, handle, cell, shrinks, grows,
                   sectors_added, write_head, closing, status>>

DataFits(w) == write_head + SectorsFor(w.length) <= fsize

\* The memcpy runs behind the mapping: what is inside is stored.  Without a fault
\* the rest overwrites memory that is no part of the file.
ShrinkDataFault(g) ==
    /\ Shrinking("shrinkData", g)
    /\ ~DataFits(g.write)
    /\ StoreData(g.write, write_head)
    /\ StoreTables(write_head, SectorsFor(g.write.length))
    /\ status' = "faulted"
    /\ UNCHANGED <<fsize, ragged, handle, pc, cell, plan, heads, closing>>

ShrinkData(g) ==
    /\ Shrinking("shrinkData", g)
    /\ StoreData(g.write, write_head)
    /\ StoreTables(write_head, SectorsFor(g.write.length))
    /\ write_head' = write_head + CountFor(g.write.length)
    /\ shrinks' = shrinks \ {g}
    /\ pc' = "shrink"
    /\ UNCHANGED <<fsize, ragged, handle, cell, grows, sectors_added, new_fsize,
                   read_head, closing, status>>

Shrunk ==
    /\ Flushing /\ pc = "shrink" /\ shrinks = {}
    /\ pc' = "resize"
    /\ UNCHANGED <<file, handle, cell, plan, heads, closing, status>>

-----------------------------------------------------------------------------
(* Third part: give the file its new size and map it again.                *)

\* rs_assert(new_fsize % 4096 == 0).
ResizeAbort == Flushing /\ pc = "resize" /\ ragged /\ Abort

\* Bound: a file that lost chunks does not shrink into its own header.
HeaderKept ==
    /\ new_fsize >= HeaderSectors
    /\ new_fsize + sectors_added >= HeaderSectors

Resize ==
    /\ Flushing /\ pc = "resize" /\ ~ragged /\ HeaderKept
    /\ fsize' = new_fsize + sectors_added
    /\ sectors' = [s \in HeaderSectors .. fsize' - 1 |->
                     IF s < fsize THEN sectors[s] ELSE Blank]
    /\ write_head' = fsize'
    /\ read_head' = fsize' - (sectors_added % WordSectors)
    /\ pc' = "grow"
    /\ UNCHANGED <<ragged, locations, timestamps, handle, cell, plan, closing, status>>

-----------------------------------------------------------------------------
(* Fourth part: add chunks at the end, then grow chunks from the back to   *)
(* the front; what lies between two of them moves up.                      *)

Growing(step, g) == Flushing /\ pc = step /\ HeadsGrows(g)

GrowEnd(g) ==
    LET l == locations[g.write.pos] IN l.offset + l.sector_count

GrowGap(g) == read_head - GrowEnd(g)

GrowAbort(g) ==
    /\ Growing("grow", g)
    /\ ContainsChunk(g.write.pos)
    /\ GrowGap(g) < 0 \/ read_head > write_head
    /\ Abort

GrowShift(g) ==
    /\ Growing("grow", g)
    /\ ContainsChunk(g.write.pos)
    /\ GrowGap(g) >= 0 /\ read_head <= write_head
    /\ ShiftLocations(GrowEnd(g), read_head, write_head - read_head)
    /\ pc' = "growMove"
    /\ UNCHANGED <<fsize, ragged, timestamps, sectors, handle, cell, plan, heads,
                   closing, status>>

GrowMove(g) ==
    /\ Growing("growMove", g)
    /\ MoveSectors(GrowEnd(g), write_head - GrowGap(g), GrowGap(g))
    /\ StoreTables(write_head - GrowGap(g), GrowGap(g))
    /\ write_head' = write_head - GrowGap(g)
    /\ read_head' = GrowEnd(g)
    /\ pc' = "growEntry"
    /\ UNCHANGED <<fsize, ragged, handle, cell, plan, closing, status>>

\* Mutant: the head is lowered after the entry is stored.
GrowSetEntryLate(w) ==
    /\ write_head' = write_head - CountFor(w.length)
    /\ SetEntry(w.pos, write_head, CountFor(w.length), w.timestamp)
    /\ pc' = "growData"
    /\ UNCHANGED <<fsize, ragged, sectors, handle, cell, plan, closing, status>>

\* The entry of the chunk, below the write head.  Bound: not before the start of
\* the file.
GrowSetEntry(w) ==
    /\ write_head' = write_head - CountFor(w.length)
    /\ write_head' >= 0
    /\ SetEntry(w.pos, write_head', CountFor(w.length), w.timestamp)
    /\ pc' = "growData"
    /\ UNCHANGED <<fsize, ragged, sectors, handle, cell, plan, closing, status>>

\* Mutant: the read head does not pass over the old data.
GrowEntryKeepingHead(g) ==
    Growing("growEntry", g) /\ GrowSetEntry(g.write) /\ read_head' = read_head

GrowEntry(g) ==
    /\ Growing("growEntry", g)
    /\ GrowSetEntry(g.write)
    /\ read_head' = read_head - locations[g.write.pos].sector_count

GrowAdd(g) ==
    /\ Growing("grow", g)
    /\ ~ContainsChunk(g.write.pos)
    /\ GrowSetEntry(g.write)
    /\ read_head' = read_head

GrowDataFault(g) ==
    /\ Growing("growData", g)
    /\ ~DataFits(g.write)
    /\ StoreData(g.write, write_head)
    /\ StoreTables(write_head, SectorsFor(g.write.length))
    /\ status' = "faulted"
    /\ UNCHANGED <<fsize, ragged, handle, pc, cell, plan, heads, closing>>

GrowData(g) ==
    /\ Growing("growData", g)
    /\ StoreData(g.write, write_head)
    /\ StoreTables(write_head, SectorsFor(g.write.length))
    /\ grows' = grows \ {g}
    /\ pc' = "grow"
    /\ UNCHANGED <<fsize, ragged, handle, cell, shrinks, sectors_added, new_fsize,
                   heads, closing, status>>

Grown ==
    /\ Flushing /\ pc = "grow" /\ grows = {}
    /\ pc' = "finish"
    /\ UNCHANGED <<file, handle, cell, plan, heads, closing, status>>

-----------------------------------------------------------------------------
\* The process dies: killed at any point, ended by rs_error when msync,
\* ftruncate or mmap fails, or gone after an assertion or a fault.  The next
\* process starts from the file.
Crash ==
    /\ mode # "closed"
    /\ mode' = "closed" /\ mapped' = FALSE /\ cached_writes' = <<>>
    /\ pc' = "idle" /\ cell' = 0
    /\ shrinks' = {} /\ grows' = {} /\ sectors_added' = 0 /\ new_fsize' = 0
    /\ read_head' = 0 /\ write_head' = 0 /\ closing' = FALSE /\ status' = "ok"
    /\ UNCHANGED file

FlushStep ==
    \/ SizeWrite \/ CreateFile \/ PlaceClear \/ PlaceEntry \/ PlaceHeaderOnly
    \/ PlaceData \/ PlacedAll
    \/ ClassifyFault \/ ClassifySkip \/ ClassifyShrink \/ ClassifyGrow \/ Classified
    \/ \E g \in shrinks :
          \/ ShrinkAbort(g) \/ ShrinkShift(g) \/ ShrinkMoveFault(g) \/ ShrinkMove(g)
          \/ ShrinkDelete(g) \/ ShrinkEntry(g) \/ ShrinkDataFault(g) \/ ShrinkData(g)
    \/ Shrunk \/ ResizeAbort \/ Resize
    \/ \E g \in grows :
          \/ GrowAbort(g) \/ GrowShift(g) \/ GrowMove(g) \/ GrowEntry(g) \/ GrowAdd(g)
          \/ GrowDataFault(g) \/ GrowData(g)
    \/ Grown
    \/ Finish

Next ==
    \/ \E m \in {"ro", "rw"} : Open(m)
    \/ \E c \in Chunk : QueryFault(c) \/ SetChunk(c) \/ ClearChunk(c)
    \/ \E b \in BOOLEAN : StartFlush(b)
    \/ CloseClean
    \/ FlushStep
    \/ Crash

Spec == Init /\ [][Next]_vars

-----------------------------------------------------------------------------
(* Properties that hold whatever clients do and wherever the process dies.  *)

\* The list of cached writes has one write for a chunk at most
\* (rs_region_set_chunk_data_full takes the old one out first).
OneWritePerChunk ==
    \A i, j \in DOMAIN cached_writes :
        cached_writes[i].pos = cached_writes[j].pos => i = j

\* Only a writable region remembers writes: closing one that is not asserts that
\* there are none (region.c:137).
CachedOnlyIfWritable == mode # "rw" => cached_writes = <<>>

\* No chunk is in the ordered lists twice, so the sorting loop never trips over
\* a duplicate (region.c:489).
NoDuplicateOrderedWrites ==
    \A g, h \in shrinks \cup grows : g.write.pos = h.write.pos => g = h

\* The move or store under way reaches into the tables.
OverTables ==
    /\ pc \in {"shrinkMove", "shrinkData", "growMove", "growData"}
    /\ write_head < HeaderSectors \/ write_head' < HeaderSectors

\* A flush creates, deletes, dates or resizes no chunk but those of the list, in
\* whatever state the file is.  The exception is a file whose entries are wrong: a
\* chunk is moved or stored where they say, over the tables too (region.c:541,
\* 573-575, 677-679), and then other chunks may be anything.
FlushTouchesOnlyWritten ==
    [][\A c \in Chunk :
          \/ \E i \in DOMAIN cached_writes : cached_writes[i].pos = c
          \/ OverTables
          \/ /\ timestamps'[c] = timestamps[c]
             /\ locations'[c].sector_count = locations[c].sector_count]_vars

=============================================================================
