-------------------------- MODULE RegionInvariant --------------------------
(***************************************************************************)
(* The inductive invariant of Region, for every set of chunks and payloads,*)
(* every bound and every client, and the theorems that follow from it:     *)
(* nothing here assumes the rules of RegionHistory.                        *)
(*                                                                         *)
(* The invariant has four parts beside TypeOK: when the handle has which   *)
(* state (Phases), that an empty file has empty tables (EmptyFileOK), that *)
(* the list of writes has one write for a chunk (OneWritePerChunk), and    *)
(* that the two ordered lists are drawn from it (Drawn).                   *)
(***************************************************************************)
EXTENDS Region, TLAPS

Phases ==
    /\ mode # "rw" => cached_writes = <<>> /\ pc = "idle"
    /\ mode # "closed" => (mapped <=> fsize # 0)
    /\ pc = "idle" => new_fsize = 0
    /\ pc # "idle" => cell >= 1
    /\ pc = "size" => ~mapped /\ new_fsize >= 0
    /\ pc \notin {"idle", "size"} => mapped
    /\ pc = "placeData" => cell <= Len(cached_writes)

EmptyFileOK ==
    fsize = 0 => \A c \in Chunk : locations[c].sector_count = 0 /\ timestamps[c] = 0

Drawn ==
    /\ pc \in {"idle", "size", "place", "placeData"} => shrinks = {} /\ grows = {}
    /\ \A g \in shrinks \cup grows :
          /\ g.rank \in 1 .. Len(cached_writes)
          /\ g.rank < cell
          /\ g.write = cached_writes[g.rank]
    /\ \A g, h \in shrinks \cup grows : g.rank = h.rank => g = h

IInv == TypeOK /\ Phases /\ EmptyFileOK /\ OneWritePerChunk /\ Drawn

-----------------------------------------------------------------------------
(* Lemmas about the operators.                                             *)

\* Sector counts are natural numbers, and a chunk of any length has a header.
LEMMA SectorCounts ==
    ASSUME NEW len \in Nat
    PROVE  /\ SectorsFor(len) \in Nat
           /\ CountFor(len) \in Nat
           /\ CountFor(len) \in 0 .. CountMod - 1
           /\ SectorsFor(len) >= 1
BY SMT DEF SectorsFor, CountFor, SectorSize, CountMod

\* What the solver need not know of the two large numbers and of the bytes.
LEMMA Numbers ==
    /\ Huge \in Int
    /\ \A n \in Int : n % WordSectors \in Int
BY SMT DEF Huge, WordSectors

\* What is stored for an encoding is one of the three bytes of the file format.
LEMMA EncodingBytes == \A enc : EncodingByte(enc) \in 0..2
BY SMT DEF EncodingByte

\* Taking a cell out of a list leaves a list, of the other cells in order.
LEMMA WithoutCellType ==
    ASSUME NEW S, NEW s \in Seq(S), NEW i \in 1 .. Len(s)
    PROVE  /\ WithoutCell(s, i) \in Seq(S)
           /\ Len(WithoutCell(s, i)) = Len(s) - 1
           /\ \A j \in 1 .. Len(s) - 1 :
                 WithoutCell(s, i)[j] = IF j < i THEN s[j] ELSE s[j + 1]
<1>1. Len(s) \in Nat /\ Len(s) - 1 \in Nat
  OBVIOUS
<1>2. \A j \in 1 .. Len(s) - 1 : s[j] \in S /\ s[j + 1] \in S
  BY <1>1
<1>3. WithoutCell(s, i) \in [1 .. Len(s) - 1 -> S]
  BY <1>1, <1>2 DEF WithoutCell
<1>4. WithoutCell(s, i) \in Seq(S)
  BY <1>1, <1>3
<1>5. Len(WithoutCell(s, i)) = Len(s) - 1
  BY <1>1, <1>3, <1>4 DEF WithoutCell
<1> QED
  BY <1>4, <1>5 DEF WithoutCell

\* rs_region_set_chunk_data_full takes out all there is for the chunk, and
\* keeps what it finds for the others unique.
LEMMA WithoutWriteProperties ==
    ASSUME cached_writes \in Seq(ChunkWrite), OneWritePerChunk, NEW c \in Chunk
    PROVE  /\ WithoutWrite(c) \in Seq(ChunkWrite)
           /\ \A i \in 1 .. Len(WithoutWrite(c)) : WithoutWrite(c)[i].pos # c
           /\ \A i, j \in 1 .. Len(WithoutWrite(c)) :
                 WithoutWrite(c)[i].pos = WithoutWrite(c)[j].pos => i = j
<1> DEFINE found == {i \in DOMAIN cached_writes : cached_writes[i].pos = c}
           first == CHOOSE i \in found : \A j \in found : i <= j
<1>1. DOMAIN cached_writes = 1 .. Len(cached_writes) /\ Len(cached_writes) \in Nat
  OBVIOUS
<1>2. CASE found = {}
  <2>1. WithoutWrite(c) = cached_writes
    BY <1>2 DEF WithoutWrite
  <2> QED
    BY <1>1, <1>2, <2>1 DEF OneWritePerChunk
<1>3. CASE found # {}
  <2>1. PICK k \in found : TRUE
    BY <1>3
  <2>2. \A j \in found : j = k
    BY <2>1, <1>1 DEF OneWritePerChunk
  <2>3. k \in 1 .. Len(cached_writes) /\ cached_writes[k].pos = c
    BY <2>1, <1>1
  <2>4. first = k
    BY <2>1, <2>2, <2>3
  <2>5. WithoutWrite(c) = WithoutCell(cached_writes, k)
    BY <1>3, <2>4 DEF WithoutWrite
  <2>6. /\ WithoutCell(cached_writes, k) \in Seq(ChunkWrite)
        /\ Len(WithoutCell(cached_writes, k)) = Len(cached_writes) - 1
        /\ \A j \in 1 .. Len(cached_writes) - 1 :
              WithoutCell(cached_writes, k)[j] =
                  IF j < k THEN cached_writes[j] ELSE cached_writes[j + 1]
    BY <2>3, WithoutCellType
  <2>7. \A i, j \in 1 .. Len(cached_writes) :
           cached_writes[i].pos = cached_writes[j].pos => i = j
    BY <1>1 DEF OneWritePerChunk
  <2> DEFINE old(j) == IF j < k THEN j ELSE j + 1
  <2>8. \A j \in 1 .. Len(WithoutWrite(c)) :
           /\ WithoutWrite(c)[j] = cached_writes[old(j)]
           /\ old(j) \in 1 .. Len(cached_writes)
           /\ old(j) # k
    BY <1>1, <2>3, <2>5, <2>6
  <2>9. \A i, j \in 1 .. Len(WithoutWrite(c)) : old(i) = old(j) => i = j
    BY <2>3, <2>5, <2>6
  <2> HIDE DEF found, first, old
  <2>10. \A i \in 1 .. Len(WithoutWrite(c)) : WithoutWrite(c)[i].pos # c
    BY <2>3, <2>7, <2>8
  <2> QED
    BY <2>5, <2>6, <2>7, <2>8, <2>9, <2>10
<1> QED
  BY <1>2, <1>3

\* The fields of a write, and what is computed from them.
LEMMA WriteFields ==
    ASSUME NEW w \in ChunkWrite
    PROVE  /\ w.pos \in Chunk
           /\ w.data \in Payload \cup {NoData}
           /\ w.length \in Nat
           /\ w.timestamp \in Nat
           /\ SectorsFor(w.length) \in Nat /\ SectorsFor(w.length) >= 1
           /\ CountFor(w.length) \in Nat
           /\ CountFor(w.length) \in 0 .. CountMod - 1
<1>1. w.length \in Nat
  BY DEF ChunkWrite
<1> QED
  BY <1>1, SectorCounts DEF ChunkWrite

\* The write a loop over the list looks at.
LEMMA CellWrite ==
    ASSUME IInv, pc # "idle", cell <= Len(cached_writes)
    PROVE  /\ cell \in 1 .. Len(cached_writes)
           /\ cached_writes[cell] \in ChunkWrite
<1>1. cell \in Nat /\ cell >= 1 /\ cached_writes \in Seq(ChunkWrite)
  BY DEF IInv, TypeOK, FlushTypeOK, HandleTypeOK, Phases
<1> QED
  BY <1>1

\* The writes the two passes look at.
LEMMA ListedWrite ==
    ASSUME IInv, NEW g \in shrinks \cup grows
    PROVE  /\ g.write \in ChunkWrite
           /\ g.rank \in 1 .. Len(cached_writes)
           /\ g.write = cached_writes[g.rank]
           /\ g.order \in Int
<1>1. g \in OrderedChunkWrite
  BY DEF IInv, TypeOK, FlushTypeOK
<1> QED
  BY <1>1 DEF OrderedChunkWrite, IInv, Drawn

\* The fields of a table entry.
LEMMA Entries ==
    ASSUME IInv, NEW c \in Chunk
    PROVE  /\ locations[c] \in Location
           /\ locations[c].offset \in Int
           /\ locations[c].sector_count \in Nat
           /\ timestamps[c] \in Nat
<1>1. locations[c] \in Location /\ timestamps[c] \in Nat
  BY DEF IInv, TypeOK, FileTypeOK
<1> QED
  BY <1>1 DEF Location

\* The four ways to write to the file keep its tables and sectors well formed.
LEMMA SetEntryType ==
    ASSUME IInv, NEW c \in Chunk, NEW o \in Int, NEW n \in 0 .. CountMod - 1,
           NEW t \in Nat, SetEntry(c, o, n, t)
    PROVE  /\ locations' \in [Chunk -> Location]
           /\ timestamps' \in [Chunk -> Nat]
<1>1. [offset |-> o, sector_count |-> n] \in Location
  BY DEF Location
<1> QED
  BY <1>1 DEF SetEntry, IInv, TypeOK, FileTypeOK

\* Neither do stores that reach over them.
LEMMA StoreTablesType ==
    ASSUME IInv, NEW at \in Int, NEW n \in Int, StoreTables(at, n)
    PROVE  /\ locations' \in [Chunk -> Location]
           /\ timestamps' \in [Chunk -> Nat]
<1>1. StrayLocations \subseteq Location /\ StrayTimes \subseteq Nat
  BY StrayAssumption
<1>2. locations' = locations \/ locations' \in [Chunk -> StrayLocations]
  BY DEF StoreTables
<1>3. timestamps' = timestamps \/ timestamps' \in [Chunk -> StrayTimes]
  BY DEF StoreTables
<1>4. locations' \in [Chunk -> Location]
  BY <1>1, <1>2 DEF IInv, TypeOK, FileTypeOK
<1>5. timestamps' \in [Chunk -> Nat]
  BY <1>1, <1>3 DEF IInv, TypeOK, FileTypeOK
<1> QED
  BY <1>4, <1>5

\* Storing the data of a write keeps the sectors of the file sectors.
LEMMA StoreDataType ==
    ASSUME IInv, NEW w \in ChunkWrite, NEW at \in Int, StoreData(w, at)
    PROVE  sectors' \in [HeaderSectors .. fsize - 1 -> Sector]
<1>1. \A s \in HeaderSectors .. fsize - 1 :
         s \in at .. at + SectorsFor(w.length) - 1 =>
            [data |-> w.data, part |-> s - at, enc |-> EncodingByte(w.encoding)] \in Sector
  <2> SUFFICES ASSUME NEW s \in HeaderSectors .. fsize - 1,
                      s \in at .. at + SectorsFor(w.length) - 1
               PROVE  [data |-> w.data, part |-> s - at,
                       enc |-> EncodingByte(w.encoding)] \in Sector
    OBVIOUS
  <2>1. s - at \in Nat
    BY WriteFields
  <2>2. w.data \in Payload \cup {NoData}
    BY WriteFields
  <2> QED
    BY <2>1, <2>2, EncodingBytes DEF Sector
<1>2. sectors \in [HeaderSectors .. fsize - 1 -> Sector]
  BY DEF IInv, TypeOK, FileTypeOK
<1> QED
  BY <1>1, <1>2 DEF StoreData

\* So does moving sectors, wherever they come from.
LEMMA MoveSectorsType ==
    ASSUME IInv, NEW from \in Int, NEW to \in Int, NEW n \in Int,
           MoveSectors(from, to, n)
    PROVE  sectors' \in [HeaderSectors .. fsize - 1 -> Sector]
<1>1. Garbage \in Sector
  BY DEF Garbage, Sector
<1>2. sectors \in [HeaderSectors .. fsize - 1 -> Sector]
  BY DEF IInv, TypeOK, FileTypeOK
<1> QED
  BY <1>1, <1>2 DEF MoveSectors

\* Shifting the table keeps it a table, with every count as it was.
LEMMA ShiftLocationsType ==
    ASSUME IInv, NEW lo \in Int, NEW hi \in Int, NEW by \in Int,
           ShiftLocations(lo, hi, by)
    PROVE  /\ locations' \in [Chunk -> Location]
           /\ \A c \in Chunk : locations'[c].sector_count = locations[c].sector_count
<1>1. \A c \in Chunk :
         /\ [locations[c] EXCEPT !.offset = @ + by] \in Location
         /\ [locations[c] EXCEPT !.offset = @ + by].sector_count
               = locations[c].sector_count
  BY Entries DEF Location
<1> QED
  BY <1>1, Entries DEF ShiftLocations

-----------------------------------------------------------------------------
(* The initial state, and steps that change nothing.                       *)

\* Every file the region may be opened on satisfies the invariant, whatever its tables hold.
LEMMA InitIInv == Init => IInv
<1> SUFFICES ASSUME Init PROVE IInv
  OBVIOUS
<1> USE DEF Init, NoFlush
<1>1. PICK f \in InitialFiles :
         /\ fsize = f.fsize
         /\ ragged = f.ragged
         /\ locations = f.locations
         /\ timestamps = f.timestamps
         /\ sectors = f.sectors
  OBVIOUS
<1>2. IsFile(f)
  BY FileAssumption
<1>3. FileTypeOK
  BY <1>1, <1>2 DEF FileTypeOK, IsFile
<1>4. HandleTypeOK /\ FlushTypeOK
  BY DEF HandleTypeOK, FlushTypeOK, Steps
<1>5. FlagTypeOK
  BY <1>1, <1>2 DEF FlagTypeOK, IsFile
<1>6. Phases /\ OneWritePerChunk /\ Drawn
  BY DEF Phases, OneWritePerChunk, Drawn
<1>7. EmptyFileOK
  BY <1>1, <1>2 DEF EmptyFileOK, IsFile, NoLocation
<1> QED
  BY <1>3, <1>4, <1>5, <1>6, <1>7 DEF IInv, TypeOK

\* The invariant speaks of the variables only.
LEMMA StutterIInv == IInv /\ UNCHANGED vars => IInv'
BY DEF IInv, TypeOK, FileTypeOK, HandleTypeOK, FlushTypeOK, FlagTypeOK, Phases,
       EmptyFileOK, OneWritePerChunk, Drawn, vars, file, handle, plan, heads

-----------------------------------------------------------------------------
(* Opening, closing, crashing; the list of writes.                         *)

\* rs_region_open maps the file exactly if it is not empty.
LEMMA OpenIInv ==
    ASSUME IInv, NEW m \in {"ro", "rw"}, Open(m)
    PROVE  IInv'
<1> USE DEF IInv, TypeOK, Open, file, handle, plan, heads
<1>1. FileTypeOK'
  BY DEF FileTypeOK
<1>2. HandleTypeOK' /\ OneWritePerChunk'
  BY DEF HandleTypeOK, OneWritePerChunk
<1>3. FlushTypeOK'
  BY DEF FlushTypeOK, Steps
<1>4. FlagTypeOK'
  BY DEF FlagTypeOK
<1>5. Phases'
  <2>1. fsize \in Nat
    BY DEF FileTypeOK
  <2>2. fsize > 0 <=> fsize # 0
    BY <2>1
  <2>3. (mapped' <=> fsize > 0) /\ fsize' = fsize
    BY Zenon
  <2>4. mapped' <=> fsize' # 0
    BY <2>2, <2>3, Zenon
  <2>5. pc' = "idle" /\ cached_writes' = <<>> /\ new_fsize' = 0
    BY DEF Phases
  <2> QED
    BY <2>4, <2>5 DEF Phases
<1>6. EmptyFileOK'
  BY DEF FileTypeOK, Phases, EmptyFileOK
<1>7. Drawn'
  BY DEF FlushTypeOK, Phases, Drawn
<1> QED
  BY <1>1, <1>2, <1>3, <1>4, <1>5, <1>6, <1>7

\* A getter that faults changes the status alone.
LEMMA QueryFaultIInv ==
    ASSUME IInv, NEW c \in Chunk, QueryFault(c)
    PROVE  IInv'
<1> USE DEF IInv, TypeOK, QueryFault, Idle, file, handle, plan, heads
<1>1. FileTypeOK'
  BY DEF FileTypeOK
<1>2. HandleTypeOK' /\ OneWritePerChunk'
  BY DEF HandleTypeOK, OneWritePerChunk
<1>3. FlushTypeOK'
  BY DEF FlushTypeOK, Steps
<1>4. FlagTypeOK'
  BY DEF FlagTypeOK
<1>5. Phases' /\ EmptyFileOK'
  BY DEF FileTypeOK, HandleTypeOK, FlushTypeOK, Phases, EmptyFileOK
<1>6. Drawn'
  BY DEF FlushTypeOK, Phases, Drawn
<1> QED
  BY <1>1, <1>2, <1>3, <1>4, <1>5, <1>6

\* A flush starts with empty ordered lists at the first cell.
LEMMA StartFlushIInv ==
    ASSUME IInv, NEW b \in BOOLEAN, StartFlush(b)
    PROVE  IInv'
<1> USE DEF IInv, TypeOK, StartFlush, Idle, file, handle, plan, heads
<1>1. FileTypeOK'
  BY DEF FileTypeOK
<1>2. HandleTypeOK' /\ OneWritePerChunk'
  BY DEF HandleTypeOK, OneWritePerChunk
<1>3. FlushTypeOK'
  BY DEF FlushTypeOK, Steps
<1>4. FlagTypeOK'
  BY DEF FlagTypeOK
<1>5. Phases' /\ EmptyFileOK'
  BY DEF FileTypeOK, HandleTypeOK, FlushTypeOK, Phases, EmptyFileOK
<1>6. Drawn'
  BY DEF FlushTypeOK, Phases, Drawn
<1> QED
  BY <1>1, <1>2, <1>3, <1>4, <1>5, <1>6

\* rs_region_close without writes.
LEMMA CloseCleanIInv ==
    ASSUME IInv, CloseClean
    PROVE  IInv'
<1> USE DEF IInv, TypeOK, CloseClean, Idle, file, handle, plan, heads
<1>1. FileTypeOK'
  BY DEF FileTypeOK
<1>2. HandleTypeOK' /\ OneWritePerChunk'
  BY DEF HandleTypeOK, OneWritePerChunk
<1>3. FlushTypeOK'
  BY DEF FlushTypeOK, Steps
<1>4. FlagTypeOK'
  BY DEF FlagTypeOK
<1>5. Phases' /\ EmptyFileOK'
  BY DEF FileTypeOK, HandleTypeOK, FlushTypeOK, Phases, EmptyFileOK
<1>6. Drawn'
  BY DEF FlushTypeOK, Phases, Drawn
<1> QED
  BY <1>1, <1>2, <1>3, <1>4, <1>5, <1>6

\* The death of the process resets all but the file.
LEMMA CrashIInv ==
    ASSUME IInv, Crash
    PROVE  IInv'
<1> USE DEF IInv, TypeOK, Crash, file, handle, plan, heads
<1>1. FileTypeOK'
  BY DEF FileTypeOK
<1>2. HandleTypeOK' /\ OneWritePerChunk'
  BY DEF HandleTypeOK, OneWritePerChunk
<1>3. FlushTypeOK'
  BY DEF FlushTypeOK, Steps
<1>4. FlagTypeOK'
  BY DEF FlagTypeOK
<1>5. Phases' /\ EmptyFileOK'
  BY DEF FileTypeOK, HandleTypeOK, FlushTypeOK, Phases, EmptyFileOK
<1>6. Drawn'
  BY DEF FlushTypeOK, Phases, Drawn
<1> QED
  BY <1>1, <1>2, <1>3, <1>4, <1>5, <1>6

\* The end of a flush empties the list: what is drawn from it goes with it.
LEMMA FinishIInv ==
    ASSUME IInv, Finish
    PROVE  IInv'
<1> USE DEF IInv, TypeOK, Finish, Flushing, file, handle, plan, heads
<1>1. FileTypeOK'
  BY DEF FileTypeOK
<1>2. HandleTypeOK' /\ OneWritePerChunk'
  BY DEF HandleTypeOK, OneWritePerChunk
<1>3. FlushTypeOK'
  BY DEF FlushTypeOK, Steps
<1>4. FlagTypeOK'
  BY DEF FlagTypeOK
<1>5. Phases' /\ EmptyFileOK'
  BY DEF FileTypeOK, HandleTypeOK, FlushTypeOK, Phases, EmptyFileOK
<1>6. Drawn'
  BY DEF FlushTypeOK, Phases, Drawn
<1> QED
  BY <1>1, <1>2, <1>3, <1>4, <1>5, <1>6

\* The old write is out before the new one is pushed, so that there is one for a chunk.
LEMMA SetChunkDataFullIInv ==
    ASSUME IInv, NEW c \in Chunk, NEW data \in Payload \cup {NoData},
           NEW len \in Nat, NEW enc \in Encoding, NEW t \in Nat,
           SetChunkDataFull(c, data, len, enc, t)
    PROVE  IInv'
<1>1. PICK job \in ChunkWrite :
         job.pos = c /\ cached_writes' = <<job>> \o WithoutWrite(c)
  <2> DEFINE real == data # NoData /\ len > 0
             job == [pos |-> c,
                     data |-> IF real THEN data ELSE NoData,
                     length |-> len,
                     encoding |-> IF real /\ enc = "auto" THEN Guess[data] ELSE enc,
                     timestamp |-> t]
  <2>1. (IF real THEN data ELSE NoData) \in Payload \cup {NoData}
    OBVIOUS
  <2>2. (IF real /\ enc = "auto" THEN Guess[data] ELSE enc) \in Encoding
    BY PayloadAssumption DEF Encoding
  <2>3. job \in ChunkWrite
    BY <2>1, <2>2 DEF ChunkWrite
  <2>4. cached_writes' = <<job>> \o WithoutWrite(c)
    BY DEF SetChunkDataFull
  <2> QED
    BY <2>3, <2>4
<1>2. /\ WithoutWrite(c) \in Seq(ChunkWrite)
      /\ \A i \in 1 .. Len(WithoutWrite(c)) : WithoutWrite(c)[i].pos # c
      /\ \A i, j \in 1 .. Len(WithoutWrite(c)) :
            WithoutWrite(c)[i].pos = WithoutWrite(c)[j].pos => i = j
  BY WithoutWriteProperties DEF IInv, TypeOK, HandleTypeOK
<1> HIDE DEF WithoutWrite
<1>3. cached_writes' \in Seq(ChunkWrite)
  BY <1>1, <1>2
<1>4. /\ Len(cached_writes') = Len(WithoutWrite(c)) + 1
      /\ Len(WithoutWrite(c)) \in Nat
      /\ cached_writes'[1] = job
      /\ \A i \in 2 .. Len(cached_writes') :
            cached_writes'[i] = WithoutWrite(c)[i - 1]
  BY <1>1, <1>2
<1>5. OneWritePerChunk'
  <2>1. \A i, j \in 1 .. Len(cached_writes') :
           cached_writes'[i].pos = cached_writes'[j].pos => i = j
    BY <1>1, <1>2, <1>4
  <2> QED
    BY <1>3, <2>1 DEF OneWritePerChunk
<1> USE DEF IInv, TypeOK, SetChunkDataFull, Idle, file, plan, heads
<1>6. FileTypeOK'
  BY DEF FileTypeOK
<1>7. HandleTypeOK'
  BY <1>3 DEF HandleTypeOK
<1>8. FlushTypeOK'
  BY DEF FlushTypeOK
<1>9. FlagTypeOK'
  BY DEF FlagTypeOK
<1>10. Phases' /\ EmptyFileOK'
  BY DEF Phases, EmptyFileOK
<1>11. Drawn'
  BY DEF Drawn
<1> QED
  BY <1>5, <1>6, <1>7, <1>8, <1>9, <1>10, <1>11

\* All that clients may pass is a write.
LEMMA SetChunkIInv ==
    ASSUME IInv, NEW c \in Chunk, SetChunk(c)
    PROVE  IInv'
<1>1. Encodings \subseteq Encoding /\ Times \subseteq Nat /\ NullLens \subseteq Nat
  BY InputAssumption
<1>2. \A p \in Payload : PayloadLen[p] \in Nat
  BY PayloadAssumption
<1>3. PICK enc \in Encodings, t \in Times :
         \/ \E p \in Payload : SetChunkDataFull(c, p, PayloadLen[p], enc, t)
         \/ \E len \in NullLens : SetChunkDataFull(c, NoData, len, enc, t)
  BY DEF SetChunk
<1>4. enc \in Encoding /\ t \in Nat
  BY <1>1
<1>5. CASE \E p \in Payload : SetChunkDataFull(c, p, PayloadLen[p], enc, t)
  BY <1>2, <1>4, <1>5, SetChunkDataFullIInv
<1>6. CASE \E len \in NullLens : SetChunkDataFull(c, NoData, len, enc, t)
  BY <1>1, <1>4, <1>6, SetChunkDataFullIInv
<1> QED
  BY <1>3, <1>5, <1>6

\* A clear is a write without data.
LEMMA ClearChunkIInv ==
    ASSUME IInv, NEW c \in Chunk, ClearChunk(c)
    PROVE  IInv'
BY SetChunkDataFullIInv DEF ClearChunk, Encoding

-----------------------------------------------------------------------------
(* Flushing into an empty file.                                            *)

\* The size of a new file grows by a natural number.
LEMMA SizeWriteIInv ==
    ASSUME IInv, SizeWrite
    PROVE  IInv'
<1>1. /\ cell \in 1 .. Len(cached_writes)
      /\ cached_writes[cell] \in ChunkWrite
  BY CellWrite DEF SizeWrite, Flushing
<1>2. /\ cached_writes[cell].pos \in Chunk
      /\ cached_writes[cell].length \in Nat
      /\ cached_writes[cell].timestamp \in Nat
      /\ SectorsFor(cached_writes[cell].length) \in Nat
      /\ CountFor(cached_writes[cell].length) \in Nat
  BY <1>1, WriteFields
<1> USE DEF IInv, TypeOK, SizeWrite, Flushing, file, handle, plan, heads
<1>3. FileTypeOK'
  BY <1>1, <1>2 DEF FileTypeOK
<1>4. HandleTypeOK' /\ OneWritePerChunk'
  BY <1>1, <1>2 DEF HandleTypeOK, OneWritePerChunk
<1>5. FlushTypeOK'
  BY <1>1, <1>2 DEF FlushTypeOK, Steps
<1>6. FlagTypeOK'
  BY DEF FlagTypeOK
<1>7. Phases' /\ EmptyFileOK'
  BY <1>1, <1>2 DEF FileTypeOK, HandleTypeOK, FlushTypeOK, Phases,
         EmptyFileOK
<1>8. Drawn'
  BY <1>1, <1>2 DEF FlushTypeOK, Phases, Drawn
<1> QED
  BY <1>3, <1>4, <1>5, <1>6, <1>7, <1>8

\* The new file has contents for each of its sectors.
LEMMA CreateFileIInv ==
    ASSUME IInv, CreateFile
    PROVE  IInv'
<1>1. new_fsize \in Int /\ new_fsize >= 0
  BY DEF CreateFile, IInv, TypeOK, FlushTypeOK, Phases
<1>2. fsize' \in Nat /\ fsize' # 0
  BY <1>1 DEF CreateFile, HeaderSectors
<1>3. NoLocation \in Location /\ Blank \in Sector
  BY DEF NoLocation, Location, CountMod, Blank, Sector
<1> USE DEF IInv, TypeOK, CreateFile, Flushing, file, handle, plan, heads
<1>4. FileTypeOK'
  BY <1>2, <1>3 DEF FileTypeOK
<1>5. HandleTypeOK' /\ OneWritePerChunk'
  BY DEF HandleTypeOK, OneWritePerChunk
<1>6. FlushTypeOK'
  <2>1. write_head' \in Int
    BY DEF HeaderSectors
  <2> QED
    BY <2>1 DEF FlushTypeOK, Steps
<1>7. FlagTypeOK'
  BY DEF FlagTypeOK
<1>8. Phases'
  BY <1>2 DEF Phases
<1>9. EmptyFileOK'
  BY <1>2 DEF EmptyFileOK
<1>10. Drawn'
  BY DEF FlushTypeOK, Phases, Drawn
<1> QED
  BY <1>4, <1>5, <1>6, <1>7, <1>8, <1>9, <1>10

\* Clearing an entry in a new file.
LEMMA PlaceClearIInv ==
    ASSUME IInv, PlaceClear
    PROVE  IInv'
<1>1. /\ cell \in 1 .. Len(cached_writes)
      /\ cached_writes[cell] \in ChunkWrite
  BY CellWrite DEF PlaceClear, Flushing
<1>2. /\ cached_writes[cell].pos \in Chunk
      /\ cached_writes[cell].length \in Nat
      /\ cached_writes[cell].timestamp \in Nat
      /\ SectorsFor(cached_writes[cell].length) \in Nat
      /\ CountFor(cached_writes[cell].length) \in Nat
  BY <1>1, WriteFields
<1> USE DEF IInv, TypeOK, PlaceClear, Flushing, file, handle, plan, heads
<1>3. FileTypeOK'
  <2>1. SetEntry(cached_writes[cell].pos, 0, 0, 0)
    BY DEF ClearEntry
  <2>2. 0 \in Int /\ 0 \in Nat /\ 0 \in 0 .. CountMod - 1
    BY DEF CountMod
  <2>3. locations' \in [Chunk -> Location] /\ timestamps' \in [Chunk -> Nat]
    BY <1>2, <2>1, <2>2, SetEntryType
  <2> QED
    BY <2>3 DEF FileTypeOK
<1>4. HandleTypeOK' /\ OneWritePerChunk'
  BY DEF HandleTypeOK, OneWritePerChunk
<1>5. FlushTypeOK'
  BY <1>1, <1>2 DEF FlushTypeOK, Steps
<1>6. FlagTypeOK'
  BY DEF FlagTypeOK
<1>7. Phases'
  BY <1>1, <1>2 DEF FileTypeOK, HandleTypeOK, FlushTypeOK, Phases
<1>8. EmptyFileOK'
  BY <1>2 DEF FileTypeOK, Phases, EmptyFileOK, ClearEntry, SetEntry
<1>9. Drawn'
  BY <1>1, <1>2 DEF FlushTypeOK, Phases, Drawn
<1> QED
  BY <1>3, <1>4, <1>5, <1>6, <1>7, <1>8, <1>9

\* The entry of a chunk in a new file; its data is still to come, at the same cell.
LEMMA PlaceEntryIInv ==
    ASSUME IInv, PlaceEntry
    PROVE  IInv'
<1>1. /\ cell \in 1 .. Len(cached_writes)
      /\ cached_writes[cell] \in ChunkWrite
  BY CellWrite DEF PlaceEntry, Flushing
<1>2. /\ cached_writes[cell].pos \in Chunk
      /\ cached_writes[cell].length \in Nat
      /\ cached_writes[cell].timestamp \in Nat
      /\ SectorsFor(cached_writes[cell].length) \in Nat
      /\ CountFor(cached_writes[cell].length) \in Nat
      /\ CountFor(cached_writes[cell].length) \in 0 .. CountMod - 1
  BY <1>1, WriteFields
<1> USE DEF IInv, TypeOK, PlaceEntry, Flushing, file, handle, plan, heads
<1>3. FileTypeOK'
  <2>1. SetEntry(cached_writes[cell].pos, write_head,
                 CountFor(cached_writes[cell].length), cached_writes[cell].timestamp)
    BY DEF PlaceEntry
  <2>2. write_head \in Int
    BY DEF FlushTypeOK
  <2>3. locations' \in [Chunk -> Location] /\ timestamps' \in [Chunk -> Nat]
    BY <1>2, <2>1, <2>2, SetEntryType
  <2> QED
    BY <2>3 DEF FileTypeOK
<1>4. HandleTypeOK' /\ OneWritePerChunk'
  BY DEF HandleTypeOK, OneWritePerChunk
<1>5. FlushTypeOK'
  BY <1>1, <1>2 DEF FlushTypeOK, Steps
<1>6. FlagTypeOK'
  BY DEF FlagTypeOK
<1>7. Phases'
  BY <1>1, <1>2 DEF FileTypeOK, HandleTypeOK, FlushTypeOK, Phases
<1>8. EmptyFileOK'
  BY <1>2 DEF FileTypeOK, Phases, EmptyFileOK, SetEntry
<1>9. Drawn'
  BY <1>1, <1>2 DEF FlushTypeOK, Phases, Drawn
<1> QED
  BY <1>3, <1>4, <1>5, <1>6, <1>7, <1>8, <1>9

\* The header that is stored before the assertion on the data fails.
LEMMA PlaceHeaderOnlyIInv ==
    ASSUME IInv, PlaceHeaderOnly
    PROVE  IInv'
<1>1. /\ cell \in 1 .. Len(cached_writes)
      /\ cached_writes[cell] \in ChunkWrite
  BY CellWrite DEF PlaceHeaderOnly, Flushing, IInv, Phases
<1>2. /\ cached_writes[cell].data \in Payload \cup {NoData}
      /\ CountFor(cached_writes[cell].length) \in Nat
  BY <1>1, WriteFields
<1>3. write_head \in Int /\ sectors \in [HeaderSectors .. fsize - 1 -> Sector]
  BY DEF IInv, TypeOK, FileTypeOK, FlushTypeOK
<1> USE DEF IInv, TypeOK, PlaceHeaderOnly, Flushing, file, handle, plan, heads
<1>4. FileTypeOK'
  <2>1. [data |-> NoData, part |-> 1,
         enc |-> EncodingByte(cached_writes[cell].encoding)] \in Sector
    BY EncodingBytes DEF Sector
  <2> QED
    BY <1>3, <2>1 DEF FileTypeOK
<1>5. HandleTypeOK' /\ OneWritePerChunk'
  BY DEF HandleTypeOK, OneWritePerChunk
<1>6. FlushTypeOK'
  BY DEF FlushTypeOK, Steps
<1>7. FlagTypeOK'
  BY DEF FlagTypeOK
<1>8. Phases' /\ EmptyFileOK'
  BY <1>1 DEF FileTypeOK, HandleTypeOK, FlushTypeOK, Phases,
         EmptyFileOK
<1>9. Drawn'
  BY DEF FlushTypeOK, Phases, Drawn
<1> QED
  BY <1>4, <1>5, <1>6, <1>7, <1>8, <1>9

\* The data of a chunk in a new file.
LEMMA PlaceDataIInv ==
    ASSUME IInv, PlaceData
    PROVE  IInv'
<1>1. /\ cell \in 1 .. Len(cached_writes)
      /\ cached_writes[cell] \in ChunkWrite
  BY CellWrite DEF PlaceData, Flushing, IInv, Phases
<1>2. /\ cached_writes[cell].data \in Payload \cup {NoData}
      /\ CountFor(cached_writes[cell].length) \in Nat
  BY <1>1, WriteFields
<1>3. write_head \in Int /\ sectors \in [HeaderSectors .. fsize - 1 -> Sector]
  BY DEF IInv, TypeOK, FileTypeOK, FlushTypeOK
<1> USE DEF IInv, TypeOK, PlaceData, Flushing, file, handle, plan, heads
<1>4. FileTypeOK'
  <2>1. StoreData(cached_writes[cell], write_head)
    OBVIOUS
  <2>2. sectors' \in [HeaderSectors .. fsize - 1 -> Sector]
    BY <1>1, <1>3, <2>1, StoreDataType
  <2> QED
    BY <2>2 DEF FileTypeOK
<1>5. HandleTypeOK' /\ OneWritePerChunk'
  BY DEF HandleTypeOK, OneWritePerChunk
<1>6. FlushTypeOK'
  BY <1>1, <1>2, <1>3 DEF FlushTypeOK, Steps
<1>7. FlagTypeOK'
  BY DEF FlagTypeOK
<1>8. Phases' /\ EmptyFileOK'
  BY <1>1 DEF FileTypeOK, HandleTypeOK, FlushTypeOK, Phases,
         EmptyFileOK
<1>9. Drawn'
  BY <1>1 DEF FlushTypeOK, Phases, Drawn
<1> QED
  BY <1>4, <1>5, <1>6, <1>7, <1>8, <1>9

\* The end of the placing loop.
LEMMA PlacedAllIInv ==
    ASSUME IInv, PlacedAll
    PROVE  IInv'
<1> USE DEF IInv, TypeOK, PlacedAll, Flushing, file, handle, plan, heads
<1>1. FileTypeOK'
  BY DEF FileTypeOK
<1>2. HandleTypeOK' /\ OneWritePerChunk'
  BY DEF HandleTypeOK, OneWritePerChunk
<1>3. FlushTypeOK'
  BY DEF FlushTypeOK, Steps
<1>4. FlagTypeOK'
  BY DEF FlagTypeOK
<1>5. Phases' /\ EmptyFileOK'
  BY DEF FileTypeOK, HandleTypeOK, FlushTypeOK, Phases, EmptyFileOK
<1>6. Drawn'
  BY DEF FlushTypeOK, Phases, Drawn
<1> QED
  BY <1>1, <1>2, <1>3, <1>4, <1>5, <1>6

-----------------------------------------------------------------------------
(* Sorting the writes.                                                     *)

\* Reading the old length behind the end of the file.
LEMMA ClassifyFaultIInv ==
    ASSUME IInv, ClassifyFault
    PROVE  IInv'
<1> USE DEF IInv, TypeOK, ClassifyFault, Classifying, Flushing, Fault, file,
          handle, plan, heads
<1>1. FileTypeOK'
  BY DEF FileTypeOK
<1>2. HandleTypeOK' /\ OneWritePerChunk'
  BY DEF HandleTypeOK, OneWritePerChunk
<1>3. FlushTypeOK'
  BY DEF FlushTypeOK, Steps
<1>4. FlagTypeOK'
  BY DEF FlagTypeOK
<1>5. Phases' /\ EmptyFileOK'
  BY DEF FileTypeOK, HandleTypeOK, FlushTypeOK, Phases, EmptyFileOK
<1>6. Drawn'
  BY DEF FlushTypeOK, Phases, Drawn
<1> QED
  BY <1>1, <1>2, <1>3, <1>4, <1>5, <1>6

\* The clear of a chunk that does not exist.
LEMMA ClassifySkipIInv ==
    ASSUME IInv, ClassifySkip
    PROVE  IInv'
<1> USE DEF IInv, TypeOK, ClassifySkip, Classifying, Flushing, file, handle,
          plan, heads
<1>1. FileTypeOK'
  BY DEF FileTypeOK
<1>2. HandleTypeOK' /\ OneWritePerChunk'
  BY DEF HandleTypeOK, OneWritePerChunk
<1>3. FlushTypeOK'
  BY DEF FlushTypeOK, Steps
<1>4. FlagTypeOK'
  BY DEF FlagTypeOK
<1>5. Phases' /\ EmptyFileOK'
  BY DEF FileTypeOK, HandleTypeOK, FlushTypeOK, Phases, EmptyFileOK
<1>6. Drawn'
  BY DEF FlushTypeOK, Phases, Drawn
<1> QED
  BY <1>1, <1>2, <1>3, <1>4, <1>5, <1>6

\* A member of the shrinks has the rank of its cell, which no other member has yet.
LEMMA ClassifyShrinkIInv ==
    ASSUME IInv, ClassifyShrink
    PROVE  IInv'
<1>1. /\ cell \in 1 .. Len(cached_writes)
      /\ cached_writes[cell] \in ChunkWrite
  BY CellWrite DEF ClassifyShrink, Classifying, Flushing
<1>2. /\ cached_writes[cell].pos \in Chunk
      /\ SectorsFor(cached_writes[cell].length) \in Nat
  BY <1>1, WriteFields
<1>3. /\ locations[cached_writes[cell].pos].offset \in Int
      /\ locations[cached_writes[cell].pos].sector_count \in Nat
  BY <1>2, Entries
<1>4. /\ Ordered(cached_writes[cell]) \in OrderedChunkWrite
      /\ Ordered(cached_writes[cell]).write = cached_writes[cell]
      /\ Ordered(cached_writes[cell]).rank = cell
  BY <1>1, <1>3, Numbers DEF Ordered, OrderedChunkWrite
<1>5. shrinks' = shrinks \cup {Ordered(cached_writes[cell])}
  BY DEF ClassifyShrink
<1> USE DEF IInv, TypeOK, ClassifyShrink, Classifying, Flushing, file, handle,
          plan, heads
<1>6. FileTypeOK'
  BY DEF FileTypeOK
<1>7. HandleTypeOK' /\ OneWritePerChunk'
  BY DEF HandleTypeOK, OneWritePerChunk
<1>8. FlushTypeOK'
  <2>1. cell' \in Nat
    BY <1>1
  <2>2. sectors_added' \in Int
    BY <1>2, <1>3 DEF FlushTypeOK
  <2>3. shrinks' \subseteq OrderedChunkWrite
    BY <1>4, <1>5 DEF FlushTypeOK
  <2> QED
    BY <2>1, <2>2, <2>3 DEF FlushTypeOK, Steps
<1>9. FlagTypeOK'
  BY DEF FlagTypeOK
<1>10. Phases' /\ EmptyFileOK'
  BY <1>1 DEF FileTypeOK, HandleTypeOK, FlushTypeOK, Phases,
         EmptyFileOK
<1>11. Drawn'
  <2>1. \A g \in shrinks \cup grows :
           g.rank \in 1 .. Len(cached_writes) /\ g.rank < cell
    BY DEF Drawn
  <2>2. \A g \in (shrinks \cup grows)' :
           g \in shrinks \cup grows \/ g = Ordered(cached_writes[cell])
    BY <1>5
  <2> QED
    BY <1>1, <1>4, <2>1, <2>2 DEF FlushTypeOK, Drawn
<1> QED
  BY <1>6, <1>7, <1>8, <1>9, <1>10, <1>11

\* The same of the grows.
LEMMA ClassifyGrowIInv ==
    ASSUME IInv, ClassifyGrow
    PROVE  IInv'
<1>1. /\ cell \in 1 .. Len(cached_writes)
      /\ cached_writes[cell] \in ChunkWrite
  BY CellWrite DEF ClassifyGrow, Classifying, Flushing
<1>2. /\ cached_writes[cell].pos \in Chunk
      /\ SectorsFor(cached_writes[cell].length) \in Nat
  BY <1>1, WriteFields
<1>3. /\ locations[cached_writes[cell].pos].offset \in Int
      /\ locations[cached_writes[cell].pos].sector_count \in Nat
  BY <1>2, Entries
<1>4. /\ Ordered(cached_writes[cell]) \in OrderedChunkWrite
      /\ Ordered(cached_writes[cell]).write = cached_writes[cell]
      /\ Ordered(cached_writes[cell]).rank = cell
  BY <1>1, <1>3, Numbers DEF Ordered, OrderedChunkWrite
<1>5. grows' = grows \cup {Ordered(cached_writes[cell])}
  BY DEF ClassifyGrow
<1> USE DEF IInv, TypeOK, ClassifyGrow, Classifying, Flushing, file, handle,
          plan, heads
<1>6. FileTypeOK'
  BY DEF FileTypeOK
<1>7. HandleTypeOK' /\ OneWritePerChunk'
  BY DEF HandleTypeOK, OneWritePerChunk
<1>8. FlushTypeOK'
  <2>1. cell' \in Nat
    BY <1>1
  <2>2. sectors_added' \in Int
    BY <1>2, <1>3 DEF FlushTypeOK
  <2>3. grows' \subseteq OrderedChunkWrite
    BY <1>4, <1>5 DEF FlushTypeOK
  <2> QED
    BY <2>1, <2>2, <2>3 DEF FlushTypeOK, Steps
<1>9. FlagTypeOK'
  BY DEF FlagTypeOK
<1>10. Phases' /\ EmptyFileOK'
  BY <1>1 DEF FileTypeOK, HandleTypeOK, FlushTypeOK, Phases,
         EmptyFileOK
<1>11. Drawn'
  <2>1. \A g \in shrinks \cup grows :
           g.rank \in 1 .. Len(cached_writes) /\ g.rank < cell
    BY DEF Drawn
  <2>2. \A g \in (shrinks \cup grows)' :
           g \in shrinks \cup grows \/ g = Ordered(cached_writes[cell])
    BY <1>5
  <2> QED
    BY <1>1, <1>4, <2>1, <2>2 DEF FlushTypeOK, Drawn
<1> QED
  BY <1>6, <1>7, <1>8, <1>9, <1>10, <1>11

\* The heads start at the first chunk to shrink, if there is one.
LEMMA ClassifiedIInv ==
    ASSUME IInv, Classified
    PROVE  IInv'
<1> USE DEF IInv, TypeOK, Classified, Flushing, file, handle, plan, heads
<1>1. FileTypeOK'
  BY DEF FileTypeOK
<1>2. HandleTypeOK' /\ OneWritePerChunk'
  BY DEF HandleTypeOK, OneWritePerChunk
<1>3. FlushTypeOK'
  <2>1. read_head' \in Int /\ write_head' \in Int
    <3>1. CASE shrinks = {}
      BY <3>1 DEF FlushTypeOK, heads
    <3>2. CASE shrinks # {}
      <4>1. PICK g \in shrinks :
               /\ read_head' = locations[g.write.pos].offset
               /\ write_head' = read_head'
        BY <3>2
      <4>2. locations[g.write.pos].offset \in Int
        BY <4>1, ListedWrite, WriteFields, Entries
      <4> QED
        BY <4>1, <4>2
    <3> QED
      BY <3>1, <3>2
  <2>2. new_fsize' \in Int
    BY DEF FileTypeOK
  <2> QED
    BY <2>1, <2>2 DEF FlushTypeOK, Steps
<1>4. FlagTypeOK'
  BY DEF FlagTypeOK
<1>5. Phases' /\ EmptyFileOK'
  BY DEF FileTypeOK, HandleTypeOK, FlushTypeOK, Phases, EmptyFileOK
<1>6. Drawn'
  BY DEF FlushTypeOK, Phases, Drawn
<1> QED
  BY <1>1, <1>2, <1>3, <1>4, <1>5, <1>6

-----------------------------------------------------------------------------
(* The first pass.                                                         *)

\* A failed assertion on the heads.
LEMMA ShrinkAbortIInv ==
    ASSUME IInv, NEW g, ShrinkAbort(g)
    PROVE  IInv'
<1> USE DEF IInv, TypeOK, ShrinkAbort, Shrinking, Flushing, Abort, file, handle,
          plan, heads
<1>1. FileTypeOK'
  BY DEF FileTypeOK
<1>2. HandleTypeOK' /\ OneWritePerChunk'
  BY DEF HandleTypeOK, OneWritePerChunk
<1>3. FlushTypeOK'
  BY DEF FlushTypeOK, Steps
<1>4. FlagTypeOK'
  BY DEF FlagTypeOK
<1>5. Phases' /\ EmptyFileOK'
  BY DEF FileTypeOK, HandleTypeOK, FlushTypeOK, Phases, EmptyFileOK
<1>6. Drawn'
  BY DEF FlushTypeOK, Phases, Drawn
<1> QED
  BY <1>1, <1>2, <1>3, <1>4, <1>5, <1>6

\* The table is shifted down, ahead of the data.
LEMMA ShrinkShiftIInv ==
    ASSUME IInv, NEW g, ShrinkShift(g)
    PROVE  IInv'
<1>1. g \in shrinks /\ g \in shrinks \cup grows
  BY DEF ShrinkShift, Shrinking, HeadsShrinks
<1>2. g.write \in ChunkWrite
  BY <1>1, ListedWrite
<1>3. /\ g.write.pos \in Chunk
      /\ g.write.timestamp \in Nat
      /\ CountFor(g.write.length) \in Nat
      /\ CountFor(g.write.length) \in 0 .. CountMod - 1
  BY <1>2, WriteFields
<1>4. /\ locations[g.write.pos].offset \in Int
      /\ locations[g.write.pos].sector_count \in Nat
  BY <1>3, Entries
<1>5. read_head \in Int /\ write_head \in Int /\ fsize \in Nat
  BY DEF IInv, TypeOK, FileTypeOK, FlushTypeOK
<1>6. /\ locations' \in [Chunk -> Location]
      /\ \A c \in Chunk : locations'[c].sector_count = locations[c].sector_count
  <2>1. ShiftLocations(read_head, read_head + ShrinkGap(g), write_head - read_head)
    BY DEF ShrinkShift
  <2>2. ShrinkGap(g) \in Int
    BY <1>4, <1>5 DEF ShrinkGap
  <2> QED
    BY <1>5, <2>1, <2>2, ShiftLocationsType
<1> USE DEF IInv, TypeOK, ShrinkShift, Shrinking, Flushing, file, handle, plan,
          heads
<1>7. FileTypeOK'
  BY <1>6 DEF FileTypeOK
<1>8. HandleTypeOK' /\ OneWritePerChunk'
  BY DEF HandleTypeOK, OneWritePerChunk
<1>9. FlushTypeOK'
  BY DEF FlushTypeOK, Steps
<1>10. FlagTypeOK'
  BY DEF FlagTypeOK
<1>11. Phases'
  BY DEF FileTypeOK, HandleTypeOK, FlushTypeOK, Phases
<1>12. EmptyFileOK'
  BY <1>6 DEF Phases, EmptyFileOK
<1>13. Drawn'
  BY DEF FlushTypeOK, Phases, Drawn
<1> QED
  BY <1>7, <1>8, <1>9, <1>10, <1>11, <1>12, <1>13

\* A move that faults has moved some of its sectors.
LEMMA ShrinkMoveFaultIInv ==
    ASSUME IInv, NEW g, ShrinkMoveFault(g)
    PROVE  IInv'
<1>1. g \in shrinks /\ g \in shrinks \cup grows
  BY DEF ShrinkMoveFault, Shrinking, HeadsShrinks
<1>2. g.write \in ChunkWrite
  BY <1>1, ListedWrite
<1>3. /\ g.write.pos \in Chunk
      /\ g.write.timestamp \in Nat
      /\ CountFor(g.write.length) \in Nat
      /\ CountFor(g.write.length) \in 0 .. CountMod - 1
  BY <1>2, WriteFields
<1>4. /\ locations[g.write.pos].offset \in Int
      /\ locations[g.write.pos].sector_count \in Nat
  BY <1>3, Entries
<1>5. read_head \in Int /\ write_head \in Int /\ fsize \in Nat
  BY DEF IInv, TypeOK, FileTypeOK, FlushTypeOK
<1>6. /\ sectors' \in [HeaderSectors .. fsize - 1 -> Sector]
      /\ locations' \in [Chunk -> Location]
      /\ timestamps' \in [Chunk -> Nat]
  <2>1. PICK n \in Int :
           MoveSectors(read_head, write_head, n) /\ StoreTables(write_head, n)
    BY <1>4, <1>5 DEF ShrinkMoveFault
  <2> QED
    BY <1>5, <2>1, MoveSectorsType, StoreTablesType
<1> USE DEF IInv, TypeOK, ShrinkMoveFault, Shrinking, Flushing, file, handle,
          plan, heads
<1>7. FileTypeOK'
  BY <1>6 DEF FileTypeOK
<1>8. HandleTypeOK' /\ OneWritePerChunk'
  BY DEF HandleTypeOK, OneWritePerChunk
<1>9. FlushTypeOK'
  BY DEF FlushTypeOK, Steps
<1>10. FlagTypeOK'
  BY DEF FlagTypeOK
<1>11. Phases' /\ EmptyFileOK'
  BY DEF FileTypeOK, HandleTypeOK, FlushTypeOK, Phases, EmptyFileOK
<1>12. Drawn'
  BY DEF FlushTypeOK, Phases, Drawn
<1> QED
  BY <1>7, <1>8, <1>9, <1>10, <1>11, <1>12

\* The data between two chunks moves down.
LEMMA ShrinkMoveIInv ==
    ASSUME IInv, NEW g, ShrinkMove(g)
    PROVE  IInv'
<1>1. g \in shrinks /\ g \in shrinks \cup grows
  BY DEF ShrinkMove, Shrinking, HeadsShrinks
<1>2. g.write \in ChunkWrite
  BY <1>1, ListedWrite
<1>3. /\ g.write.pos \in Chunk
      /\ g.write.timestamp \in Nat
      /\ CountFor(g.write.length) \in Nat
      /\ CountFor(g.write.length) \in 0 .. CountMod - 1
  BY <1>2, WriteFields
<1>4. /\ locations[g.write.pos].offset \in Int
      /\ locations[g.write.pos].sector_count \in Nat
  BY <1>3, Entries
<1>5. read_head \in Int /\ write_head \in Int /\ fsize \in Nat
  BY DEF IInv, TypeOK, FileTypeOK, FlushTypeOK
<1>6. /\ sectors' \in [HeaderSectors .. fsize - 1 -> Sector]
      /\ locations' \in [Chunk -> Location]
      /\ timestamps' \in [Chunk -> Nat]
  <2>1. PICK n \in Int :
           MoveSectors(read_head, write_head, n) /\ StoreTables(write_head, n)
    BY <1>4, <1>5 DEF ShrinkMove, ShrinkGap
  <2> QED
    BY <1>5, <2>1, MoveSectorsType, StoreTablesType
<1> USE DEF IInv, TypeOK, ShrinkMove, Shrinking, Flushing, file, handle, plan,
          heads
<1>7. FileTypeOK'
  BY <1>6 DEF FileTypeOK
<1>8. HandleTypeOK' /\ OneWritePerChunk'
  BY DEF HandleTypeOK, OneWritePerChunk
<1>9. FlushTypeOK'
  BY <1>4, <1>5 DEF FlushTypeOK, Steps, ShrinkGap
<1>10. FlagTypeOK'
  BY DEF FlagTypeOK
<1>11. Phases' /\ EmptyFileOK'
  BY DEF FileTypeOK, HandleTypeOK, FlushTypeOK, Phases, EmptyFileOK
<1>12. Drawn'
  BY DEF FlushTypeOK, Phases, Drawn
<1> QED
  BY <1>7, <1>8, <1>9, <1>10, <1>11, <1>12

\* A deleted chunk leaves the list with its entry cleared.
LEMMA ShrinkDeleteIInv ==
    ASSUME IInv, NEW g, ShrinkDelete(g)
    PROVE  IInv'
<1>1. g \in shrinks /\ g \in shrinks \cup grows
  BY DEF ShrinkDelete, Shrinking, HeadsShrinks
<1>2. g.write \in ChunkWrite
  BY <1>1, ListedWrite
<1>3. /\ g.write.pos \in Chunk
      /\ g.write.timestamp \in Nat
      /\ CountFor(g.write.length) \in Nat
      /\ CountFor(g.write.length) \in 0 .. CountMod - 1
  BY <1>2, WriteFields
<1>4. /\ locations[g.write.pos].offset \in Int
      /\ locations[g.write.pos].sector_count \in Nat
  BY <1>3, Entries
<1>5. read_head \in Int /\ write_head \in Int /\ fsize \in Nat
  BY DEF IInv, TypeOK, FileTypeOK, FlushTypeOK
<1>6. locations' \in [Chunk -> Location] /\ timestamps' \in [Chunk -> Nat]
  <2>1. SetEntry(g.write.pos, 0, 0, 0)
    BY DEF ShrinkDelete, ClearEntry
  <2>2. 0 \in Int /\ 0 \in Nat /\ 0 \in 0 .. CountMod - 1
    BY DEF CountMod
  <2> QED
    BY <1>3, <2>1, <2>2, SetEntryType
<1> USE DEF IInv, TypeOK, ShrinkDelete, Shrinking, Flushing, file, handle, plan,
          heads
<1>7. FileTypeOK'
  BY <1>6 DEF FileTypeOK
<1>8. HandleTypeOK' /\ OneWritePerChunk'
  BY DEF HandleTypeOK, OneWritePerChunk
<1>9. FlushTypeOK'
  BY <1>3, <1>4, <1>5 DEF FlushTypeOK, Steps
<1>10. FlagTypeOK'
  BY DEF FlagTypeOK
<1>11. Phases'
  BY DEF FileTypeOK, HandleTypeOK, FlushTypeOK, Phases
<1>12. EmptyFileOK'
  BY DEF FileTypeOK, Phases, EmptyFileOK, SetEntry, ClearEntry
<1>13. Drawn'
  BY DEF FlushTypeOK, Phases, Drawn
<1> QED
  BY <1>7, <1>8, <1>9, <1>10, <1>11, <1>12, <1>13

\* The entry of a chunk that shrinks.
LEMMA ShrinkEntryIInv ==
    ASSUME IInv, NEW g, ShrinkEntry(g)
    PROVE  IInv'
<1>1. g \in shrinks /\ g \in shrinks \cup grows
  BY DEF ShrinkEntry, Shrinking, HeadsShrinks
<1>2. g.write \in ChunkWrite
  BY <1>1, ListedWrite
<1>3. /\ g.write.pos \in Chunk
      /\ g.write.timestamp \in Nat
      /\ CountFor(g.write.length) \in Nat
      /\ CountFor(g.write.length) \in 0 .. CountMod - 1
  BY <1>2, WriteFields
<1>4. /\ locations[g.write.pos].offset \in Int
      /\ locations[g.write.pos].sector_count \in Nat
  BY <1>3, Entries
<1>5. read_head \in Int /\ write_head \in Int /\ fsize \in Nat
  BY DEF IInv, TypeOK, FileTypeOK, FlushTypeOK
<1>6. locations' \in [Chunk -> Location] /\ timestamps' \in [Chunk -> Nat]
  <2>1. SetEntry(g.write.pos, write_head, CountFor(g.write.length), g.write.timestamp)
    BY DEF ShrinkEntry
  <2> QED
    BY <1>3, <1>5, <2>1, SetEntryType
<1> USE DEF IInv, TypeOK, ShrinkEntry, Shrinking, Flushing, file, handle, plan,
          heads
<1>7. FileTypeOK'
  BY <1>6 DEF FileTypeOK
<1>8. HandleTypeOK' /\ OneWritePerChunk'
  BY DEF HandleTypeOK, OneWritePerChunk
<1>9. FlushTypeOK'
  BY <1>3, <1>4, <1>5 DEF FlushTypeOK, Steps
<1>10. FlagTypeOK'
  BY DEF FlagTypeOK
<1>11. Phases'
  BY DEF FileTypeOK, HandleTypeOK, FlushTypeOK, Phases
<1>12. EmptyFileOK'
  BY DEF FileTypeOK, Phases, EmptyFileOK, SetEntry
<1>13. Drawn'
  BY DEF FlushTypeOK, Phases, Drawn
<1> QED
  BY <1>7, <1>8, <1>9, <1>10, <1>11, <1>12, <1>13

\* Its data, when the file ends first.
LEMMA ShrinkDataFaultIInv ==
    ASSUME IInv, NEW g, ShrinkDataFault(g)
    PROVE  IInv'
<1>1. g \in shrinks /\ g \in shrinks \cup grows
  BY DEF ShrinkDataFault, Shrinking, HeadsShrinks
<1>2. g.write \in ChunkWrite
  BY <1>1, ListedWrite
<1>3. /\ g.write.pos \in Chunk
      /\ g.write.timestamp \in Nat
      /\ CountFor(g.write.length) \in Nat
      /\ CountFor(g.write.length) \in 0 .. CountMod - 1
  BY <1>2, WriteFields
<1>4. /\ locations[g.write.pos].offset \in Int
      /\ locations[g.write.pos].sector_count \in Nat
  BY <1>3, Entries
<1>5. read_head \in Int /\ write_head \in Int /\ fsize \in Nat
  BY DEF IInv, TypeOK, FileTypeOK, FlushTypeOK
<1>6. /\ sectors' \in [HeaderSectors .. fsize - 1 -> Sector]
      /\ locations' \in [Chunk -> Location]
      /\ timestamps' \in [Chunk -> Nat]
  <2>1. SectorsFor(g.write.length) \in Int
    BY <1>2, SectorCounts DEF ChunkWrite
  <2>2. /\ StoreData(g.write, write_head)
        /\ StoreTables(write_head, SectorsFor(g.write.length))
    BY DEF ShrinkDataFault
  <2> QED
    BY <1>2, <1>5, <2>1, <2>2, StoreDataType, StoreTablesType
<1> USE DEF IInv, TypeOK, ShrinkDataFault, Shrinking, Flushing, file, handle,
          plan, heads
<1>7. FileTypeOK'
  BY <1>6 DEF FileTypeOK
<1>8. HandleTypeOK' /\ OneWritePerChunk'
  BY DEF HandleTypeOK, OneWritePerChunk
<1>9. FlushTypeOK'
  BY DEF FlushTypeOK, Steps
<1>10. FlagTypeOK'
  BY DEF FlagTypeOK
<1>11. Phases' /\ EmptyFileOK'
  BY DEF FileTypeOK, HandleTypeOK, FlushTypeOK, Phases, EmptyFileOK
<1>12. Drawn'
  BY DEF FlushTypeOK, Phases, Drawn
<1> QED
  BY <1>7, <1>8, <1>9, <1>10, <1>11, <1>12

\* Its data; the chunk leaves the list.
LEMMA ShrinkDataIInv ==
    ASSUME IInv, NEW g, ShrinkData(g)
    PROVE  IInv'
<1>1. g \in shrinks /\ g \in shrinks \cup grows
  BY DEF ShrinkData, Shrinking, HeadsShrinks
<1>2. g.write \in ChunkWrite
  BY <1>1, ListedWrite
<1>3. /\ g.write.pos \in Chunk
      /\ g.write.timestamp \in Nat
      /\ CountFor(g.write.length) \in Nat
      /\ CountFor(g.write.length) \in 0 .. CountMod - 1
  BY <1>2, WriteFields
<1>4. /\ locations[g.write.pos].offset \in Int
      /\ locations[g.write.pos].sector_count \in Nat
  BY <1>3, Entries
<1>5. read_head \in Int /\ write_head \in Int /\ fsize \in Nat
  BY DEF IInv, TypeOK, FileTypeOK, FlushTypeOK
<1>6. /\ sectors' \in [HeaderSectors .. fsize - 1 -> Sector]
      /\ locations' \in [Chunk -> Location]
      /\ timestamps' \in [Chunk -> Nat]
  <2>1. SectorsFor(g.write.length) \in Int
    BY <1>2, SectorCounts DEF ChunkWrite
  <2>2. /\ StoreData(g.write, write_head)
        /\ StoreTables(write_head, SectorsFor(g.write.length))
    BY DEF ShrinkData
  <2> QED
    BY <1>2, <1>5, <2>1, <2>2, StoreDataType, StoreTablesType
<1> USE DEF IInv, TypeOK, ShrinkData, Shrinking, Flushing, file, handle, plan,
          heads
<1>7. FileTypeOK'
  BY <1>6 DEF FileTypeOK
<1>8. HandleTypeOK' /\ OneWritePerChunk'
  BY DEF HandleTypeOK, OneWritePerChunk
<1>9. FlushTypeOK'
  BY <1>3, <1>4, <1>5 DEF FlushTypeOK, Steps
<1>10. FlagTypeOK'
  BY DEF FlagTypeOK
<1>11. Phases' /\ EmptyFileOK'
  BY DEF FileTypeOK, HandleTypeOK, FlushTypeOK, Phases, EmptyFileOK
<1>12. Drawn'
  BY DEF FlushTypeOK, Phases, Drawn
<1> QED
  BY <1>7, <1>8, <1>9, <1>10, <1>11, <1>12

\* The end of the shrinking pass.
LEMMA ShrunkIInv ==
    ASSUME IInv, Shrunk
    PROVE  IInv'
<1> USE DEF IInv, TypeOK, Shrunk, Flushing, file, handle, plan, heads
<1>1. FileTypeOK'
  BY DEF FileTypeOK
<1>2. HandleTypeOK' /\ OneWritePerChunk'
  BY DEF HandleTypeOK, OneWritePerChunk
<1>3. FlushTypeOK'
  BY DEF FlushTypeOK, Steps
<1>4. FlagTypeOK'
  BY DEF FlagTypeOK
<1>5. Phases' /\ EmptyFileOK'
  BY DEF FileTypeOK, HandleTypeOK, FlushTypeOK, Phases, EmptyFileOK
<1>6. Drawn'
  BY DEF FlushTypeOK, Phases, Drawn
<1> QED
  BY <1>1, <1>2, <1>3, <1>4, <1>5, <1>6

-----------------------------------------------------------------------------
(* The resize.                                                             *)

\* The assertion on the new size.
LEMMA ResizeAbortIInv ==
    ASSUME IInv, ResizeAbort
    PROVE  IInv'
<1> USE DEF IInv, TypeOK, ResizeAbort, Flushing, Abort, file, handle, plan,
          heads
<1>1. FileTypeOK'
  BY DEF FileTypeOK
<1>2. HandleTypeOK' /\ OneWritePerChunk'
  BY DEF HandleTypeOK, OneWritePerChunk
<1>3. FlushTypeOK'
  BY DEF FlushTypeOK, Steps
<1>4. FlagTypeOK'
  BY DEF FlagTypeOK
<1>5. Phases' /\ EmptyFileOK'
  BY DEF FileTypeOK, HandleTypeOK, FlushTypeOK, Phases, EmptyFileOK
<1>6. Drawn'
  BY DEF FlushTypeOK, Phases, Drawn
<1> QED
  BY <1>1, <1>2, <1>3, <1>4, <1>5, <1>6

\* The file of the new size is not empty and has contents for each of its sectors.
LEMMA ResizeIInv ==
    ASSUME IInv, Resize
    PROVE  IInv'
<1>1. fsize \in Nat /\ new_fsize \in Int /\ sectors_added \in Int
  BY DEF IInv, TypeOK, FileTypeOK, FlushTypeOK
<1>2. fsize' \in Nat /\ fsize' # 0
  BY <1>1 DEF Resize, HeaderKept, HeaderSectors
<1>3. sectors' \in [HeaderSectors .. fsize' - 1 -> Sector]
  <2>1. Blank \in Sector
    BY DEF Blank, Sector
  <2>2. sectors \in [HeaderSectors .. fsize - 1 -> Sector]
    BY DEF IInv, TypeOK, FileTypeOK
  <2>3. \A s \in HeaderSectors .. fsize' - 1 :
           s < fsize => s \in HeaderSectors .. fsize - 1
    BY <1>1, <1>2 DEF HeaderSectors
  <2> QED
    BY <2>1, <2>2, <2>3 DEF Resize
<1>4. read_head' \in Int /\ write_head' \in Int
  BY <1>1, <1>2, Numbers DEF Resize
<1> USE DEF IInv, TypeOK, Resize, Flushing, file, handle, plan, heads
<1>5. FileTypeOK'
  BY <1>2, <1>3 DEF FileTypeOK
<1>6. HandleTypeOK' /\ OneWritePerChunk'
  BY DEF HandleTypeOK, OneWritePerChunk
<1>7. FlushTypeOK'
  BY <1>4 DEF FlushTypeOK, Steps
<1>8. FlagTypeOK'
  BY DEF FlagTypeOK
<1>9. Phases'
  BY <1>2 DEF Phases
<1>10. EmptyFileOK'
  BY <1>2 DEF EmptyFileOK
<1>11. Drawn'
  BY DEF FlushTypeOK, Phases, Drawn
<1> QED
  BY <1>5, <1>6, <1>7, <1>8, <1>9, <1>10, <1>11

-----------------------------------------------------------------------------
(* The second pass.                                                        *)

\* A failed assertion on the heads of the growing pass.
LEMMA GrowAbortIInv ==
    ASSUME IInv, NEW g, GrowAbort(g)
    PROVE  IInv'
<1> USE DEF IInv, TypeOK, GrowAbort, Growing, Flushing, Abort, file, handle,
          plan, heads
<1>1. FileTypeOK'
  BY DEF FileTypeOK
<1>2. HandleTypeOK' /\ OneWritePerChunk'
  BY DEF HandleTypeOK, OneWritePerChunk
<1>3. FlushTypeOK'
  BY DEF FlushTypeOK, Steps
<1>4. FlagTypeOK'
  BY DEF FlagTypeOK
<1>5. Phases' /\ EmptyFileOK'
  BY DEF FileTypeOK, HandleTypeOK, FlushTypeOK, Phases, EmptyFileOK
<1>6. Drawn'
  BY DEF FlushTypeOK, Phases, Drawn
<1> QED
  BY <1>1, <1>2, <1>3, <1>4, <1>5, <1>6

\* The table is shifted up, ahead of the data.
LEMMA GrowShiftIInv ==
    ASSUME IInv, NEW g, GrowShift(g)
    PROVE  IInv'
<1>1. g \in grows /\ g \in shrinks \cup grows
  BY DEF GrowShift, Growing, HeadsGrows
<1>2. g.write \in ChunkWrite
  BY <1>1, ListedWrite
<1>3. /\ g.write.pos \in Chunk
      /\ g.write.timestamp \in Nat
      /\ CountFor(g.write.length) \in Nat
      /\ CountFor(g.write.length) \in 0 .. CountMod - 1
  BY <1>2, WriteFields
<1>4. /\ locations[g.write.pos].offset \in Int
      /\ locations[g.write.pos].sector_count \in Nat
  BY <1>3, Entries
<1>5. read_head \in Int /\ write_head \in Int /\ fsize \in Nat
  BY DEF IInv, TypeOK, FileTypeOK, FlushTypeOK
<1>6. /\ locations' \in [Chunk -> Location]
      /\ \A c \in Chunk : locations'[c].sector_count = locations[c].sector_count
  <2>1. ShiftLocations(GrowEnd(g), read_head, write_head - read_head)
    BY DEF GrowShift
  <2>2. GrowEnd(g) \in Int
    BY <1>4, <1>5 DEF GrowEnd
  <2> QED
    BY <1>5, <2>1, <2>2, ShiftLocationsType
<1> USE DEF IInv, TypeOK, GrowShift, Growing, Flushing, file, handle, plan,
          heads
<1>7. FileTypeOK'
  BY <1>6 DEF FileTypeOK
<1>8. HandleTypeOK' /\ OneWritePerChunk'
  BY DEF HandleTypeOK, OneWritePerChunk
<1>9. FlushTypeOK'
  BY DEF FlushTypeOK, Steps
<1>10. FlagTypeOK'
  BY DEF FlagTypeOK
<1>11. Phases'
  BY DEF FileTypeOK, HandleTypeOK, FlushTypeOK, Phases
<1>12. EmptyFileOK'
  BY <1>6 DEF Phases, EmptyFileOK
<1>13. Drawn'
  BY DEF FlushTypeOK, Phases, Drawn
<1> QED
  BY <1>7, <1>8, <1>9, <1>10, <1>11, <1>12, <1>13

\* The data behind a chunk moves up.
LEMMA GrowMoveIInv ==
    ASSUME IInv, NEW g, GrowMove(g)
    PROVE  IInv'
<1>1. g \in grows /\ g \in shrinks \cup grows
  BY DEF GrowMove, Growing, HeadsGrows
<1>2. g.write \in ChunkWrite
  BY <1>1, ListedWrite
<1>3. /\ g.write.pos \in Chunk
      /\ g.write.timestamp \in Nat
      /\ CountFor(g.write.length) \in Nat
      /\ CountFor(g.write.length) \in 0 .. CountMod - 1
  BY <1>2, WriteFields
<1>4. /\ locations[g.write.pos].offset \in Int
      /\ locations[g.write.pos].sector_count \in Nat
  BY <1>3, Entries
<1>5. read_head \in Int /\ write_head \in Int /\ fsize \in Nat
  BY DEF IInv, TypeOK, FileTypeOK, FlushTypeOK
<1>6. GrowEnd(g) \in Int /\ GrowGap(g) \in Int
  BY <1>4, <1>5 DEF GrowEnd, GrowGap
<1>7. /\ sectors' \in [HeaderSectors .. fsize - 1 -> Sector]
      /\ locations' \in [Chunk -> Location]
      /\ timestamps' \in [Chunk -> Nat]
  <2>1. /\ MoveSectors(GrowEnd(g), write_head - GrowGap(g), GrowGap(g))
        /\ StoreTables(write_head - GrowGap(g), GrowGap(g))
    BY DEF GrowMove
  <2>2. write_head - GrowGap(g) \in Int
    BY <1>5, <1>6
  <2> QED
    BY <1>6, <2>1, <2>2, MoveSectorsType, StoreTablesType
<1> USE DEF IInv, TypeOK, GrowMove, Growing, Flushing, file, handle, plan, heads
<1>8. FileTypeOK'
  BY <1>7 DEF FileTypeOK
<1>9. HandleTypeOK' /\ OneWritePerChunk'
  BY DEF HandleTypeOK, OneWritePerChunk
<1>10. FlushTypeOK'
  BY <1>5, <1>6 DEF FlushTypeOK, Steps
<1>11. FlagTypeOK'
  BY DEF FlagTypeOK
<1>12. Phases' /\ EmptyFileOK'
  BY DEF FileTypeOK, HandleTypeOK, FlushTypeOK, Phases, EmptyFileOK
<1>13. Drawn'
  BY DEF FlushTypeOK, Phases, Drawn
<1> QED
  BY <1>8, <1>9, <1>10, <1>11, <1>12, <1>13

\* The entry of a chunk that grows.
LEMMA GrowEntryIInv ==
    ASSUME IInv, NEW g, GrowEntry(g)
    PROVE  IInv'
<1>1. g \in grows /\ g \in shrinks \cup grows
  BY DEF GrowEntry, Growing, HeadsGrows
<1>2. g.write \in ChunkWrite
  BY <1>1, ListedWrite
<1>3. /\ g.write.pos \in Chunk
      /\ g.write.timestamp \in Nat
      /\ CountFor(g.write.length) \in Nat
      /\ CountFor(g.write.length) \in 0 .. CountMod - 1
  BY <1>2, WriteFields
<1>4. /\ locations[g.write.pos].offset \in Int
      /\ locations[g.write.pos].sector_count \in Nat
  BY <1>3, Entries
<1>5. read_head \in Int /\ write_head \in Int /\ fsize \in Nat
  BY DEF IInv, TypeOK, FileTypeOK, FlushTypeOK
<1>6. locations' \in [Chunk -> Location] /\ timestamps' \in [Chunk -> Nat]
  <2>1. SetEntry(g.write.pos, write_head', CountFor(g.write.length),
                 g.write.timestamp)
    BY DEF GrowEntry, GrowSetEntry
  <2>2. write_head' \in Int
    BY <1>3, <1>5 DEF GrowEntry, GrowSetEntry
  <2> QED
    BY <1>3, <2>1, <2>2, SetEntryType
<1> USE DEF IInv, TypeOK, GrowEntry, Growing, Flushing, GrowSetEntry, file,
          handle, plan, heads
<1>7. FileTypeOK'
  BY <1>6 DEF FileTypeOK
<1>8. HandleTypeOK' /\ OneWritePerChunk'
  BY DEF HandleTypeOK, OneWritePerChunk
<1>9. FlushTypeOK'
  BY <1>3, <1>4, <1>5 DEF FlushTypeOK, Steps
<1>10. FlagTypeOK'
  BY DEF FlagTypeOK
<1>11. Phases'
  BY DEF FileTypeOK, HandleTypeOK, FlushTypeOK, Phases
<1>12. EmptyFileOK'
  BY DEF FileTypeOK, Phases, EmptyFileOK, SetEntry
<1>13. Drawn'
  BY DEF FlushTypeOK, Phases, Drawn
<1> QED
  BY <1>7, <1>8, <1>9, <1>10, <1>11, <1>12, <1>13

\* The entry of a chunk that is added.
LEMMA GrowAddIInv ==
    ASSUME IInv, NEW g, GrowAdd(g)
    PROVE  IInv'
<1>1. g \in grows /\ g \in shrinks \cup grows
  BY DEF GrowAdd, Growing, HeadsGrows
<1>2. g.write \in ChunkWrite
  BY <1>1, ListedWrite
<1>3. /\ g.write.pos \in Chunk
      /\ g.write.timestamp \in Nat
      /\ CountFor(g.write.length) \in Nat
      /\ CountFor(g.write.length) \in 0 .. CountMod - 1
  BY <1>2, WriteFields
<1>4. /\ locations[g.write.pos].offset \in Int
      /\ locations[g.write.pos].sector_count \in Nat
  BY <1>3, Entries
<1>5. read_head \in Int /\ write_head \in Int /\ fsize \in Nat
  BY DEF IInv, TypeOK, FileTypeOK, FlushTypeOK
<1>6. locations' \in [Chunk -> Location] /\ timestamps' \in [Chunk -> Nat]
  <2>1. SetEntry(g.write.pos, write_head', CountFor(g.write.length),
                 g.write.timestamp)
    BY DEF GrowAdd, GrowSetEntry
  <2>2. write_head' \in Int
    BY <1>3, <1>5 DEF GrowAdd, GrowSetEntry
  <2> QED
    BY <1>3, <2>1, <2>2, SetEntryType
<1> USE DEF IInv, TypeOK, GrowAdd, Growing, Flushing, GrowSetEntry, file,
          handle, plan, heads
<1>7. FileTypeOK'
  BY <1>6 DEF FileTypeOK
<1>8. HandleTypeOK' /\ OneWritePerChunk'
  BY DEF HandleTypeOK, OneWritePerChunk
<1>9. FlushTypeOK'
  BY <1>3, <1>4, <1>5 DEF FlushTypeOK, Steps
<1>10. FlagTypeOK'
  BY DEF FlagTypeOK
<1>11. Phases'
  BY DEF FileTypeOK, HandleTypeOK, FlushTypeOK, Phases
<1>12. EmptyFileOK'
  BY DEF FileTypeOK, Phases, EmptyFileOK, SetEntry
<1>13. Drawn'
  BY DEF FlushTypeOK, Phases, Drawn
<1> QED
  BY <1>7, <1>8, <1>9, <1>10, <1>11, <1>12, <1>13

\* The data of either, when the file ends first.
LEMMA GrowDataFaultIInv ==
    ASSUME IInv, NEW g, GrowDataFault(g)
    PROVE  IInv'
<1>1. g \in grows /\ g \in shrinks \cup grows
  BY DEF GrowDataFault, Growing, HeadsGrows
<1>2. g.write \in ChunkWrite
  BY <1>1, ListedWrite
<1>3. /\ g.write.pos \in Chunk
      /\ g.write.timestamp \in Nat
      /\ CountFor(g.write.length) \in Nat
      /\ CountFor(g.write.length) \in 0 .. CountMod - 1
  BY <1>2, WriteFields
<1>4. /\ locations[g.write.pos].offset \in Int
      /\ locations[g.write.pos].sector_count \in Nat
  BY <1>3, Entries
<1>5. read_head \in Int /\ write_head \in Int /\ fsize \in Nat
  BY DEF IInv, TypeOK, FileTypeOK, FlushTypeOK
<1>6. /\ sectors' \in [HeaderSectors .. fsize - 1 -> Sector]
      /\ locations' \in [Chunk -> Location]
      /\ timestamps' \in [Chunk -> Nat]
  <2>1. SectorsFor(g.write.length) \in Int
    BY <1>2, SectorCounts DEF ChunkWrite
  <2>2. /\ StoreData(g.write, write_head)
        /\ StoreTables(write_head, SectorsFor(g.write.length))
    BY DEF GrowDataFault
  <2> QED
    BY <1>2, <1>5, <2>1, <2>2, StoreDataType, StoreTablesType
<1> USE DEF IInv, TypeOK, GrowDataFault, Growing, Flushing, file, handle, plan,
          heads
<1>7. FileTypeOK'
  BY <1>6 DEF FileTypeOK
<1>8. HandleTypeOK' /\ OneWritePerChunk'
  BY DEF HandleTypeOK, OneWritePerChunk
<1>9. FlushTypeOK'
  BY DEF FlushTypeOK, Steps
<1>10. FlagTypeOK'
  BY DEF FlagTypeOK
<1>11. Phases' /\ EmptyFileOK'
  BY DEF FileTypeOK, HandleTypeOK, FlushTypeOK, Phases, EmptyFileOK
<1>12. Drawn'
  BY DEF FlushTypeOK, Phases, Drawn
<1> QED
  BY <1>7, <1>8, <1>9, <1>10, <1>11, <1>12

\* The data of either; the chunk leaves the list.
LEMMA GrowDataIInv ==
    ASSUME IInv, NEW g, GrowData(g)
    PROVE  IInv'
<1>1. g \in grows /\ g \in shrinks \cup grows
  BY DEF GrowData, Growing, HeadsGrows
<1>2. g.write \in ChunkWrite
  BY <1>1, ListedWrite
<1>3. /\ g.write.pos \in Chunk
      /\ g.write.timestamp \in Nat
      /\ CountFor(g.write.length) \in Nat
      /\ CountFor(g.write.length) \in 0 .. CountMod - 1
  BY <1>2, WriteFields
<1>4. /\ locations[g.write.pos].offset \in Int
      /\ locations[g.write.pos].sector_count \in Nat
  BY <1>3, Entries
<1>5. read_head \in Int /\ write_head \in Int /\ fsize \in Nat
  BY DEF IInv, TypeOK, FileTypeOK, FlushTypeOK
<1>6. /\ sectors' \in [HeaderSectors .. fsize - 1 -> Sector]
      /\ locations' \in [Chunk -> Location]
      /\ timestamps' \in [Chunk -> Nat]
  <2>1. SectorsFor(g.write.length) \in Int
    BY <1>2, SectorCounts DEF ChunkWrite
  <2>2. /\ StoreData(g.write, write_head)
        /\ StoreTables(write_head, SectorsFor(g.write.length))
    BY DEF GrowData
  <2> QED
    BY <1>2, <1>5, <2>1, <2>2, StoreDataType, StoreTablesType
<1> USE DEF IInv, TypeOK, GrowData, Growing, Flushing, file, handle, plan, heads
<1>7. FileTypeOK'
  BY <1>6 DEF FileTypeOK
<1>8. HandleTypeOK' /\ OneWritePerChunk'
  BY DEF HandleTypeOK, OneWritePerChunk
<1>9. FlushTypeOK'
  BY DEF FlushTypeOK, Steps
<1>10. FlagTypeOK'
  BY DEF FlagTypeOK
<1>11. Phases' /\ EmptyFileOK'
  BY DEF FileTypeOK, HandleTypeOK, FlushTypeOK, Phases, EmptyFileOK
<1>12. Drawn'
  BY DEF FlushTypeOK, Phases, Drawn
<1> QED
  BY <1>7, <1>8, <1>9, <1>10, <1>11, <1>12

\* The end of the growing pass.
LEMMA GrownIInv ==
    ASSUME IInv, Grown
    PROVE  IInv'
<1> USE DEF IInv, TypeOK, Grown, Flushing, file, handle, plan, heads
<1>1. FileTypeOK'
  BY DEF FileTypeOK
<1>2. HandleTypeOK' /\ OneWritePerChunk'
  BY DEF HandleTypeOK, OneWritePerChunk
<1>3. FlushTypeOK'
  BY DEF FlushTypeOK, Steps
<1>4. FlagTypeOK'
  BY DEF FlagTypeOK
<1>5. Phases' /\ EmptyFileOK'
  BY DEF FileTypeOK, HandleTypeOK, FlushTypeOK, Phases, EmptyFileOK
<1>6. Drawn'
  BY DEF FlushTypeOK, Phases, Drawn
<1> QED
  BY <1>1, <1>2, <1>3, <1>4, <1>5, <1>6

-----------------------------------------------------------------------------
(* The inductive invariant.                                                *)

\* Every step of a flush keeps the invariant.
LEMMA FlushStepIInv == IInv /\ FlushStep => IInv'
<1> SUFFICES ASSUME IInv, FlushStep PROVE IInv'
  OBVIOUS
<1>1. CASE \E g \in shrinks :
             \/ ShrinkAbort(g) \/ ShrinkShift(g) \/ ShrinkMoveFault(g) \/ ShrinkMove(g)
             \/ ShrinkDelete(g) \/ ShrinkEntry(g) \/ ShrinkDataFault(g) \/ ShrinkData(g)
  BY <1>1, ShrinkAbortIInv, ShrinkShiftIInv, ShrinkMoveFaultIInv,
            ShrinkMoveIInv, ShrinkDeleteIInv, ShrinkEntryIInv,
            ShrinkDataFaultIInv, ShrinkDataIInv
<1>2. CASE \E g \in grows :
             \/ GrowAbort(g) \/ GrowShift(g) \/ GrowMove(g) \/ GrowEntry(g) \/ GrowAdd(g)
             \/ GrowDataFault(g) \/ GrowData(g)
  BY <1>2, GrowAbortIInv, GrowShiftIInv, GrowMoveIInv, GrowEntryIInv,
            GrowAddIInv, GrowDataFaultIInv, GrowDataIInv
<1>3. CASE \/ SizeWrite \/ CreateFile \/ PlaceClear \/ PlaceEntry
           \/ PlaceHeaderOnly \/ PlaceData \/ PlacedAll
  BY <1>3, SizeWriteIInv, CreateFileIInv, PlaceClearIInv, PlaceEntryIInv,
            PlaceHeaderOnlyIInv, PlaceDataIInv, PlacedAllIInv
<1>4. CASE \/ ClassifyFault \/ ClassifySkip \/ ClassifyShrink \/ ClassifyGrow
           \/ Classified
  BY <1>4, ClassifyFaultIInv, ClassifySkipIInv, ClassifyShrinkIInv,
            ClassifyGrowIInv, ClassifiedIInv
<1>5. CASE Shrunk \/ ResizeAbort \/ Resize \/ Grown \/ Finish
  BY <1>5, ShrunkIInv, ResizeAbortIInv, ResizeIInv, GrownIInv, FinishIInv
<1> QED
  BY <1>1, <1>2, <1>3, <1>4, <1>5 DEF FlushStep

\* Every step does.
LEMMA NextIInv == IInv /\ [Next]_vars => IInv'
<1> SUFFICES ASSUME IInv, [Next]_vars PROVE IInv'
  OBVIOUS
<1>1. CASE \E m \in {"ro", "rw"} : Open(m)
  BY <1>1, OpenIInv
<1>2. CASE \E c \in Chunk : QueryFault(c) \/ SetChunk(c) \/ ClearChunk(c)
  BY <1>2, QueryFaultIInv, SetChunkIInv, ClearChunkIInv
<1>3. CASE \E b \in BOOLEAN : StartFlush(b)
  BY <1>3, StartFlushIInv
<1>4. CASE CloseClean \/ Crash
  BY <1>4, CloseCleanIInv, CrashIInv
<1>5. CASE FlushStep
  BY <1>5, FlushStepIInv
<1>6. CASE UNCHANGED vars
  BY <1>6, StutterIInv
<1> QED
  BY <1>1, <1>2, <1>3, <1>4, <1>5, <1>6 DEF Next

\* The invariant holds in every behaviour.
LEMMA Invariance == Spec => []IInv
BY InitIInv, NextIInv, PTL DEF Spec

-----------------------------------------------------------------------------
(* The theorems.                                                           *)


\* The state stays well formed whatever clients do, wherever the process dies and
\* whatever a damaged file holds: every value the flush computes from the tables,
\* the writes and the heads is one the variables of region.c can be in.
THEOREM TypeCorrect == Spec => []TypeOK
<1>1. IInv => TypeOK
  BY DEF IInv
<1> QED
  BY <1>1, Invariance, PTL

\* rs_region_set_chunk_data_full keeps one write for a chunk in the list, through
\* flushes that are aborted and processes that die.
THEOREM OneWrite == Spec => []OneWritePerChunk
<1>1. IInv => OneWritePerChunk
  BY DEF IInv
<1> QED
  BY <1>1, Invariance, PTL

\* The assertion of rs_region_close on a region that is not writable never fails.
THEOREM CachedOnly == Spec => []CachedOnlyIfWritable
<1>1. IInv => CachedOnlyIfWritable
  BY DEF IInv, Phases, CachedOnlyIfWritable
<1> QED
  BY <1>1, Invariance, PTL

\* No chunk gets into the two ordered lists twice: the duplicate the sorting loop
\* of rs_region_flush would pass over does not exist.
THEOREM NoDuplicates == Spec => []NoDuplicateOrderedWrites
<1>1. ASSUME IInv PROVE NoDuplicateOrderedWrites
  <2> SUFFICES ASSUME NEW g \in shrinks \cup grows, NEW h \in shrinks \cup grows,
                      g.write.pos = h.write.pos
               PROVE  g = h
    BY DEF NoDuplicateOrderedWrites
  <2>1. /\ g.rank \in DOMAIN cached_writes /\ g.write = cached_writes[g.rank]
        /\ h.rank \in DOMAIN cached_writes /\ h.write = cached_writes[h.rank]
    BY <1>1, ListedWrite DEF IInv, TypeOK, HandleTypeOK
  <2>2. g.rank = h.rank
    BY <1>1, <2>1 DEF IInv, OneWritePerChunk
  <2> QED
    BY <1>1, <2>2 DEF IInv, Drawn
<1> QED
  BY <1>1, Invariance, PTL

\* What a step may do to the entry of a chunk.
EntryKept(c) ==
    /\ timestamps'[c] = timestamps[c]
    /\ locations'[c].sector_count = locations[c].sector_count

InList(c) == \E i \in DOMAIN cached_writes : cached_writes[i].pos = c

\* Storing the entry of a chunk in the list keeps those of all others.
LEMMA SetEntryKeeps ==
    ASSUME IInv, NEW c \in Chunk, NEW d \in Chunk, NEW o, NEW n, NEW t,
           SetEntry(d, o, n, t), InList(d)
    PROVE  InList(c) \/ EntryKept(c)
BY DEF SetEntry, EntryKept, IInv, TypeOK, FileTypeOK

\* The chunk of the write in hand is in the list.
LEMMA CellInList ==
    ASSUME IInv, pc # "idle", cell <= Len(cached_writes)
    PROVE  InList(cached_writes[cell].pos) /\ cached_writes[cell].pos \in Chunk
BY CellWrite, WriteFields DEF InList, IInv, TypeOK, HandleTypeOK

\* So is the chunk of every member of the ordered lists.
LEMMA GivenInList ==
    ASSUME IInv, NEW g \in shrinks \cup grows
    PROVE  InList(g.write.pos) /\ g.write.pos \in Chunk
BY ListedWrite, WriteFields DEF InList, IInv, TypeOK, HandleTypeOK

\* A shift changes offsets only: no count and no date.
LEMMA ShiftKeeps ==
    ASSUME IInv, NEW c \in Chunk, NEW lo, NEW hi, NEW by,
           ShiftLocations(lo, hi, by), timestamps' = timestamps
    PROVE  EntryKept(c)
BY Entries DEF ShiftLocations, EntryKept, Location

\* A store into sectors from 'at' on, all behind the tables, keeps the tables.
LEMMA StoreBehindTables ==
    ASSUME NEW at \in Int, NEW n \in Int, at >= HeaderSectors, StoreTables(at, n)
    PROVE  UNCHANGED <<locations, timestamps>>
<1>1. 0 \notin at .. at + n - 1 /\ 1 \notin at .. at + n - 1
  BY DEF HeaderSectors
<1> QED
  BY <1>1 DEF StoreTables

\* A move or store of the shrinking pass that changes the tables reaches over them.
LEMMA ShrinkStores ==
    ASSUME IInv, NEW g \in shrinks,
           ShrinkMoveFault(g) \/ ShrinkMove(g) \/ ShrinkDataFault(g) \/ ShrinkData(g)
    PROVE  OverTables \/ UNCHANGED <<locations, timestamps>>
<1>1. g.write \in ChunkWrite /\ g.write.pos \in Chunk
  BY ListedWrite, WriteFields
<1>2. SectorsFor(g.write.length) \in Int
  BY <1>1, SectorCounts DEF ChunkWrite
<1>3. write_head \in Int /\ read_head \in Int
  BY DEF IInv, TypeOK, FlushTypeOK
<1>4. ShrinkGap(g) \in Int
  BY <1>1, <1>3, Entries DEF ShrinkGap
<1>5. pc \in {"shrinkMove", "shrinkData"}
  BY DEF ShrinkMoveFault, ShrinkMove, ShrinkDataFault, ShrinkData, Shrinking
<1>6. \E n \in Int : StoreTables(write_head, n)
  BY <1>2, <1>4 DEF ShrinkMoveFault, ShrinkMove, ShrinkDataFault, ShrinkData
<1>7. CASE write_head < HeaderSectors
  BY <1>5, <1>7 DEF OverTables
<1>8. CASE write_head >= HeaderSectors
  BY <1>3, <1>6, <1>8, StoreBehindTables
<1> QED
  BY <1>3, <1>7, <1>8 DEF HeaderSectors

\* So does one of the growing pass.
LEMMA GrowStores ==
    ASSUME IInv, NEW g \in grows, GrowMove(g) \/ GrowDataFault(g) \/ GrowData(g)
    PROVE  OverTables \/ UNCHANGED <<locations, timestamps>>
<1>1. g.write \in ChunkWrite /\ g.write.pos \in Chunk
  BY ListedWrite, WriteFields
<1>2. SectorsFor(g.write.length) \in Int
  BY <1>1, SectorCounts DEF ChunkWrite
<1>3. write_head \in Int /\ read_head \in Int
  BY DEF IInv, TypeOK, FlushTypeOK
<1>4. GrowGap(g) \in Int
  BY <1>1, <1>3, Entries DEF GrowGap, GrowEnd
<1>5. pc \in {"growMove", "growData"}
  BY DEF GrowMove, GrowDataFault, GrowData, Growing
<1>6. CASE GrowMove(g)
  <2>1. write_head' = write_head - GrowGap(g) /\ StoreTables(write_head', GrowGap(g))
    BY <1>6 DEF GrowMove
  <2>2. CASE write_head' < HeaderSectors
    BY <1>5, <2>2 DEF OverTables
  <2>3. CASE write_head' >= HeaderSectors
    BY <1>3, <1>4, <2>1, <2>3, StoreBehindTables
  <2> QED
    BY <1>3, <1>4, <2>1, <2>2, <2>3 DEF HeaderSectors
<1>7. CASE GrowDataFault(g) \/ GrowData(g)
  <2>1. StoreTables(write_head, SectorsFor(g.write.length))
    BY <1>7 DEF GrowDataFault, GrowData
  <2>2. CASE write_head < HeaderSectors
    BY <1>5, <2>2 DEF OverTables
  <2>3. CASE write_head >= HeaderSectors
    BY <1>2, <1>3, <2>1, <2>3, StoreBehindTables
  <2> QED
    BY <1>3, <2>2, <2>3 DEF HeaderSectors
<1> QED
  BY <1>6, <1>7

\* The same of every step: only the actions that store into the tables matter.
LEMMA StepKeepsEntries ==
    ASSUME IInv, [Next]_vars, NEW c \in Chunk
    PROVE  InList(c) \/ EntryKept(c) \/ OverTables
<1>1. CASE UNCHANGED <<locations, timestamps>>
  BY <1>1 DEF EntryKept
<1>2. CASE CreateFile
  <2>1. fsize = 0
    BY <1>2 DEF CreateFile, Flushing, IInv, Phases
  <2>2. locations[c].sector_count = 0 /\ timestamps[c] = 0
    BY <2>1 DEF IInv, EmptyFileOK
  <2> QED
    BY <1>2, <2>2 DEF CreateFile, EntryKept, NoLocation
<1>3. CASE PlaceClear
  BY <1>3, CellInList, SetEntryKeeps DEF PlaceClear, ClearEntry, Flushing
<1>4. CASE PlaceEntry
  BY <1>4, CellInList, SetEntryKeeps DEF PlaceEntry, Flushing
<1>5. CASE \E g \in shrinks : ShrinkShift(g) \/ ShrinkDelete(g) \/ ShrinkEntry(g)
  <2>1. PICK g \in shrinks : ShrinkShift(g) \/ ShrinkDelete(g) \/ ShrinkEntry(g)
    BY <1>5
  <2>2. CASE ShrinkShift(g)
    BY <2>2, ShiftKeeps DEF ShrinkShift
  <2>3. CASE ShrinkDelete(g)
    BY <2>3, GivenInList, SetEntryKeeps DEF ShrinkDelete, ClearEntry
  <2>4. CASE ShrinkEntry(g)
    BY <2>4, GivenInList, SetEntryKeeps DEF ShrinkEntry
  <2> QED
    BY <2>1, <2>2, <2>3, <2>4
<1>6. CASE \E g \in grows : GrowShift(g) \/ GrowEntry(g) \/ GrowAdd(g)
  <2>1. PICK g \in grows : GrowShift(g) \/ GrowEntry(g) \/ GrowAdd(g)
    BY <1>6
  <2>2. CASE GrowShift(g)
    BY <2>2, ShiftKeeps DEF GrowShift
  <2>3. CASE GrowEntry(g) \/ GrowAdd(g)
    BY <2>3, GivenInList, SetEntryKeeps DEF GrowEntry, GrowAdd, GrowSetEntry
  <2> QED
    BY <2>1, <2>2, <2>3
<1>7. CASE \E g \in shrinks : \/ ShrinkMoveFault(g) \/ ShrinkMove(g)
                               \/ ShrinkDataFault(g) \/ ShrinkData(g)
  BY <1>1, <1>7, ShrinkStores
<1>8. CASE \E g \in grows : GrowMove(g) \/ GrowDataFault(g) \/ GrowData(g)
  BY <1>1, <1>8, GrowStores
<1> QED
  <2> SUFFICES ASSUME ~UNCHANGED <<locations, timestamps>>, Next
               PROVE  \/ CreateFile \/ PlaceClear \/ PlaceEntry
                      \/ \E g \in shrinks : ShrinkShift(g) \/ ShrinkDelete(g) \/ ShrinkEntry(g)
                      \/ \E g \in grows : GrowShift(g) \/ GrowEntry(g) \/ GrowAdd(g)
                      \/ \E g \in shrinks : \/ ShrinkMoveFault(g) \/ ShrinkMove(g)
                                            \/ ShrinkDataFault(g) \/ ShrinkData(g)
                      \/ \E g \in grows : GrowMove(g) \/ GrowDataFault(g) \/ GrowData(g)
    BY <1>1, <1>2, <1>3, <1>4, <1>5, <1>6, <1>7, <1>8 DEF vars, file
  <2> USE DEF file
  <2>1. ~ \E m \in {"ro", "rw"} : Open(m)
    BY DEF Open
  <2>2. ~ \E d \in Chunk : QueryFault(d) \/ SetChunk(d) \/ ClearChunk(d)
    BY DEF QueryFault, SetChunk, ClearChunk, SetChunkDataFull
  <2>3. ~ \E b \in BOOLEAN : StartFlush(b)
    BY DEF StartFlush
  <2>4. ~CloseClean /\ ~Crash /\ ~Finish /\ ~Grown /\ ~Resize /\ ~ResizeAbort /\ ~Shrunk
    BY DEF CloseClean, Crash, Finish, Grown, Resize, ResizeAbort, Abort, Shrunk
  <2>5. ~SizeWrite /\ ~PlaceHeaderOnly /\ ~PlaceData /\ ~PlacedAll
    BY DEF SizeWrite, PlaceHeaderOnly, PlaceData, PlacedAll
  <2>6. /\ ~ClassifyFault /\ ~ClassifySkip /\ ~ClassifyShrink /\ ~ClassifyGrow
        /\ ~Classified
    BY DEF ClassifyFault, Fault, ClassifySkip, ClassifyShrink, ClassifyGrow, Classified
  <2>7. \A g : ~ShrinkAbort(g) /\ ~GrowAbort(g)
    BY DEF ShrinkAbort, GrowAbort, Abort
  <2> QED
    BY <2>1, <2>2, <2>3, <2>4, <2>5, <2>6, <2>7 DEF Next, FlushStep

\* A flush never creates, deletes, dates or resizes a chunk that is not in the list
\* of writes, not even on a file whose entries overlap or point outside it, unless
\* it moves or stores a chunk over the tables themselves.
THEOREM TouchesOnlyWritten == Spec => FlushTouchesOnlyWritten
<1>1. ASSUME IInv, [Next]_vars
      PROVE  [\A c \in Chunk :
                \/ \E i \in DOMAIN cached_writes : cached_writes[i].pos = c
                \/ OverTables
                \/ /\ timestamps'[c] = timestamps[c]
                   /\ locations'[c].sector_count = locations[c].sector_count]_vars
  BY <1>1, StepKeepsEntries DEF InList, EntryKept
<1> QED
  BY <1>1, Invariance, PTL DEF Spec, FlushTouchesOnlyWritten
=============================================================================
