-------------------------- MODULE RegionContents --------------------------
(***************************************************************************)
(* What the chunks of a region hold throughout a flush, when its clients   *)
(* keep to the rules of RegionHistory, and the theorems about CarefulSpec  *)
(* that follow from it and from the layout of RegionLayout.                *)
(*                                                                         *)
(* At every store of a flush the bytes of each chunk are somewhere: at the *)
(* sector of its entry, or, between the shift of the table and the move of *)
(* the bytes, at the other of the two heads.  There they are what the      *)
(* chunk held before the flush, as long as its write is still to be done,  *)
(* and what the write stores afterwards.  Only the chunk whose entry is    *)
(* stored already and whose data comes next has neither.                   *)
(*                                                                         *)
(* The sectors that no chunk uses are kept account of in the same way: at  *)
(* every store the size of the file, or the size it will be cut to, is     *)
(* what the entries count, what is still to be stored, and the slack that  *)
(* the flush started with (Balance).                                       *)
(***************************************************************************)
EXTENDS RegionLayout

\* The n sectors from o on hold the payload of v, in its encoding.
Holds(o, n, v) ==
    /\ n = SectorsFor(PayloadLen[v.data])
    /\ \A k \in 0 .. n - 1 :
          /\ o + k \in DOMAIN sectors
          /\ sectors[o + k] = [data |-> v.data, part |-> k, enc |-> v.enc]

\* Chunk c has the value v, if its bytes are those from o on.
Reads(c, o, v) ==
    IF v = Absent THEN ~ContainsChunk(c)
    ELSE /\ ContainsChunk(c) /\ timestamps[c] = v.time
         /\ Holds(o, locations[c].sector_count, v)

\* The chunk whose entry is stored, and whose data is not.
Storing == IF pc \in {"placeData", "shrinkData", "growData"} THEN InHand ELSE {}

\* Where the bytes of c are.
Home(c) ==
    CASE pc = "shrinkMove" /\ c \in InHand ->
            locations[c].offset + (read_head - write_head)
      [] pc = "growMove" /\ c \in InHand ->
            locations[c].offset - (write_head - read_head)
      [] OTHER -> locations[c].offset

\* The chunks whose write, if they have one, is still to be done.
Undone ==
    CASE pc \in {"size", "classify"} -> Chunk
      [] pc \in {"place", "placeData"} ->
            {cached_writes[i].pos : i \in {j \in DOMAIN cached_writes : j >= cell}}
      [] OTHER -> {g.write.pos : g \in shrinks \cup grows}

Promise(c) == IF c \in Undone THEN before[c] ELSE After[c]

Kept(c) == Reads(c, Home(c), Promise(c))

\* A write with data is of a whole payload and has one of the dates.
GivenWrites ==
    \A i \in DOMAIN cached_writes :
        cached_writes[i].data # NoData =>
            /\ cached_writes[i].length = PayloadLen[cached_writes[i].data]
            /\ cached_writes[i].timestamp \in Times

\* The writes that have been sorted are in a list, or delete what does not exist.
Sorted ==
    \A i \in DOMAIN cached_writes :
        i < cell =>
            \/ \E g \in shrinks \cup grows : g.write = cached_writes[i]
            \/ cached_writes[i].data = NoData /\ ~ContainsChunk(cached_writes[i].pos)

\* Between flushes the chunks are whole, of an open region.
AtRestWhole ==
    /\ before = Views
    /\ \A c \in Live : timestamps[c] \in Dates
    /\ mode # "closed" => NoneTorn

\* In a flush every chunk is somewhere, and the one being stored is dated already.
InFlush ==
    /\ before \in [Chunk -> Value \cup {Absent}]
    /\ \A c \in Chunk \ Storing : Kept(c)
    /\ \A c \in Storing : timestamps[c] = After[c].time
    /\ pc = "classify" => Sorted

Contents ==
    /\ GivenWrites
    /\ pc = "idle" => AtRestWhole
    /\ pc # "idle" => InFlush

-----------------------------------------------------------------------------
(* Reading chunks.                                                         *)

\* The sectors of the file, and what each of them is.
LEMMA Sectors ==
  ASSUME IInv
  PROVE  /\ DOMAIN sectors = HeaderSectors .. fsize - 1 /\ HeaderSectors \in Int
         /\ fsize \in Nat
         /\ \A s \in DOMAIN sectors : sectors[s] \in Sector
BY DEF IInv, TypeOK, FileTypeOK, HeaderSectors

\* A value has a payload, an encoding and a date, and is none of the marks.
LEMMA ValueFields ==
  ASSUME NEW v \in Value
  PROVE  /\ v.data \in Payload /\ v.data # NoData /\ v.enc \in 0..2 /\ v.time \in Dates
         /\ v = [data |-> v.data, enc |-> v.enc, time |-> v.time]
         /\ v # Absent /\ v # Torn /\ v # Nothing
BY PayloadAssumption, HistoryAssumption DEF Value

\* A chunk that has a value at the sector of its entry is read so.
LEMMA ReadsView ==
  ASSUME IInv, NEW c \in Chunk, NEW v \in Value \cup {Absent},
         Reads(c, locations[c].offset, v)
  PROVE  View(c) = v
<1>1. CASE v = Absent
  BY <1>1 DEF Reads, View
<1>2. CASE v # Absent
  <2>1. PICK o, n : o = locations[c].offset /\ n = locations[c].sector_count
    OBVIOUS
  <2>2. /\ v \in Value /\ ContainsChunk(c) /\ timestamps[c] = v.time /\ Holds(o, n, v)
    BY <1>2, <2>1 DEF Reads
  <2>3. o \in Int /\ n \in Nat /\ n # 0
    BY <2>1, <2>2, Extent DEF ContainsChunk
  <2>4. /\ v.data # NoData
        /\ v = [data |-> v.data, enc |-> v.enc, time |-> v.time]
    BY <2>2, ValueFields
  <2>5. \A k \in 0 .. n - 1 :
           o + k \in DOMAIN sectors
           /\ sectors[o + k] = [data |-> v.data, part |-> k, enc |-> v.enc]
    BY <2>2 DEF Holds
  <2>6. PICK head : head = sectors[o]
    OBVIOUS
  <2>7. o \in DOMAIN sectors /\ head = [data |-> v.data, part |-> 0, enc |-> v.enc]
    <3>1. 0 \in 0 .. n - 1 /\ o + 0 = o
      BY <2>3
    <3> QED
      BY <2>5, <2>6, <3>1
  <2>8. head.data = v.data /\ head.enc = v.enc
    BY <2>7
  <2>9. \A k : [head EXCEPT !.part = k] = [data |-> v.data, part |-> k, enc |-> v.enc]
    BY <2>7
  <2>10. /\ o \in DOMAIN sectors /\ head.data # NoData
         /\ n = SectorsFor(PayloadLen[head.data])
         /\ \A k \in 0 .. n - 1 :
               o + k \in DOMAIN sectors /\ sectors[o + k] = [head EXCEPT !.part = k]
    BY <2>2, <2>4, <2>5, <2>7, <2>8, <2>9 DEF Holds
  <2>11. View(c) = [data |-> head.data, enc |-> head.enc, time |-> timestamps[c]]
    BY <2>1, <2>2, <2>6, <2>10 DEF View
  <2> QED
    BY <2>2, <2>4, <2>8, <2>11
<1> QED
  BY <1>1, <1>2

\* What a reader finds of a chunk: nothing exactly if there is none, and a value that is
\* dated as the table says, and that the chunk has, unless it is torn.
LEMMA ViewReads ==
  ASSUME IInv, NEW c \in Chunk, c \in Live => timestamps[c] \in Dates
  PROVE  /\ View(c) \in Value \cup {Absent, Torn}
         /\ View(c) = Absent <=> ~ContainsChunk(c)
         /\ View(c) \in Value => View(c).time = timestamps[c]
         /\ View(c) # Torn => Reads(c, locations[c].offset, View(c))
<1>1. CASE ~ContainsChunk(c)
  <2>1. View(c) = Absent
    BY <1>1 DEF View
  <2> QED
    BY <1>1, <2>1, ValueFields DEF Reads
<1>2. CASE ContainsChunk(c) /\ View(c) = Torn
  BY <1>2, ValueFields, HistoryAssumption
<1>3. CASE ContainsChunk(c) /\ View(c) # Torn
  <2>1. PICK o, n, head : o = locations[c].offset /\ n = locations[c].sector_count
                          /\ head = sectors[o]
    OBVIOUS
  <2>2. /\ o \in DOMAIN sectors /\ head.data # NoData
        /\ n = SectorsFor(PayloadLen[head.data])
        /\ \A k \in 0 .. n - 1 :
              o + k \in DOMAIN sectors /\ sectors[o + k] = [head EXCEPT !.part = k]
        /\ View(c) = [data |-> head.data, enc |-> head.enc, time |-> timestamps[c]]
    BY <1>3, <2>1 DEF View
  <2>3. head \in Sector
    BY <2>1, <2>2, Sectors
  <2>4. head.data \in Payload /\ head.enc \in 0..2 /\ DOMAIN head = {"data", "part", "enc"}
    BY <2>2, <2>3 DEF Sector
  <2>5. timestamps[c] \in Dates
    BY <1>3 DEF Live
  <2>6. View(c) \in Value
    BY <2>2, <2>4, <2>5 DEF Value
  <2>7. PICK v : v = View(c)
    OBVIOUS
  <2>8. v.data = head.data /\ v.enc = head.enc /\ v.time = timestamps[c]
    BY <2>2, <2>7
  <2>9. \A k : [head EXCEPT !.part = k] = [data |-> v.data, part |-> k, enc |-> v.enc]
    <3>1. head = [data |-> head.data, part |-> head.part, enc |-> head.enc]
      BY <2>3 DEF Sector
    <3> QED
      BY <2>8, <3>1
  <2>10. Holds(o, n, v)
    BY <2>2, <2>8, <2>9 DEF Holds
  <2>11. v # Absent
    BY <2>6, <2>7, ValueFields
  <2>12. Reads(c, o, v)
    BY <1>3, <2>1, <2>8, <2>10, <2>11 DEF Reads
  <2> QED
    BY <1>3, <2>1, <2>6, <2>7, <2>8, <2>11, <2>12
<1> QED
  BY <1>1, <1>2, <1>3

\* A chunk keeps its value if its entry says what it said, and each sector of it is
\* where it was or has been moved along.
LEMMA StillReads ==
  ASSUME NEW c, NEW o, NEW p, NEW v, Reads(c, o, v),
         locations'[c].sector_count = locations[c].sector_count,
         timestamps'[c] = timestamps[c],
         ContainsChunk(c)' <=> ContainsChunk(c),
         \A k \in 0 .. locations[c].sector_count - 1 :
            ContainsChunk(c) /\ o + k \in DOMAIN sectors =>
               p + k \in DOMAIN sectors' /\ sectors'[p + k] = sectors[o + k]
  PROVE  Reads(c, p, v)'
BY DEF Reads, Holds

\* A chunk is kept if it has what it should where it should be.
LEMMA KeptBy ==
  ASSUME NEW c, NEW p, NEW v, p = Home(c)', v = Promise(c)', Reads(c, p, v)'
  PROVE  Kept(c)'
BY DEF Kept, Reads, Holds

-----------------------------------------------------------------------------
(* What the writes of the list make of the chunks.                         *)

\* What a write stores is a value, unless it deletes, and the list says it of its chunk;
\* of a chunk without a write it says nothing.
LEMMA Promised ==
  ASSUME IInv, Careful, GivenWrites
  PROVE  /\ \A i \in 1 .. Len(cached_writes) :
               /\ Outstanding[cached_writes[i].pos] = Written(cached_writes[i])
               /\ After[cached_writes[i].pos] = Written(cached_writes[i])
               /\ Written(cached_writes[i]) \in Value \cup {Absent}
               /\ Written(cached_writes[i]) = Absent <=> cached_writes[i].data = NoData
         /\ \A c \in Chunk :
               (\A i \in 1 .. Len(cached_writes) : cached_writes[i].pos # c) =>
                  Outstanding[c] = Nothing /\ After[c] = before[c]
<1>1. DOMAIN cached_writes = 1 .. Len(cached_writes)
  BY DEF IInv, TypeOK, HandleTypeOK
<1>2. ASSUME NEW i \in 1 .. Len(cached_writes)
      PROVE  /\ Outstanding[cached_writes[i].pos] = Written(cached_writes[i])
             /\ After[cached_writes[i].pos] = Written(cached_writes[i])
             /\ Written(cached_writes[i]) \in Value \cup {Absent}
             /\ Written(cached_writes[i]) = Absent <=> cached_writes[i].data = NoData
  <2>1. PICK w, c : w = cached_writes[i] /\ c = w.pos
    OBVIOUS
  <2>2. w \in ChunkWrite /\ c \in Chunk
    BY <2>1, CachedFields
  <2>3. /\ Written(w) \in Value \cup {Absent}
        /\ Written(w) = Absent <=> w.data = NoData
    <3>1. CASE w.data = NoData
      BY <3>1 DEF Written
    <3>2. CASE w.data # NoData
      <4>1. w.data \in Payload /\ w.timestamp \in Dates
        BY <1>1, <2>1, <2>2, <3>2, WriteFields DEF GivenWrites, Dates
      <4>2. Written(w) \in Value
        BY <3>2, <4>1, EncodingBytes DEF Written, Value
      <4> QED
        BY <3>2, <4>2, ValueFields
    <3> QED
      BY <3>1, <3>2
  <2>4. \A j \in DOMAIN cached_writes : cached_writes[j].pos = c => j = i
    BY <1>1, <2>1 DEF IInv, OneWritePerChunk
  <2>5. (CHOOSE j \in DOMAIN cached_writes : cached_writes[j].pos = c) = i
    BY <1>1, <2>1, <2>4
  <2>6. Outstanding[c] = Written(w)
    BY <1>1, <2>1, <2>2, <2>5 DEF Outstanding
  <2>7. Written(w) # Nothing
    BY <2>3, ValueFields, HistoryAssumption
  <2>8. After[c] = Written(w)
    BY <2>2, <2>6, <2>7 DEF After
  <2> QED
    BY <2>1, <2>3, <2>6, <2>8
<1>3. ASSUME NEW c \in Chunk, \A i \in 1 .. Len(cached_writes) : cached_writes[i].pos # c
      PROVE  Outstanding[c] = Nothing /\ After[c] = before[c]
  <2>1. Outstanding[c] = Nothing
    BY <1>1, <1>3 DEF Outstanding
  <2> QED
    BY <2>1 DEF After
<1> QED
  BY <1>2, <1>3

\* What is promised stays promised while the list and the memory of the start are left
\* alone, and is a value.
LEMMA StillPromised ==
  ASSUME IInv, Careful, Contents, pc # "idle", pc' # "idle", History,
         cached_writes' = cached_writes
  PROVE  /\ before' = before /\ After' = After
         /\ GivenWrites'
         /\ \A c \in Chunk : /\ before[c] \in Value \cup {Absent}
                             /\ After[c] \in Value \cup {Absent}
                             /\ Promise(c) \in Value \cup {Absent}
<1>1. before' = before /\ GivenWrites /\ before \in [Chunk -> Value \cup {Absent}]
  BY DEF History, Contents, InFlush
<1>2. After' = After /\ GivenWrites'
  BY <1>1 DEF After, Outstanding, Written, GivenWrites
<1>3. ASSUME NEW c \in Chunk
      PROVE  /\ before[c] \in Value \cup {Absent} /\ After[c] \in Value \cup {Absent}
             /\ Promise(c) \in Value \cup {Absent}
  <2>1. before[c] \in Value \cup {Absent}
    BY <1>1
  <2>2. After[c] \in Value \cup {Absent}
    <3>1. CASE \A i \in 1 .. Len(cached_writes) : cached_writes[i].pos # c
      BY <1>1, <2>1, <3>1, Promised
    <3>2. CASE \E i \in 1 .. Len(cached_writes) : cached_writes[i].pos = c
      BY <1>1, <3>2, Promised
    <3> QED
      BY <3>1, <3>2
  <2> QED
    BY <2>1, <2>2 DEF Promise
<1> QED
  BY <1>1, <1>2, <1>3

\* What is left to be shown of a step inside a flush.
LEMMA FlushOn ==
  ASSUME IInv, Careful, Contents, pc # "idle", pc' # "idle", History,
         cached_writes' = cached_writes,
         \A c \in Chunk \ Storing' : Kept(c)',
         \A c \in Storing' : timestamps'[c] = After'[c].time,
         pc' = "classify" => Sorted'
  PROVE  Contents'
<1>1. before' = before /\ GivenWrites'
  BY StillPromised
<1>2. before' \in [Chunk -> Value \cup {Absent}]
  BY <1>1 DEF Contents, InFlush
<1> QED
  BY <1>1, <1>2 DEF Contents, InFlush

\* Steps that leave the file alone keep every chunk, when they promise the same.
LEMMA FileAlone ==
  ASSUME IInv, Careful, Contents, History, cached_writes' = cached_writes,
         UNCHANGED <<locations, timestamps, sectors>>,
         pc \in {"size", "place", "classify", "shrink", "grow"},
         pc' \in {"size", "place", "classify", "shrink", "resize", "grow", "finish"},
         \A c \in Chunk : Promise(c)' = Promise(c) \/ Reads(c, locations[c].offset, Promise(c)'),
         pc' = "classify" => Sorted'
  PROVE  Contents'
<1>1. Storing = {} /\ Storing' = {}
  BY DEF Storing
<1>2. ASSUME NEW c \in Chunk PROVE Kept(c)'
  <2>1. PICK o, v, u : o = locations[c].offset /\ v = Promise(c)' /\ u = Promise(c)
    OBVIOUS
  <2>2. Home(c) = o /\ Home(c)' = o
    BY <2>1 DEF Home
  <2>3. Kept(c)
    BY <1>1 DEF Contents, InFlush
  <2>4. Reads(c, o, v)
    BY <2>1, <2>2, <2>3 DEF Kept
  <2>5. ContainsChunk(c)' <=> ContainsChunk(c)
    BY DEF ContainsChunk
  <2>6. Reads(c, o, v)'
    BY <2>4, <2>5, StillReads
  <2> QED
    BY <2>1, <2>2, <2>6, KeptBy
<1> QED
  BY <1>1, <1>2, FlushOn

-----------------------------------------------------------------------------
(* Storing an entry, storing the data, and clearing an entry.              *)

\* Another entry, and its chunk is in hand.
LEMMA EntryStored ==
  ASSUME IInv, Careful, Contents, History, cached_writes' = cached_writes, sectors' = sectors,
         pc \in {"place", "shrinkEntry", "grow", "growEntry"},
         pc' \in {"placeData", "shrinkData", "growData"},
         NEW p \in Chunk, NEW o, NEW n, NEW t, SetEntry(p, o, n, t),
         InHand' = {p}, t = After[p].time,
         \A c \in Chunk \ {p} : Promise(c)' = Promise(c)
  PROVE  Contents'
<1>1. Storing = {} /\ Storing' = {p}
  BY DEF Storing
<1>2. ASSUME NEW c \in Chunk \ {p} PROVE Kept(c)'
  <2>1. PICK h, v : h = locations[c].offset /\ v = Promise(c)
    OBVIOUS
  <2>2. /\ locations'[c] = locations[c] /\ timestamps'[c] = timestamps[c]
        /\ ContainsChunk(c)' <=> ContainsChunk(c)
    BY DEF SetEntry, IInv, TypeOK, FileTypeOK, ContainsChunk
  <2>3. Home(c) = h /\ Home(c)' = h
    BY <2>1, <2>2 DEF Home
  <2>4. Kept(c)
    BY <1>1 DEF Contents, InFlush
  <2>5. Reads(c, h, v)
    BY <2>1, <2>3, <2>4 DEF Kept
  <2>6. Reads(c, h, v)'
    BY <2>2, <2>5, StillReads
  <2> QED
    BY <2>1, <2>3, <2>6, KeptBy
<1>3. timestamps'[p] = After'[p].time
  BY StillPromised DEF SetEntry, IInv, TypeOK, FileTypeOK
<1> QED
  BY <1>1, <1>2, <1>3, FlushOn

\* An entry less.
LEMMA EntryCleared ==
  ASSUME IInv, Careful, Contents, History, cached_writes' = cached_writes, sectors' = sectors,
         pc \in {"place", "shrinkEntry"}, pc' \in {"place", "shrink"},
         NEW p \in Chunk, ClearEntry(p), After[p] = Absent,
         Undone' = Undone \ {p}
  PROVE  Contents'
<1>1. Storing = {} /\ Storing' = {}
  BY DEF Storing
<1>2. ASSUME NEW c \in Chunk, c # p PROVE Kept(c)'
  <2>1. PICK h, v : h = locations[c].offset /\ v = Promise(c)
    OBVIOUS
  <2>2. /\ locations'[c] = locations[c] /\ timestamps'[c] = timestamps[c]
        /\ ContainsChunk(c)' <=> ContainsChunk(c)
    BY <1>2 DEF ClearEntry, SetEntry, IInv, TypeOK, FileTypeOK, ContainsChunk
  <2>3. Home(c) = h /\ Home(c)' = h
    BY <2>1, <2>2 DEF Home
  <2>4. Kept(c)
    BY <1>1 DEF Contents, InFlush
  <2>5. Reads(c, h, v)
    BY <2>1, <2>3, <2>4 DEF Kept
  <2>6. Reads(c, h, v)'
    BY <2>2, <2>5, StillReads
  <2>7. Promise(c)' = Promise(c)
    BY <1>2, StillPromised DEF Promise
  <2> QED
    BY <2>1, <2>3, <2>6, <2>7, KeptBy
<1>3. Kept(p)'
  <2>1. ~ContainsChunk(p)'
    BY DEF ClearEntry, SetEntry, IInv, TypeOK, FileTypeOK, ContainsChunk
  <2>2. Promise(p)' = Absent
    BY StillPromised DEF Promise
  <2> QED
    BY <2>1, <2>2 DEF Kept, Reads
<1> QED
  BY <1>1, <1>2, <1>3, FlushOn

\* The data behind a stored entry: its chunk is as written, and no other is disturbed.
LEMMA DataStored ==
  ASSUME IInv, Careful, LayoutOK, Contents, History, cached_writes' = cached_writes,
         UNCHANGED <<locations, timestamps>>,
         pc \in {"placeData", "shrinkData", "growData"}, pc' \in {"place", "shrink", "grow"},
         NEW i \in 1 .. Len(cached_writes), NEW w, w = cached_writes[i], NEW p, p = w.pos,
         EntryAtHead(w), StoreData(w, write_head), InHand = {p},
         Undone' = Undone \ {p}
  PROVE  Contents'
<1>1. Storing = {p} /\ Storing' = {}
  BY DEF Storing
<1>2. PICK o, n : o = write_head /\ n = CountFor(w.length)
  OBVIOUS
<1>3. /\ w \in ChunkWrite /\ p \in Chunk /\ n = SectorsFor(w.length) /\ n \in 1 .. 255
      /\ After[p] = Written(w) /\ Written(w) \in Value /\ w.data # NoData
      /\ w.length = PayloadLen[w.data]
  <2>1. GivenWrites /\ w.data # NoData /\ DOMAIN cached_writes = 1 .. Len(cached_writes)
    BY DEF Contents, EntryAtHead, IInv, TypeOK, HandleTypeOK
  <2> QED
    BY <1>2, <2>1, CachedFields, Promised DEF GivenWrites
<1>4. /\ p \in Live /\ locations[p].offset = o /\ locations[p].sector_count = n
      /\ o \in Int /\ o >= HeaderSectors /\ o + n <= fsize
  <2>1. p \in Live /\ locations[p].offset = o /\ locations[p].sector_count = n
    BY <1>2 DEF EntryAtHead
  <2> QED
    BY <1>3, <2>1, Extent DEF LayoutOK
<1>5. /\ \A s \in DOMAIN sectors : s \in o .. o + n - 1 =>
            sectors'[s] = [data |-> w.data, part |-> s - o, enc |-> EncodingByte(w.encoding)]
      /\ \A s \in DOMAIN sectors : s \notin o .. o + n - 1 => sectors'[s] = sectors[s]
      /\ DOMAIN sectors' = DOMAIN sectors
  BY <1>2, <1>3 DEF StoreData
<1>8. n \in Int
  <2>1. n \in 1 .. 255
    BY <1>3
  <2> QED
    BY <2>1
<1>6. ASSUME NEW c \in Chunk, c # p PROVE Kept(c)'
  <2>1. PICK h, v, m : h = locations[c].offset /\ v = Promise(c)
                       /\ m = locations[c].sector_count
    OBVIOUS
  <2>2. Home(c) = h /\ Home(c)' = h
    BY <2>1 DEF Home
  <2>3. ContainsChunk(c)' <=> ContainsChunk(c)
    BY DEF ContainsChunk
  <2>4. Kept(c)
    BY <1>1, <1>6 DEF Contents, InFlush
  <2>5. Reads(c, h, v)
    BY <2>1, <2>2, <2>4 DEF Kept
  <2>6. h \in Int /\ m \in Nat
    BY <2>1, Extent
  <2>7. ASSUME NEW k \in 0 .. m - 1, ContainsChunk(c), h + k \in DOMAIN sectors
        PROVE  h + k \in DOMAIN sectors' /\ sectors'[h + k] = sectors[h + k]
    <3>1. c \in Live
      BY <2>7 DEF Live
    <3>2. EndOf(c) <= o \/ EndOf(p) <= h
      BY <1>4, <1>6, <2>1, <3>1 DEF LayoutOK
    <3>3. EndOf(c) = h + m /\ EndOf(p) = o + n
      BY <1>4, <2>1 DEF EndOf
    <3>4. h + k < h + m /\ h + k >= h /\ h + k \in Int /\ n \in Int
      BY <1>8, <2>6, <2>7
    <3>5. h + m <= o \/ o + n <= h
      BY <3>2, <3>3
    <3>6. h + k \notin o .. o + n - 1
      BY <1>4, <2>6, <3>4, <3>5
    <3> QED
      BY <1>5, <2>7, <3>6
  <2>8. Reads(c, h, v)'
    BY <2>1, <2>3, <2>5, <2>7, StillReads
  <2>9. Promise(c)' = Promise(c)
    BY <1>6, StillPromised DEF Promise
  <2> QED
    BY <2>1, <2>2, <2>8, <2>9, KeptBy
<1>7. Kept(p)'
  <2>1. PICK v : v = Written(w)
    OBVIOUS
  <2>2. /\ v = [data |-> w.data, enc |-> EncodingByte(w.encoding), time |-> w.timestamp]
        /\ v.data = w.data /\ v.enc = EncodingByte(w.encoding) /\ v # Absent
    BY <1>3, <2>1, ValueFields DEF Written
  <2>3. Home(p)' = o /\ Promise(p)' = v
    BY <1>3, <1>4, <2>1, StillPromised DEF Home, Promise
  <2>4. n = SectorsFor(PayloadLen[v.data])
    BY <1>3, <2>2
  <2>5. ASSUME NEW k \in 0 .. n - 1
        PROVE  /\ o + k \in DOMAIN sectors'
               /\ sectors'[o + k] = [data |-> v.data, part |-> k, enc |-> v.enc]
    <3>1. k \in Int /\ 0 <= k /\ k <= n - 1 /\ n \in Int /\ HeaderSectors \in Int /\ fsize \in Int
      BY <1>8, Sectors
    <3>2. o + k \in HeaderSectors .. fsize - 1 /\ o + k \in o .. o + n - 1 /\ (o + k) - o = k
      BY <1>4, <3>1
    <3>3. o + k \in DOMAIN sectors
      BY <3>2, Sectors
    <3> QED
      BY <1>5, <2>2, <3>2, <3>3
  <2>6. Holds(o, n, v)'
    BY <2>4, <2>5 DEF Holds
  <2>7. ContainsChunk(p)' /\ timestamps'[p] = v.time /\ locations'[p].sector_count = n
    <3>1. timestamps[p] = After[p].time
      BY <1>1 DEF Contents, InFlush
    <3> QED
      BY <1>3, <1>4, <2>1, <3>1 DEF Live, ContainsChunk
  <2>8. Reads(p, o, v)'
    BY <2>2, <2>6, <2>7 DEF Reads, Holds
  <2> QED
    BY <2>3, <2>8, KeptBy
<1> QED
  BY <1>1, <1>6, <1>7, FlushOn

-----------------------------------------------------------------------------
(* Flushing into an empty file.                                            *)

\* Once the k-th write is done, those behind it are left.
LEMMA OneLess ==
  ASSUME IInv, NEW k \in 1 .. Len(cached_writes)
  PROVE  {cached_writes[i].pos : i \in {j \in DOMAIN cached_writes : j >= k + 1}}
            = {cached_writes[i].pos : i \in {j \in DOMAIN cached_writes : j >= k}}
                 \ {cached_writes[k].pos}
<1>1. /\ DOMAIN cached_writes = 1 .. Len(cached_writes)
      /\ \A i, j \in DOMAIN cached_writes : cached_writes[i].pos = cached_writes[j].pos => i = j
  BY DEF IInv, TypeOK, HandleTypeOK, OneWritePerChunk
<1>2. \A j \in DOMAIN cached_writes : j >= k + 1 <=> j >= k /\ j # k
  BY <1>1
<1> QED
  BY <1>1, <1>2

\* Adding up the sizes touches no chunk.
LEMMA SizeWriteContents ==
  ASSUME IInv, Layout, Contents, History, SizeWrite
  PROVE  Contents'
<1>1. /\ pc = "size" /\ pc' = "size"
      /\ UNCHANGED <<locations, timestamps, sectors, cached_writes>>
  BY DEF SizeWrite, file, handle
<1>2. \A c \in Chunk : Promise(c)' = Promise(c)
  BY <1>1, StillPromised DEF Layout, Promise, Undone
<1> QED
  BY <1>1, <1>2, FileAlone DEF Layout

\* The new file has no chunks, and there were none.
LEMMA CreateFileContents ==
  ASSUME IInv, Layout, Contents, History, CreateFile
  PROVE  Contents'
<1>1. /\ pc = "size" /\ pc' = "place" /\ cell' = 1 /\ cached_writes' = cached_writes
      /\ locations' = [c \in Chunk |-> NoLocation]
  BY DEF CreateFile
<1>2. Storing = {} /\ Storing' = {}
  BY <1>1 DEF Storing
<1>3. GivenWrites /\ Careful
  BY DEF Contents, Layout
<1>4. ASSUME NEW c \in Chunk PROVE Kept(c)'
  <2>1. ~ContainsChunk(c)
    BY <1>1 DEF IInv, Phases, EmptyFileOK, ContainsChunk
  <2>2. ~ContainsChunk(c)'
    BY <1>1 DEF NoLocation, ContainsChunk
  <2>3. Promise(c) = before[c]
    BY <1>1 DEF Promise, Undone
  <2>4. before[c] = Absent
    BY <1>1, <1>2, <2>1, <2>3 DEF Contents, InFlush, Kept, Reads
  <2>5. c \in Undone' \/ After[c] = before[c]
    <3>1. DOMAIN cached_writes = 1 .. Len(cached_writes)
      BY DEF IInv, TypeOK, HandleTypeOK
    <3>2. Undone' = {cached_writes[i].pos : i \in {j \in DOMAIN cached_writes : j >= 1}}
      BY <1>1 DEF Undone
    <3>3. \A i \in 1 .. Len(cached_writes) : cached_writes[i].pos \in Undone'
      BY <3>1, <3>2
    <3> QED
      BY <1>3, <3>3, Promised
  <2>6. Promise(c)' = Absent
    BY <1>1, <1>3, <2>4, <2>5, StillPromised DEF Promise
  <2> QED
    BY <2>2, <2>6 DEF Kept, Reads
<1> QED
  BY <1>1, <1>2, <1>3, <1>4, FlushOn

\* A write that deletes has its chunk deleted.
LEMMA PlaceClearContents ==
  ASSUME IInv, Layout, Contents, History, PlaceClear
  PROVE  Contents'
<1>1. PICK k, w, p : k = cell /\ w = cached_writes[k] /\ p = w.pos
  OBVIOUS
<1>2. /\ pc = "place" /\ pc' = "place" /\ k <= Len(cached_writes) /\ w.length = 0
      /\ ClearEntry(p) /\ cell' = k + 1
      /\ sectors' = sectors /\ cached_writes' = cached_writes
  BY <1>1 DEF PlaceClear, handle
<1>3. GivenWrites /\ Careful
  BY DEF Contents, Layout
<1>4. k \in 1 .. Len(cached_writes)
  BY <1>1, <1>2, CellWrite
<1>5. w \in ChunkWrite /\ p \in Chunk /\ w.data = NoData
  BY <1>1, <1>2, <1>3, <1>4, CachedFields, CarefulFields
<1>6. After[p] = Absent
  BY <1>1, <1>3, <1>4, <1>5, Promised
<1>7. Undone' = Undone \ {p}
  <2>1. Undone = {cached_writes[i].pos : i \in {j \in DOMAIN cached_writes : j >= k}}
    BY <1>1, <1>2 DEF Undone
  <2>2. Undone' = {cached_writes[i].pos : i \in {j \in DOMAIN cached_writes : j >= k + 1}}
    BY <1>2 DEF Undone
  <2> QED
    BY <1>1, <1>4, <2>1, <2>2, OneLess
<1> QED
  BY <1>2, <1>3, <1>5, <1>6, <1>7, EntryCleared

\* The entry of a placed chunk.
LEMMA PlaceEntryContents ==
  ASSUME IInv, Layout, Contents, History, PlaceEntry
  PROVE  Contents'
<1>1. PICK k, w, p : k = cell /\ w = cached_writes[k] /\ p = w.pos
  OBVIOUS
<1>2. /\ pc = "place" /\ pc' = "placeData" /\ k <= Len(cached_writes) /\ w.length # 0
      /\ SetEntry(p, write_head, CountFor(w.length), w.timestamp) /\ cell' = k
      /\ sectors' = sectors /\ cached_writes' = cached_writes
  BY <1>1 DEF PlaceEntry, handle
<1>3. GivenWrites /\ Careful
  BY DEF Contents, Layout
<1>4. k \in 1 .. Len(cached_writes)
  BY <1>1, <1>2, CellWrite
<1>5. w \in ChunkWrite /\ p \in Chunk /\ w.data # NoData
  BY <1>1, <1>2, <1>3, <1>4, CachedFields, CarefulFields
<1>6. After[p].time = w.timestamp
  <2>1. After[p] = Written(w)
    BY <1>1, <1>3, <1>4, Promised
  <2> QED
    BY <1>5, <2>1 DEF Written
<1>7. InHand' = {p}
  BY <1>1, <1>2 DEF InHand
<1>8. \A c \in Chunk : Promise(c)' = Promise(c)
  BY <1>1, <1>2, <1>3, StillPromised DEF Promise, Undone
<1> QED
  BY <1>2, <1>3, <1>5, <1>6, <1>7, <1>8, EntryStored

\* The data of a placed chunk.
LEMMA PlaceDataContents ==
  ASSUME IInv, Layout, Contents, History, PlaceData
  PROVE  Contents'
<1>1. PICK k, w, p : k = cell /\ w = cached_writes[k] /\ p = w.pos
  OBVIOUS
<1>2. /\ pc = "placeData" /\ pc' = "place" /\ StoreData(w, write_head) /\ cell' = k + 1
      /\ UNCHANGED <<locations, timestamps, cached_writes>>
  BY <1>1 DEF PlaceData, handle
<1>3. EntryAtHead(w) /\ Careful /\ LayoutOK
  BY <1>1, <1>2 DEF Layout, Placing
<1>4. k \in 1 .. Len(cached_writes)
  BY <1>1, <1>2, CellWrite DEF IInv, Phases
<1>5. InHand = {p}
  BY <1>1, <1>2 DEF InHand
<1>6. Undone' = Undone \ {p}
  <2>1. Undone = {cached_writes[i].pos : i \in {j \in DOMAIN cached_writes : j >= k}}
    BY <1>1, <1>2 DEF Undone
  <2>2. Undone' = {cached_writes[i].pos : i \in {j \in DOMAIN cached_writes : j >= k + 1}}
    BY <1>2 DEF Undone
  <2> QED
    BY <1>1, <1>4, <2>1, <2>2, OneLess
<1> QED
  BY <1>1, <1>2, <1>3, <1>4, <1>5, <1>6, DataStored

\* Nothing is left to be placed.
LEMMA PlacedAllContents ==
  ASSUME IInv, Layout, Contents, History, PlacedAll
  PROVE  Contents'
<1>1. /\ pc = "place" /\ pc' = "finish" /\ cell > Len(cached_writes)
      /\ UNCHANGED <<locations, timestamps, sectors, cached_writes, shrinks, grows>>
  BY DEF PlacedAll, file, handle, plan
<1>2. Undone = {} /\ Undone' = {}
  <2>1. shrinks = {} /\ grows = {}
    BY <1>1 DEF IInv, Drawn
  <2>2. \A j \in DOMAIN cached_writes : ~(j >= cell)
    BY <1>1 DEF IInv, TypeOK, HandleTypeOK, FlushTypeOK
  <2> QED
    BY <1>1, <2>1, <2>2 DEF Undone
<1>3. \A c \in Chunk : Promise(c)' = Promise(c)
  BY <1>1, <1>2, StillPromised DEF Layout, Promise
<1> QED
  BY <1>1, <1>3, FileAlone DEF Layout

-----------------------------------------------------------------------------
(* Sorting the writes.                                                     *)

\* One more write is sorted: it is in a list now, or deletes what does not exist.
LEMMA SortedOn ==
  ASSUME IInv, Layout, Contents, History, pc = "classify", pc' = "classify",
         cell' = cell + 1, cell <= Len(cached_writes),
         UNCHANGED <<locations, timestamps, sectors, cached_writes>>,
         shrinks \subseteq shrinks', grows \subseteq grows',
         \/ \E g \in shrinks' \cup grows' : g.write = cached_writes[cell]
         \/ cached_writes[cell].data = NoData /\ ~ContainsChunk(cached_writes[cell].pos)
  PROVE  Contents'
<1>1. Sorted
  BY DEF Contents, InFlush
<1>2. \A c : ContainsChunk(c)' <=> ContainsChunk(c)
  BY DEF ContainsChunk
<1>3. ASSUME NEW i \in DOMAIN cached_writes, i < cell + 1
      PROVE  \/ \E g \in shrinks' \cup grows' : g.write = cached_writes[i]
             \/ cached_writes[i].data = NoData /\ ~ContainsChunk(cached_writes[i].pos)
  <2>1. i \in Int /\ cell \in Int
    BY DEF IInv, TypeOK, HandleTypeOK, FlushTypeOK
  <2>2. i < cell \/ i = cell
    BY <1>3, <2>1
  <2>3. CASE i < cell
    BY <1>1, <2>3 DEF Sorted
  <2>4. CASE i = cell
    BY <2>4
  <2> QED
    BY <2>2, <2>3, <2>4
<1>4. Sorted'
  BY <1>2, <1>3 DEF Sorted
<1>5. \A c \in Chunk : Promise(c)' = Promise(c)
  BY StillPromised DEF Layout, Promise, Undone
<1> QED
  BY <1>4, <1>5, FileAlone DEF Layout

\* So it is whatever the write is.
LEMMA ClassifyContents ==
  ASSUME IInv, Layout, Contents, History, ClassifySkip \/ ClassifyShrink \/ ClassifyGrow
  PROVE  Contents'
<1>1. PICK w : w = cached_writes[cell]
  OBVIOUS
<1>2. /\ pc = "classify" /\ pc' = "classify" /\ cell' = cell + 1
      /\ cell <= Len(cached_writes)
      /\ UNCHANGED <<locations, timestamps, sectors, cached_writes>>
  BY DEF ClassifySkip, ClassifyShrink, ClassifyGrow, Classifying, file, handle
<1>3. Ordered(w).write = w
  BY DEF Ordered
<1>4. /\ shrinks \subseteq shrinks' /\ grows \subseteq grows'
      /\ \/ \E g \in shrinks' \cup grows' : g.write = w
         \/ w.data = NoData /\ ~ContainsChunk(w.pos)
  <2>1. CASE ClassifySkip
    BY <1>1, <2>1 DEF ClassifySkip, plan
  <2>2. CASE ClassifyShrink
    <3>1. shrinks' = shrinks \cup {Ordered(w)} /\ grows' = grows
      BY <1>1, <2>2 DEF ClassifyShrink
    <3> QED
      BY <1>3, <3>1
  <2>3. CASE ClassifyGrow
    <3>1. grows' = grows \cup {Ordered(w)} /\ shrinks' = shrinks
      BY <1>1, <2>3 DEF ClassifyGrow
    <3> QED
      BY <1>3, <3>1
  <2> QED
    BY <2>1, <2>2, <2>3
<1> QED
  BY <1>1, <1>2, <1>4, SortedOn

\* When all are sorted, what no list has is done.
LEMMA ClassifiedContents ==
  ASSUME IInv, Layout, Contents, History, Classified
  PROVE  Contents'
<1>1. /\ pc = "classify" /\ pc' = "shrink" /\ cell > Len(cached_writes)
      /\ UNCHANGED <<locations, timestamps, sectors, cached_writes, shrinks, grows>>
  BY DEF Classified, file, handle
<1>2. GivenWrites /\ Careful /\ Sorted
  BY <1>1 DEF Contents, Layout, InFlush
<1>3. /\ Undone = Chunk /\ Undone' = {g.write.pos : g \in shrinks \cup grows}
  BY <1>1 DEF Undone
<1>4. /\ DOMAIN cached_writes = 1 .. Len(cached_writes)
      /\ \A i \in DOMAIN cached_writes : i < cell
  BY <1>1 DEF IInv, TypeOK, HandleTypeOK, FlushTypeOK
<1>5. ASSUME NEW c \in Chunk
      PROVE  Promise(c)' = Promise(c) \/ Reads(c, locations[c].offset, Promise(c)')
  <2>1. Promise(c) = before[c] /\ before' = before /\ After' = After
    BY <1>1, <1>2, <1>3, StillPromised DEF Promise
  <2>2. CASE c \in Undone'
    BY <2>1, <2>2 DEF Promise
  <2>3. CASE c \notin Undone' /\ \A i \in 1 .. Len(cached_writes) : cached_writes[i].pos # c
    BY <1>2, <2>1, <2>3, Promised DEF Promise
  <2>4. CASE c \notin Undone' /\ \E i \in 1 .. Len(cached_writes) : cached_writes[i].pos = c
    <3>1. PICK i \in 1 .. Len(cached_writes) : cached_writes[i].pos = c
      BY <2>4
    <3>2. \A g \in shrinks \cup grows : g.write # cached_writes[i]
      BY <1>3, <2>4, <3>1
    <3>3. cached_writes[i].data = NoData /\ ~ContainsChunk(c)
      BY <1>2, <1>4, <3>1, <3>2 DEF Sorted
    <3>4. After[c] = Absent
      BY <1>2, <3>1, <3>3, Promised
    <3> QED
      BY <2>1, <2>4, <3>3, <3>4 DEF Promise, Reads
  <2> QED
    BY <2>2, <2>3, <2>4
<1> QED
  BY <1>1, <1>5, FileAlone DEF Layout

-----------------------------------------------------------------------------
(* The shrinking pass.                                                     *)

\* A chunk whose entry may move and whose bytes may move is kept, if it exists, as long
\* as its bytes are where they are looked for.
LEMMA KeptAlong ==
  ASSUME NEW c, Kept(c), Promise(c)' = Promise(c),
         locations'[c].sector_count = locations[c].sector_count,
         timestamps'[c] = timestamps[c],
         ContainsChunk(c)' <=> ContainsChunk(c),
         NEW h, NEW p, h = Home(c),
         ContainsChunk(c) => p = Home(c)',
         \A k \in 0 .. locations[c].sector_count - 1 :
            ContainsChunk(c) /\ h + k \in DOMAIN sectors =>
               p + k \in DOMAIN sectors' /\ sectors'[p + k] = sectors[h + k]
  PROVE  Kept(c)'
<1>1. PICK v : v = Promise(c)
  OBVIOUS
<1>2. Reads(c, h, v)
  BY <1>1 DEF Kept
<1>3. CASE ContainsChunk(c)
  <2>1. Reads(c, p, v)'
    BY <1>2, StillReads
  <2> QED
    BY <1>1, <1>3, <2>1, KeptBy
<1>4. CASE ~ContainsChunk(c)
  BY <1>1, <1>2, <1>4 DEF Kept, Reads
<1> QED
  BY <1>3, <1>4

\* The entries are shifted, the bytes are still where they were.
LEMMA ShrinkShiftContents ==
  ASSUME IInv, Layout, Contents, History, NEW g, ShrinkShift(g)
  PROVE  Contents'
<1>1. /\ pc = "shrink" /\ pc' = "shrinkMove" /\ HeadsShrinks(g)
      /\ UNCHANGED <<timestamps, sectors, cached_writes, shrinks, grows, read_head, write_head>>
  BY DEF ShrinkShift, Shrinking, handle, plan, heads
<1>2. PICK r, w, o, by \in Int : r = read_head /\ w = write_head /\ o = g.order /\ by = w - r
  <2>1. g.order \in Int /\ read_head \in Int /\ write_head \in Int
    BY <1>1, ListedFields DEF HeadsShrinks, Layout, IInv, TypeOK, FlushTypeOK
  <2>2. write_head - read_head \in Int
    BY <2>1
  <2> QED
    BY <2>1, <2>2
<1>3. /\ g.write.pos \in Live /\ o = locations[g.write.pos].offset
      /\ w <= r /\ r <= o /\ Live' = Live
      /\ \A c \in Chunk : /\ locations'[c].sector_count = locations[c].sector_count
                          /\ ContainsChunk(c)' <=> ContainsChunk(c)
      /\ \A c \in Live :
            /\ locations[c].offset \in Int /\ EndOf(c) \in Int
            /\ EndOf(c) > locations[c].offset
            /\ \/ /\ EndOf(c) <= w
                  /\ locations'[c].offset = locations[c].offset /\ EndOf(c)' = EndOf(c)
               \/ /\ locations[c].offset >= r /\ EndOf(c) <= o
                  /\ locations'[c].offset = locations[c].offset + by
                  /\ EndOf(c)' = EndOf(c) + by
               \/ /\ locations[c].offset >= o
                  /\ locations'[c].offset = locations[c].offset /\ EndOf(c)' = EndOf(c)
  <2>1. EntriesMoveDown(g, r, w, o, by)
    BY <1>2, ShrinkShifted
  <2> QED
    BY <2>1 DEF EntriesMoveDown
<1>4. Careful /\ Storing = {} /\ Storing' = {}
  BY <1>1 DEF Layout, Storing
<1>5. \A c \in Chunk : Promise(c)' = Promise(c)
  BY <1>1, <1>4, StillPromised DEF Promise, Undone
<1>6. \A c : c \in InHand' <=> c \in Live /\ locations'[c].offset \in w .. w + (o - r) - 1
  <2>1. \A h : HeadsShrinks(h)' <=> HeadsShrinks(h)
    BY <1>1 DEF HeadsShrinks
  <2>2. \A h \in shrinks : HeadsShrinks(h) <=> h = g
    BY <1>1, OneHead
  <2>3. ShrinkGap(g)' = o - r
    <3>1. locations'[g.write.pos].offset = o
      BY <1>2, <1>3
    <3> QED
      BY <1>1, <1>2, <3>1 DEF ShrinkGap
  <2>4. InHand' = {c \in Live' : \E h \in shrinks' :
                      /\ HeadsShrinks(h)'
                      /\ locations'[c].offset \in write_head' .. write_head' + ShrinkGap(h)' - 1}
    BY <1>1 DEF InHand
  <2>5. g \in shrinks
    BY <1>1 DEF HeadsShrinks
  <2> QED
    BY <1>1, <1>2, <1>3, <2>1, <2>2, <2>3, <2>4, <2>5
<1>7. ASSUME NEW c \in Live PROVE Home(c)' = locations[c].offset
  <2>1. \/ locations'[c].offset = locations[c].offset /\ c \notin InHand'
        \/ locations'[c].offset = locations[c].offset + by /\ c \in InHand'
    BY <1>2, <1>3, <1>6
  <2>2. Home(c)' = IF c \in InHand' THEN locations'[c].offset + (r - w) ELSE locations'[c].offset
    BY <1>1, <1>2 DEF Home
  <2> QED
    BY <1>2, <1>3, <2>1, <2>2
<1>8. ASSUME NEW c \in Chunk PROVE Kept(c)'
  <2>1. PICK h : h = locations[c].offset
    OBVIOUS
  <2>2. Home(c) = h
    BY <1>1, <2>1 DEF Home
  <2>3. Kept(c)
    BY <1>1, <1>4 DEF Contents, InFlush
  <2>4. ContainsChunk(c) => h = Home(c)'
    BY <1>7, <2>1 DEF Live
  <2> QED
    BY <1>1, <1>3, <1>5, <2>2, <2>3, <2>4, KeptAlong
<1> QED
  BY <1>1, <1>4, <1>8, FlushOn

\* The bytes follow.
LEMMA ShrinkMoveContents ==
  ASSUME IInv, Layout, Contents, History, NEW g, ShrinkMove(g)
  PROVE  Contents'
<1>1. /\ pc = "shrinkMove" /\ pc' = "shrinkEntry" /\ HeadsShrinks(g)
      /\ MoveSectors(read_head, write_head, ShrinkGap(g))
      /\ UNCHANGED <<locations, timestamps, cached_writes, shrinks, grows>>
  BY TablesKept DEF ShrinkMove, Shrinking, handle, plan
<1>2. ShiftedDown(g) /\ Careful /\ g \in shrinks
  BY <1>1, OneHead DEF Layout, InShrinks, HeadsShrinks
<1>3. g.order \in Int /\ g.write.pos \in Chunk /\ g.order = locations[g.write.pos].offset
  BY <1>2, ListedFields DEF ShiftedDown, ShrinkLayout, ShrinksFit
<1>4. PICK r, w, o, n \in Int : r = read_head /\ w = write_head /\ o = g.order /\ n = o - r
  BY <1>3 DEF IInv, TypeOK, FlushTypeOK
<1>5. ShrinkGap(g) = n
  BY <1>3, <1>4 DEF ShrinkGap
<1>6. /\ w >= HeaderSectors /\ HeaderSectors \in Int /\ fsize \in Int
      /\ w + n <= o /\ o <= fsize
      /\ \A c \in Live : EndOf(c) <= w + n \/ locations[c].offset >= o
      /\ \A c \in Live : EndOf(c) <= w \/ locations[c].offset >= w
  BY <1>2, <1>4, <1>5, Sectors DEF ShiftedDown, ShrinkLayout
<1>7. /\ DOMAIN sectors' = DOMAIN sectors
      /\ \A s \in DOMAIN sectors :
            /\ s \notin w .. w + n - 1 => sectors'[s] = sectors[s]
            /\ s \in w .. w + n - 1 /\ s - w + r \in DOMAIN sectors =>
                  sectors'[s] = sectors[s - w + r]
  BY <1>1, <1>4, <1>5 DEF MoveSectors
<1>8. Storing = {} /\ Storing' = {}
  BY <1>1 DEF Storing
<1>9. \A c \in Chunk : Promise(c)' = Promise(c)
  BY <1>1, <1>2, StillPromised DEF Promise, Undone
<1>10. \A c : c \in InHand <=> c \in Live /\ locations[c].offset \in w .. w + n - 1
  <2>1. InHand = {c \in Live : \E h \in shrinks :
                     /\ HeadsShrinks(h)
                     /\ locations[c].offset \in write_head .. write_head + ShrinkGap(h) - 1}
    BY <1>1 DEF InHand
  <2>2. \A h \in shrinks : HeadsShrinks(h) <=> h = g
    BY <1>1, OneHead
  <2> QED
    BY <1>2, <1>4, <1>5, <2>1, <2>2
<1>11. ASSUME NEW c \in Chunk PROVE Kept(c)'
  <2>1. PICK p, m, h : p = locations[c].offset /\ m = locations[c].sector_count /\ h = Home(c)
    OBVIOUS
  <2>2. p \in Int /\ m \in Nat /\ EndOf(c) = p + m
    BY <2>1, Extent
  <2>3. h = IF c \in InHand THEN p + (r - w) ELSE p
    BY <1>1, <1>4, <2>1 DEF Home
  <2>4. ASSUME NEW k \in 0 .. m - 1, ContainsChunk(c), h + k \in DOMAIN sectors
        PROVE  p + k \in DOMAIN sectors' /\ sectors'[p + k] = sectors[h + k]
    <3>1. k \in Int /\ 0 <= k /\ k <= m - 1 /\ c \in Live
      BY <2>2, <2>4 DEF Live
    <3>2. CASE EndOf(c) <= w \/ p >= o
      <4>1. p + k \notin w .. w + n - 1 /\ p \notin w .. w + n - 1
        BY <1>4, <1>6, <2>2, <3>1, <3>2
      <4>2. h = p
        BY <1>10, <2>1, <2>3, <4>1
      <4> QED
        BY <1>7, <2>4, <4>1, <4>2
    <3>3. CASE p >= w /\ EndOf(c) <= w + n
      <4>1. /\ p + k \in w .. w + n - 1 /\ p \in w .. w + n - 1
            /\ p + k \in HeaderSectors .. fsize - 1
        BY <1>4, <1>6, <2>2, <3>1, <3>3
      <4>2. h = p + (r - w)
        BY <1>10, <2>1, <2>3, <3>1, <4>1
      <4>3. (p + k) - w + r = h + k
        BY <1>4, <2>2, <3>1, <4>2
      <4>4. p + k \in DOMAIN sectors
        BY <4>1, Sectors
      <4> QED
        BY <1>7, <2>4, <4>1, <4>3, <4>4
    <3> QED
      BY <1>6, <2>1, <3>1, <3>2, <3>3
  <2>5. Kept(c)
    BY <1>1, <1>8 DEF Contents, InFlush
  <2>6. p = Home(c)'
    BY <1>1, <2>1 DEF Home
  <2>7. ContainsChunk(c)' <=> ContainsChunk(c)
    BY <1>1 DEF ContainsChunk
  <2> QED
    BY <1>1, <1>9, <2>1, <2>4, <2>5, <2>6, <2>7, KeptAlong
<1> QED
  BY <1>1, <1>2, <1>8, <1>11, FlushOn

\* Once a listed write is done, the others are left.
LEMMA OneListedLess ==
  ASSUME IInv, Layout, NEW g \in shrinks \cup grows
  PROVE  /\ {h.write.pos : h \in (shrinks \cup grows) \ {g}}
               = {h.write.pos : h \in shrinks \cup grows} \ {g.write.pos}
         /\ g \in shrinks => (shrinks \ {g}) \cup grows = (shrinks \cup grows) \ {g}
         /\ g \in grows => shrinks \cup (grows \ {g}) = (shrinks \cup grows) \ {g}
<1>1. \A h \in (shrinks \cup grows) \ {g} : h.write.pos # g.write.pos
  BY OtherChunks
<1>2. shrinks \cap grows = {}
  BY DEF Layout, Lists
<1> QED
  BY <1>1, <1>2

\* What a listed write makes of its chunk.
LEMMA ListedPromise ==
  ASSUME IInv, Layout, Contents, NEW g \in shrinks \cup grows
  PROVE  /\ g.write.pos \in Chunk
         /\ After[g.write.pos] = Written(g.write)
         /\ g.rank \in 1 .. Len(cached_writes) /\ g.write = cached_writes[g.rank]
         /\ g.write.data = NoData => After[g.write.pos] = Absent
         /\ g.write.data # NoData => After[g.write.pos].time = g.write.timestamp
<1>1. GivenWrites /\ Careful
  BY DEF Contents, Layout
<1>2. /\ g.rank \in 1 .. Len(cached_writes) /\ g.write = cached_writes[g.rank]
      /\ g.write.pos \in Chunk
  BY <1>1, ListedFields
<1>3. After[g.write.pos] = Written(g.write)
  BY <1>1, <1>2, Promised
<1> QED
  BY <1>2, <1>3 DEF Written

\* A chunk is deleted.
LEMMA ShrinkDeleteContents ==
  ASSUME IInv, Layout, Contents, History, NEW g, ShrinkDelete(g)
  PROVE  Contents'
<1>1. /\ pc = "shrinkEntry" /\ pc' = "shrink" /\ g \in shrinks /\ g.write.data = NoData
      /\ ClearEntry(g.write.pos) /\ shrinks' = shrinks \ {g} /\ grows' = grows
      /\ sectors' = sectors /\ cached_writes' = cached_writes
  BY DEF ShrinkDelete, Shrinking, HeadsShrinks, handle
<1>2. g.write.pos \in Chunk /\ After[g.write.pos] = Absent /\ Careful
  BY <1>1, ListedPromise DEF Layout
<1>3. Undone' = Undone \ {g.write.pos}
  BY <1>1, OneListedLess DEF Undone
<1> QED
  BY <1>1, <1>2, <1>3, EntryCleared

\* The entry of a chunk that shrinks.
LEMMA ShrinkEntryContents ==
  ASSUME IInv, Layout, Contents, History, NEW g, ShrinkEntry(g)
  PROVE  Contents'
<1>1. /\ pc = "shrinkEntry" /\ pc' = "shrinkData" /\ HeadsShrinks(g) /\ g \in shrinks
      /\ g.write.data # NoData
      /\ SetEntry(g.write.pos, write_head, CountFor(g.write.length), g.write.timestamp)
      /\ UNCHANGED <<sectors, cached_writes, shrinks, grows>>
  BY DEF ShrinkEntry, Shrinking, HeadsShrinks, handle
<1>2. g.write.pos \in Chunk /\ g.write.timestamp = After[g.write.pos].time /\ Careful
  BY <1>1, ListedPromise DEF Layout
<1>3. InHand' = {g.write.pos}
  <2>1. \A h : HeadsShrinks(h)' <=> HeadsShrinks(h)
    BY <1>1 DEF HeadsShrinks
  <2>2. {h \in shrinks : HeadsShrinks(h)} = {g}
    BY <1>1, OneHead
  <2>3. InHand' = {x.write.pos : x \in {h \in shrinks' : HeadsShrinks(h)'}}
    BY <1>1 DEF InHand
  <2> QED
    BY <1>1, <2>1, <2>2, <2>3
<1>4. \A c \in Chunk : Promise(c)' = Promise(c)
  BY <1>1, <1>2, StillPromised DEF Promise, Undone
<1> QED
  BY <1>1, <1>2, <1>3, <1>4, EntryStored

\* The data of a chunk that shrinks.
LEMMA ShrinkDataContents ==
  ASSUME IInv, Layout, Contents, History, NEW g, ShrinkData(g)
  PROVE  Contents'
<1>1. /\ pc = "shrinkData" /\ pc' = "shrink" /\ HeadsShrinks(g) /\ g \in shrinks
      /\ StoreData(g.write, write_head) /\ shrinks' = shrinks \ {g} /\ grows' = grows
      /\ UNCHANGED <<locations, timestamps, cached_writes>>
  BY TablesKept DEF ShrinkData, Shrinking, HeadsShrinks, handle
<1>2. EntryAtHead(g.write) /\ Careful /\ LayoutOK
  BY <1>1, OneHead DEF Layout, InShrinks
<1>3. PICK i, w, p : i = g.rank /\ w = g.write /\ p = g.write.pos
  OBVIOUS
<1>4. i \in 1 .. Len(cached_writes) /\ w = cached_writes[i]
  BY <1>1, <1>3, ListedPromise
<1>5. InHand = {p}
  <2>1. {h \in shrinks : HeadsShrinks(h)} = {g}
    BY <1>1, OneHead
  <2>2. InHand = {x.write.pos : x \in {h \in shrinks : HeadsShrinks(h)}}
    BY <1>1 DEF InHand
  <2> QED
    BY <1>3, <2>1, <2>2
<1>6. Undone' = Undone \ {p}
  BY <1>1, <1>3, OneListedLess DEF Undone
<1> QED
  BY <1>1, <1>2, <1>3, <1>4, <1>5, <1>6, DataStored

\* The pass is over.
LEMMA ShrunkContents ==
  ASSUME IInv, Layout, Contents, History, Shrunk
  PROVE  Contents'
<1>1. /\ pc = "shrink" /\ pc' = "resize"
      /\ UNCHANGED <<locations, timestamps, sectors, cached_writes, shrinks, grows>>
  BY DEF Shrunk, file, handle, plan
<1>2. \A c \in Chunk : Promise(c)' = Promise(c)
  BY <1>1, StillPromised DEF Layout, Promise, Undone
<1> QED
  BY <1>1, <1>2, FileAlone DEF Layout

-----------------------------------------------------------------------------
(* The resize, and the growing pass.                                       *)

\* What lies inside the old file and the new one is in both.
LEMMA ResizeContents ==
  ASSUME IInv, Layout, Contents, History, Resize
  PROVE  Contents'
<1>1. /\ pc = "resize" /\ pc' = "grow"
      /\ fsize' = new_fsize + sectors_added
      /\ sectors' = [s \in HeaderSectors .. fsize' - 1 |->
                        IF s < fsize THEN sectors[s] ELSE Blank]
      /\ UNCHANGED <<locations, timestamps, cached_writes, shrinks, grows>>
  BY DEF Resize, handle, plan
<1>2. /\ Careful /\ LayoutOK /\ new_fsize <= fsize /\ \A c \in Live : EndOf(c) <= new_fsize
      /\ sectors_added = GrowthOf(grows) /\ GrowsFit(grows)
  BY <1>1 DEF Layout, Resizing, Lists
<1>3. sectors_added \in Nat
  BY <1>2, GrowthBounds
<1>4. PICK n \in Int : n = fsize' /\ n >= new_fsize
  BY <1>1, <1>3 DEF IInv, TypeOK, FlushTypeOK
<1>5. Storing = {} /\ Storing' = {}
  BY <1>1 DEF Storing
<1>6. \A c \in Chunk : Promise(c)' = Promise(c)
  BY <1>1, <1>2, StillPromised DEF Promise, Undone
<1>7. ASSUME NEW c \in Chunk PROVE Kept(c)'
  <2>1. PICK p, m : p = locations[c].offset /\ m = locations[c].sector_count
    OBVIOUS
  <2>2. p \in Int /\ m \in Nat /\ EndOf(c) = p + m
    BY <2>1, Extent
  <2>3. Home(c) = p /\ Home(c)' = p
    BY <1>1, <2>1 DEF Home
  <2>4. ASSUME NEW k \in 0 .. m - 1, ContainsChunk(c), p + k \in DOMAIN sectors
        PROVE  p + k \in DOMAIN sectors' /\ sectors'[p + k] = sectors[p + k]
    <3>1. k \in Int /\ 0 <= k /\ k <= m - 1 /\ c \in Live
      BY <2>2, <2>4 DEF Live
    <3>2. /\ p + m <= new_fsize /\ new_fsize \in Int /\ fsize \in Int
          /\ HeaderSectors \in Int /\ p >= HeaderSectors
      BY <1>2, <2>1, <2>2, <3>1, Sectors DEF IInv, TypeOK, FlushTypeOK, LayoutOK
    <3>3. new_fsize <= fsize /\ new_fsize <= n /\ n \in Int
      BY <1>2, <1>4
    <3>4. p + k \in Int /\ HeaderSectors <= p + k /\ p + k < fsize /\ p + k < n
      BY <2>2, <3>1, <3>2, <3>3
    <3>5. p + k \in HeaderSectors .. n - 1 /\ p + k < fsize
      BY <3>2, <3>3, <3>4
    <3> QED
      BY <1>1, <1>4, <3>5
  <2>5. Kept(c)
    BY <1>1, <1>5 DEF Contents, InFlush
  <2>6. ContainsChunk(c)' <=> ContainsChunk(c)
    BY <1>1 DEF ContainsChunk
  <2> QED
    BY <1>1, <1>6, <2>1, <2>3, <2>4, <2>5, <2>6, KeptAlong
<1> QED
  BY <1>1, <1>2, <1>5, <1>7, FlushOn

\* The entries are shifted, the bytes are still where they were.
LEMMA GrowShiftContents ==
  ASSUME IInv, Layout, Contents, History, NEW g, GrowShift(g)
  PROVE  Contents'
<1>1. /\ pc = "grow" /\ pc' = "growMove" /\ HeadsGrows(g) /\ g \in grows
      /\ UNCHANGED <<timestamps, sectors, cached_writes, shrinks, grows, read_head, write_head>>
  BY DEF GrowShift, Growing, HeadsGrows, handle, plan, heads
<1>2. PICK r, w \in Int : r = read_head /\ w = write_head
  BY DEF IInv, TypeOK, FlushTypeOK
<1>3. PICK by \in Int : by = w - r
  OBVIOUS
<1>4. PICK p, lo : p = g.write.pos /\ lo = EndOf(p)
  OBVIOUS
<1>5. /\ p \in Live /\ lo \in Int /\ lo <= r /\ r <= w /\ Live' = Live
      /\ locations[p].offset < lo
      /\ \A c \in Chunk : /\ locations'[c].sector_count = locations[c].sector_count
                          /\ ContainsChunk(c)' <=> ContainsChunk(c)
      /\ \A c \in Live :
            /\ locations[c].offset \in Int /\ EndOf(c) \in Int
            /\ EndOf(c) > locations[c].offset
            /\ \/ /\ EndOf(c) <= lo
                  /\ locations'[c].offset = locations[c].offset /\ EndOf(c)' = EndOf(c)
               \/ /\ locations[c].offset >= lo /\ EndOf(c) <= r
                  /\ locations'[c].offset = locations[c].offset + by
                  /\ EndOf(c)' = EndOf(c) + by
               \/ /\ locations[c].offset >= w
                  /\ locations'[c].offset = locations[c].offset /\ EndOf(c)' = EndOf(c)
  BY <1>2, <1>3, <1>4, GrowShifted
<1>6. Careful /\ Storing = {} /\ Storing' = {}
  BY <1>1 DEF Layout, Storing
<1>7. \A c \in Chunk : Promise(c)' = Promise(c)
  BY <1>1, <1>6, StillPromised DEF Promise, Undone
<1>8. \A c : c \in InHand' <=> c \in Live /\ locations'[c].offset \in w - (r - lo) .. w - 1
  <2>1. \A h : HeadsGrows(h)' <=> HeadsGrows(h)
    BY <1>1 DEF HeadsGrows
  <2>2. \A h \in grows : HeadsGrows(h) <=> h = g
    BY <1>1, OneHead
  <2>3. GrowGap(g)' = r - lo
    <3>1. EndOf(p)' = lo
      BY <1>4, <1>5
    <3>2. GrowEnd(g)' = lo
      BY <1>4, <3>1 DEF GrowEnd, EndOf
    <3> QED
      BY <1>1, <1>2, <3>2 DEF GrowGap
  <2>4. InHand' = {c \in Live' : \E h \in grows' :
                      /\ HeadsGrows(h)'
                      /\ locations'[c].offset \in write_head' - GrowGap(h)' .. write_head' - 1}
    BY <1>1 DEF InHand
  <2> QED
    BY <1>1, <1>2, <1>5, <2>1, <2>2, <2>3, <2>4
<1>9. ASSUME NEW c \in Live PROVE Home(c)' = locations[c].offset
  <2>1. \/ locations'[c].offset = locations[c].offset /\ c \notin InHand'
        \/ locations'[c].offset = locations[c].offset + by /\ c \in InHand'
    BY <1>3, <1>5, <1>8
  <2>2. Home(c)' = IF c \in InHand' THEN locations'[c].offset - (w - r) ELSE locations'[c].offset
    BY <1>1, <1>2 DEF Home
  <2> QED
    BY <1>3, <1>5, <2>1, <2>2
<1>10. ASSUME NEW c \in Chunk PROVE Kept(c)'
  <2>1. PICK h : h = locations[c].offset
    OBVIOUS
  <2>2. Home(c) = h
    BY <1>1, <2>1 DEF Home
  <2>3. Kept(c)
    BY <1>1, <1>6 DEF Contents, InFlush
  <2>4. ContainsChunk(c) => h = Home(c)'
    BY <1>9, <2>1 DEF Live
  <2> QED
    BY <1>1, <1>5, <1>7, <2>2, <2>3, <2>4, KeptAlong
<1> QED
  BY <1>1, <1>6, <1>10, FlushOn

\* The bytes follow.
LEMMA GrowMoveContents ==
  ASSUME IInv, Layout, Contents, History, NEW g, GrowMove(g)
  PROVE  Contents'
<1>1. /\ pc = "growMove" /\ pc' = "growEntry" /\ HeadsGrows(g)
      /\ MoveSectors(GrowEnd(g), write_head - GrowGap(g), GrowGap(g))
      /\ UNCHANGED <<locations, timestamps, cached_writes, shrinks, grows>>
  BY TablesKept DEF GrowMove, Growing, handle, plan
<1>2. ShiftedUp(g) /\ Careful /\ g \in grows
  BY <1>1, OneHead DEF Layout, InGrows, HeadsGrows
<1>3. g.write.pos \in Chunk /\ GrowEnd(g) = EndOf(g.write.pos) /\ GrowEnd(g) \in Int
  <2>1. g.write.pos \in Chunk
    BY <1>2, ListedFields
  <2> QED
    BY <2>1, Extent DEF GrowEnd, EndOf
<1>4. PICK r, w, lo, n \in Int : r = read_head /\ w = write_head /\ lo = GrowEnd(g) /\ n = r - lo
  BY <1>3 DEF IInv, TypeOK, FlushTypeOK
<1>5. GrowGap(g) = n
  BY <1>4 DEF GrowGap
<1>6. /\ lo >= HeaderSectors /\ HeaderSectors \in Int /\ fsize \in Int
      /\ lo <= w - n /\ w <= fsize
      /\ \A c \in Live : EndOf(c) <= lo \/ locations[c].offset >= w - n
      /\ \A c \in Live : EndOf(c) <= w \/ locations[c].offset >= w
  BY <1>2, <1>4, <1>5, Sectors DEF ShiftedUp, GrowLayout
<1>7. /\ DOMAIN sectors' = DOMAIN sectors
      /\ \A s \in DOMAIN sectors :
            /\ s \notin w - n .. (w - n) + n - 1 => sectors'[s] = sectors[s]
            /\ s \in w - n .. (w - n) + n - 1 /\ s - (w - n) + lo \in DOMAIN sectors =>
                  sectors'[s] = sectors[s - (w - n) + lo]
  BY <1>1, <1>4, <1>5 DEF MoveSectors
<1>8. (w - n) + n - 1 = w - 1
  OBVIOUS
<1>9. Storing = {} /\ Storing' = {}
  BY <1>1 DEF Storing
<1>10. \A c \in Chunk : Promise(c)' = Promise(c)
  BY <1>1, <1>2, StillPromised DEF Promise, Undone
<1>11. \A c : c \in InHand <=> c \in Live /\ locations[c].offset \in w - n .. w - 1
  <2>1. InHand = {c \in Live : \E h \in grows :
                     /\ HeadsGrows(h)
                     /\ locations[c].offset \in write_head - GrowGap(h) .. write_head - 1}
    BY <1>1 DEF InHand
  <2>2. \A h \in grows : HeadsGrows(h) <=> h = g
    BY <1>1, OneHead
  <2> QED
    BY <1>2, <1>4, <1>5, <2>1, <2>2
<1>12. ASSUME NEW c \in Chunk PROVE Kept(c)'
  <2>1. PICK p, m, h : p = locations[c].offset /\ m = locations[c].sector_count /\ h = Home(c)
    OBVIOUS
  <2>2. p \in Int /\ m \in Nat /\ EndOf(c) = p + m
    BY <2>1, Extent
  <2>3. h = IF c \in InHand THEN p - (w - r) ELSE p
    BY <1>1, <1>4, <2>1 DEF Home
  <2>4. ASSUME NEW k \in 0 .. m - 1, ContainsChunk(c), h + k \in DOMAIN sectors
        PROVE  p + k \in DOMAIN sectors' /\ sectors'[p + k] = sectors[h + k]
    <3>1. k \in Int /\ 0 <= k /\ k <= m - 1 /\ c \in Live
      BY <2>2, <2>4 DEF Live
    <3>2. CASE EndOf(c) <= lo \/ p >= w
      <4>1. p + k \notin w - n .. w - 1 /\ p \notin w - n .. w - 1
        BY <1>4, <1>6, <2>2, <3>1, <3>2
      <4>2. h = p
        BY <1>11, <2>1, <2>3, <4>1
      <4> QED
        BY <1>7, <1>8, <2>4, <4>1, <4>2
    <3>3. CASE p >= w - n /\ EndOf(c) <= w
      <4>1. /\ p + k \in w - n .. w - 1 /\ p \in w - n .. w - 1
            /\ p + k \in HeaderSectors .. fsize - 1
        BY <1>4, <1>6, <2>2, <3>1, <3>3
      <4>2. h = p - (w - r)
        BY <1>11, <2>1, <2>3, <3>1, <4>1
      <4>3. (p + k) - (w - n) + lo = h + k
        BY <1>4, <2>2, <3>1, <4>2
      <4>4. p + k \in DOMAIN sectors
        BY <4>1, Sectors
      <4> QED
        BY <1>7, <1>8, <2>4, <4>1, <4>3, <4>4
    <3> QED
      BY <1>6, <2>1, <3>1, <3>2, <3>3
  <2>5. Kept(c)
    BY <1>1, <1>9 DEF Contents, InFlush
  <2>6. p = Home(c)'
    BY <1>1, <2>1 DEF Home
  <2>7. ContainsChunk(c)' <=> ContainsChunk(c)
    BY <1>1 DEF ContainsChunk
  <2> QED
    BY <1>1, <1>10, <2>1, <2>4, <2>5, <2>6, <2>7, KeptAlong
<1> QED
  BY <1>1, <1>2, <1>9, <1>12, FlushOn

\* The entry of a chunk that grows, or is added.
LEMMA GrowEntryContents ==
  ASSUME IInv, Layout, Contents, History, NEW g, GrowEntry(g) \/ GrowAdd(g)
  PROVE  Contents'
<1>1. /\ pc \in {"grow", "growEntry"} /\ pc' = "growData" /\ HeadsGrows(g) /\ g \in grows
      /\ SetEntry(g.write.pos, write_head', CountFor(g.write.length), g.write.timestamp)
      /\ UNCHANGED <<sectors, cached_writes, shrinks, grows>>
  BY DEF GrowEntry, GrowAdd, GrowSetEntry, Growing, HeadsGrows, handle, plan
<1>2. g.write.data # NoData
  BY <1>1 DEF Layout, InGrows, GrowLayout, GrowsFit
<1>3. g.write.pos \in Chunk /\ g.write.timestamp = After[g.write.pos].time /\ Careful
  BY <1>1, <1>2, ListedPromise DEF Layout
<1>4. InHand' = {g.write.pos}
  <2>1. \A h : HeadsGrows(h)' <=> HeadsGrows(h)
    BY <1>1 DEF HeadsGrows
  <2>2. {h \in grows : HeadsGrows(h)} = {g}
    BY <1>1, OneHead
  <2>3. InHand' = {x.write.pos : x \in {h \in grows' : HeadsGrows(h)'}}
    BY <1>1 DEF InHand
  <2> QED
    BY <1>1, <2>1, <2>2, <2>3
<1>5. \A c \in Chunk : Promise(c)' = Promise(c)
  BY <1>1, <1>3, StillPromised DEF Promise, Undone
<1>6. PICK o : o = write_head'
  OBVIOUS
<1>7. SetEntry(g.write.pos, o, CountFor(g.write.length), g.write.timestamp)
  BY <1>1, <1>6 DEF SetEntry
<1> QED
  BY <1>1, <1>3, <1>4, <1>5, <1>7, EntryStored

\* The data of a chunk that grows.
LEMMA GrowDataContents ==
  ASSUME IInv, Layout, Contents, History, NEW g, GrowData(g)
  PROVE  Contents'
<1>1. /\ pc = "growData" /\ pc' = "grow" /\ HeadsGrows(g) /\ g \in grows
      /\ StoreData(g.write, write_head) /\ grows' = grows \ {g} /\ shrinks' = shrinks
      /\ UNCHANGED <<locations, timestamps, cached_writes>>
  BY TablesKept DEF GrowData, Growing, HeadsGrows, handle
<1>2. EntryAtHead(g.write) /\ Careful /\ LayoutOK
  BY <1>1, OneHead DEF Layout, InGrows
<1>3. PICK i, w, p : i = g.rank /\ w = g.write /\ p = g.write.pos
  OBVIOUS
<1>4. i \in 1 .. Len(cached_writes) /\ w = cached_writes[i]
  BY <1>1, <1>3, ListedPromise
<1>5. InHand = {p}
  <2>1. {h \in grows : HeadsGrows(h)} = {g}
    BY <1>1, OneHead
  <2>2. InHand = {x.write.pos : x \in {h \in grows : HeadsGrows(h)}}
    BY <1>1 DEF InHand
  <2> QED
    BY <1>3, <2>1, <2>2
<1>6. Undone' = Undone \ {p}
  BY <1>1, <1>3, OneListedLess DEF Undone
<1> QED
  BY <1>1, <1>2, <1>3, <1>4, <1>5, <1>6, DataStored

\* The pass is over, and so is the flush.
LEMMA GrownContents ==
  ASSUME IInv, Layout, Contents, History, Grown
  PROVE  Contents'
<1>1. /\ pc = "grow" /\ pc' = "finish"
      /\ UNCHANGED <<locations, timestamps, sectors, cached_writes, shrinks, grows>>
  BY DEF Grown, file, handle, plan
<1>2. \A c \in Chunk : Promise(c)' = Promise(c)
  BY <1>1, StillPromised DEF Layout, Promise, Undone
<1> QED
  BY <1>1, <1>2, FileAlone DEF Layout

-----------------------------------------------------------------------------
(* Between two states.                                                     *)

\* Throughout a flush what is remembered, what is written and what is promised of a
\* chunk are values.
LEMMA Promises ==
  ASSUME IInv, Layout, Contents, pc # "idle", NEW c \in Chunk
  PROVE  /\ before[c] \in Value \cup {Absent} /\ After[c] \in Value \cup {Absent}
         /\ Promise(c) \in Value \cup {Absent} /\ Promise(c) \in {before[c], After[c]}
<1>1. before[c] \in Value \cup {Absent} /\ GivenWrites /\ Careful
  BY DEF Contents, InFlush, Layout
<1>2. After[c] \in Value \cup {Absent}
  <2>1. CASE \A i \in 1 .. Len(cached_writes) : cached_writes[i].pos # c
    BY <1>1, <2>1, Promised
  <2>2. CASE \E i \in 1 .. Len(cached_writes) : cached_writes[i].pos = c
    BY <1>1, <2>2, Promised
  <2> QED
    BY <2>1, <2>2
<1> QED
  BY <1>1, <1>2 DEF Promise

\* The chunk whose data comes next is to have a value.
LEMMA Stored ==
  ASSUME IInv, Layout, Contents, pc # "idle", NEW c \in Storing
  PROVE  c \in Chunk /\ c \in Live /\ After[c] \in Value /\ timestamps[c] = After[c].time
<1>1. GivenWrites /\ Careful /\ timestamps[c] = After[c].time
  BY DEF Contents, InFlush, Layout
<1>2. PICK i \in 1 .. Len(cached_writes) : c = cached_writes[i].pos /\ EntryAtHead(cached_writes[i])
  <2>1. CASE pc = "placeData"
    <3>1. c = cached_writes[cell].pos /\ cell \in 1 .. Len(cached_writes)
      BY <2>1, CellWrite DEF Storing, InHand, IInv, Phases
    <3> QED
      BY <2>1, <3>1 DEF Layout, Placing
  <2>2. CASE pc = "shrinkData"
    <3>1. PICK g \in shrinks : HeadsShrinks(g) /\ EntryAtHead(g.write)
      BY <2>2 DEF Layout, InShrinks
    <3>2. c = g.write.pos
      BY <2>2, <3>1, OneHead DEF Storing, InHand
    <3> QED
      BY <3>1, <3>2, ListedPromise
  <2>3. CASE pc = "growData"
    <3>1. PICK g \in grows : HeadsGrows(g) /\ EntryAtHead(g.write)
      BY <2>3 DEF Layout, InGrows
    <3>2. c = g.write.pos
      BY <2>3, <3>1, OneHead DEF Storing, InHand
    <3> QED
      BY <3>1, <3>2, ListedPromise
  <2> QED
    BY <2>1, <2>2, <2>3 DEF Storing
<1>3. c \in Live /\ cached_writes[i].data # NoData
  BY <1>2 DEF EntryAtHead
<1>4. After[c] = Written(cached_writes[i]) /\ Written(cached_writes[i]) \in Value \cup {Absent}
      /\ Written(cached_writes[i]) # Absent
  BY <1>1, <1>2, <1>3, Promised
<1> QED
  BY <1>1, <1>3, <1>4 DEF Live

\* Every live chunk has one of the dates.
LEMMA Dated ==
  ASSUME IInv, Layout, Contents
  PROVE  \A c \in Live : timestamps[c] \in Dates
<1>1. CASE pc = "idle"
  BY <1>1 DEF Contents, AtRestWhole
<1>2. ASSUME pc # "idle", NEW c \in Live PROVE timestamps[c] \in Dates
  <2>1. CASE c \in Storing
    BY <1>2, <2>1, Stored, ValueFields
  <2>2. CASE c \notin Storing
    <3>1. c \in Chunk /\ ContainsChunk(c)
      BY <1>2 DEF Live
    <3>2. PICK v, h : v = Promise(c) /\ h = Home(c)
      OBVIOUS
    <3>3. Reads(c, h, v)
      BY <1>2, <2>2, <3>1, <3>2 DEF Contents, InFlush, Kept
    <3>4. v \in Value \cup {Absent}
      BY <1>2, <3>1, <3>2, Promises
    <3>5. v # Absent /\ timestamps[c] = v.time
      BY <3>1, <3>3 DEF Reads
    <3> QED
      BY <3>4, <3>5, ValueFields
  <2> QED
    BY <2>1, <2>2
<1> QED
  BY <1>1, <1>2

\* A chunk that the flush does not have in hand reads as it is promised.
LEMMA OutOfHand ==
  ASSUME IInv, Layout, Contents, pc # "idle", NEW c \in Chunk \ InHand
  PROVE  View(c) = Promise(c)
<1>1. PICK v : v = Promise(c)
  OBVIOUS
<1>2. c \notin Storing /\ Home(c) = locations[c].offset
  BY DEF Storing, Home
<1>3. Reads(c, locations[c].offset, v)
  BY <1>1, <1>2 DEF Contents, InFlush, Kept
<1>4. v \in Value \cup {Absent}
  BY <1>1, Promises
<1> QED
  BY <1>1, <1>3, <1>4, ReadsView

\* While nothing is in hand no chunk is torn.
LEMMA NothingTorn ==
  ASSUME IInv, Layout, Contents, pc # "idle", InHand = {}
  PROVE  NoneTorn
<1>1. ASSUME NEW c \in Chunk PROVE View(c) # Torn
  <2>1. View(c) = Promise(c)
    BY OutOfHand
  <2>2. Promise(c) \in Value \cup {Absent}
    BY Promises
  <2> QED
    BY <2>1, <2>2, ValueFields, HistoryAssumption
<1> QED
  BY <1>1 DEF NoneTorn

\* When a flush ends, all that was promised has come true.
LEMMA AtTheEnd ==
  ASSUME IInv, Layout, Contents, pc = "finish"
  PROVE  Views = After /\ NoneTorn
<1>1. InHand = {} /\ Undone = {}
  BY DEF InHand, Undone, Layout, Lists
<1>2. ASSUME NEW c \in Chunk PROVE View(c) = After[c]
  BY <1>1, OutOfHand DEF Promise
<1>3. Views = After
  BY <1>2 DEF Views, After
<1> QED
  BY <1>1, <1>3, NothingTorn

\* The file reads the same as long as it is left alone.
LEMMA ReadsOn ==
  ASSUME UNCHANGED file
  PROVE  /\ Views' = Views /\ Live' = Live /\ (NoneTorn <=> NoneTorn')
         /\ \A c : ContainsChunk(c)' <=> ContainsChunk(c)
<1>1. UNCHANGED <<fsize, ragged, locations, timestamps, sectors>>
  BY DEF file
<1>2. \A c : ContainsChunk(c)' <=> ContainsChunk(c)
  BY <1>1 DEF ContainsChunk
<1>3. \A c : View(c)' = View(c)
  BY <1>1, <1>2 DEF View
<1> QED
  BY <1>2, <1>3 DEF Views, Live, NoneTorn

\* What there is to show of a step after which no flush is in progress.
LEMMA RestsWhole ==
  ASSUME IInv, Layout, Contents, History, UNCHANGED file, pc' = "idle",
         GivenWrites', mode' # "closed" => NoneTorn
  PROVE  Contents'
<1>1. before' = Views'
  BY DEF History
<1>2. \A c \in Live' : timestamps'[c] \in Dates
  BY Dated, ReadsOn DEF file
<1>3. mode' # "closed" => NoneTorn'
  BY ReadsOn
<1> QED
  BY <1>1, <1>2, <1>3 DEF Contents, AtRestWhole

\* The chunks are whole from the start.
LEMMA InitContents == CarefulInit => Contents
<1> SUFFICES ASSUME CarefulInit PROVE Contents
  OBVIOUS
<1>1. PICK f \in InitialFiles : timestamps = f.timestamps
  BY DEF CarefulInit, HistoryInit, Init
<1>2. \A c \in Live : timestamps[c] \in Dates
  BY <1>1 DEF Dates, Live
<1>3. before = Views /\ mode = "closed" /\ pc = "idle" /\ cached_writes = <<>>
  BY DEF CarefulInit, HistoryInit, Init, NoFlush
<1> QED
  BY <1>2, <1>3 DEF Contents, AtRestWhole, GivenWrites

\* Opening, closing and dying change no chunk, and a flush that ends has none torn.
LEMMA RestContents ==
  ASSUME IInv, Layout, Contents, History,
         \/ \E m \in {"ro", "rw"} : CarefulOpen(m)
         \/ CloseClean \/ Finish \/ Crash
  PROVE  Contents'
<1>1. CASE \E m \in {"ro", "rw"} : CarefulOpen(m)
  <2>1. mode = "closed" /\ UNCHANGED <<file, pc, cached_writes>> /\ NoneTorn
    BY <1>1 DEF CarefulOpen, Open, Sound, NoneTorn
  <2>2. pc = "idle"
    BY <2>1 DEF IInv, Phases
  <2>3. GivenWrites'
    BY <2>1 DEF Contents, GivenWrites
  <2> QED
    BY <2>1, <2>2, <2>3, RestsWhole
<1>2. CASE CloseClean
  <2>1. pc = "idle" /\ UNCHANGED <<file, pc, cached_writes>> /\ mode' = "closed"
    BY <1>2 DEF CloseClean, Idle
  <2>2. GivenWrites'
    BY <2>1 DEF Contents, GivenWrites
  <2> QED
    BY <2>1, <2>2, RestsWhole
<1>3. CASE Finish \/ Crash
  <2>1. /\ cached_writes' = <<>> /\ pc' = "idle" /\ UNCHANGED file
        /\ pc = "finish" \/ mode' = "closed"
    BY <1>3 DEF Finish, Crash
  <2>2. GivenWrites'
    BY <2>1 DEF GivenWrites
  <2>3. mode' # "closed" => NoneTorn
    BY <2>1, AtTheEnd
  <2> QED
    BY <2>1, <2>2, <2>3, RestsWhole
<1> QED
  BY <1>1, <1>2, <1>3

\* Taking a cell out of the list leaves what the others are given.
LEMMA WithoutStillGiven ==
  ASSUME IInv, GivenWrites, NEW c \in Chunk
  PROVE  \A i \in 1 .. Len(WithoutWrite(c)) :
            WithoutWrite(c)[i].data # NoData =>
               /\ WithoutWrite(c)[i].length = PayloadLen[WithoutWrite(c)[i].data]
               /\ WithoutWrite(c)[i].timestamp \in Times
<1> DEFINE good == {w \in ChunkWrite :
                      w.data # NoData => w.length = PayloadLen[w.data] /\ w.timestamp \in Times}
<1>1. cached_writes \in Seq(good)
  <2>1. cached_writes \in Seq(ChunkWrite)
    BY DEF IInv, TypeOK, HandleTypeOK
  <2>2. \A i \in 1 .. Len(cached_writes) : cached_writes[i] \in good
    BY <2>1 DEF GivenWrites
  <2> HIDE DEF good
  <2> QED
    BY <2>1, <2>2
<1> HIDE DEF good
<1>2. WithoutWrite(c) \in Seq(good)
  BY <1>1, WithoutWriteIn
<1>3. \A i \in 1 .. Len(WithoutWrite(c)) : WithoutWrite(c)[i] \in good
  BY <1>2
<1> QED
  BY <1>3 DEF good

\* A write of a whole payload is remembered, or one without data.
LEMMA SetContents ==
  ASSUME IInv, Layout, Contents, History, NEW c \in Chunk, NEW data, NEW len, NEW enc, NEW t,
         SetChunkDataFull(c, data, len, enc, t),
         data # NoData => len = PayloadLen[data] /\ t \in Times
  PROVE  Contents'
<1>1. /\ pc = "idle" /\ mode # "closed" /\ GivenWrites /\ NoneTorn
      /\ UNCHANGED <<file, pc, mode>>
  BY DEF SetChunkDataFull, Idle, Contents, AtRestWhole
<1>2. PICK job : /\ cached_writes' = <<job>> \o WithoutWrite(c)
                 /\ job.data # NoData => job.length = PayloadLen[job.data] /\ job.timestamp \in Times
  <2>1. PICK real : real = (data # NoData /\ len > 0)
    OBVIOUS
  <2>2. PICK e : e = (IF real /\ enc = "auto" THEN Guess[data] ELSE enc)
    OBVIOUS
  <2>3. PICK d : d = (IF real THEN data ELSE NoData)
    OBVIOUS
  <2>4. PICK job : job = [pos |-> c, data |-> d, length |-> len, encoding |-> e,
                          timestamp |-> t]
    OBVIOUS
  <2>5. cached_writes' = <<job>> \o WithoutWrite(c)
    BY <2>1, <2>2, <2>3, <2>4 DEF SetChunkDataFull
  <2>6. job.data = d /\ job.length = len /\ job.timestamp = t
    BY <2>4
  <2>7. d # NoData => d = data /\ data # NoData
    BY <2>3
  <2> QED
    BY <2>5, <2>6, <2>7
<1>3. WithoutWrite(c) \in Seq(ChunkWrite)
  BY WithoutWriteProperties DEF IInv, TypeOK, HandleTypeOK
<1> HIDE DEF WithoutWrite
<1>4. /\ DOMAIN cached_writes' = 1 .. Len(WithoutWrite(c)) + 1
      /\ Len(WithoutWrite(c)) \in Nat /\ cached_writes'[1] = job
      /\ \A i \in 2 .. Len(WithoutWrite(c)) + 1 : cached_writes'[i] = WithoutWrite(c)[i - 1]
  BY <1>2, <1>3
<1>5. ASSUME NEW i \in DOMAIN cached_writes', cached_writes'[i].data # NoData
      PROVE  /\ cached_writes'[i].length = PayloadLen[cached_writes'[i].data]
             /\ cached_writes'[i].timestamp \in Times
  <2>1. i = 1 \/ (i \in 2 .. Len(WithoutWrite(c)) + 1 /\ i - 1 \in 1 .. Len(WithoutWrite(c)))
    BY <1>4
  <2>2. CASE i = 1
    BY <1>2, <1>4, <1>5, <2>2
  <2>3. CASE i \in 2 .. Len(WithoutWrite(c)) + 1 /\ i - 1 \in 1 .. Len(WithoutWrite(c))
    <3>1. PICK w, j : j = i - 1 /\ w = WithoutWrite(c)[j] /\ j \in 1 .. Len(WithoutWrite(c))
      BY <2>3
    <3>2. cached_writes'[i] = w
      BY <1>4, <2>3, <3>1
    <3>3. w.data # NoData => w.length = PayloadLen[w.data] /\ w.timestamp \in Times
      BY <1>1, <3>1, WithoutStillGiven
    <3> QED
      BY <1>5, <3>2, <3>3
  <2> QED
    BY <2>1, <2>2, <2>3
<1>6. GivenWrites'
  BY <1>5 DEF GivenWrites
<1> QED
  BY <1>1, <1>6, RestsWhole

\* So is every write and every clear of a client.
LEMMA ClientContents ==
  ASSUME IInv, Layout, Contents, History, NEW c \in Chunk, CarefulSet(c) \/ ClearChunk(c)
  PROVE  Contents'
<1>1. CASE CarefulSet(c)
  <2>1. PICK enc \in Encodings, t \in Times :
           \/ \E p \in Payload : SetChunkDataFull(c, p, PayloadLen[p], enc, t)
           \/ \E len \in NullLens : SetChunkDataFull(c, NoData, len, enc, t)
    BY <1>1 DEF CarefulSet, SetChunk
  <2>2. CASE \E p \in Payload : SetChunkDataFull(c, p, PayloadLen[p], enc, t)
    BY <2>2, SetContents
  <2>3. CASE \E len \in NullLens : SetChunkDataFull(c, NoData, len, enc, t)
    BY <2>3, SetContents
  <2> QED
    BY <2>1, <2>2, <2>3
<1>2. CASE ClearChunk(c)
  BY <1>2, SetContents DEF ClearChunk
<1> QED
  BY <1>1, <1>2

\* A flush remembers the chunks as they are, and all of them are still to be written.
LEMMA StartContents ==
  ASSUME IInv, Layout, Contents, History, NEW b \in BOOLEAN, CarefulFlush(b)
  PROVE  Contents'
<1>1. /\ pc = "idle" /\ pc' \in {"size", "classify"} /\ cell' = 1 /\ mode # "closed"
      /\ UNCHANGED <<locations, timestamps, sectors, cached_writes>>
  BY DEF CarefulFlush, StartFlush, Idle, file, handle
<1>2. GivenWrites /\ NoneTorn /\ before' = Views
  BY <1>1 DEF Contents, AtRestWhole, History
<1>3. GivenWrites' /\ Storing' = {} /\ Undone' = Chunk
  BY <1>1, <1>2 DEF GivenWrites, Storing, Undone
<1>4. ASSUME NEW c \in Chunk
      PROVE  View(c) \in Value \cup {Absent} /\ Reads(c, locations[c].offset, View(c))
  <2>1. c \in Live => timestamps[c] \in Dates
    BY Dated
  <2> QED
    BY <1>2, <2>1, ViewReads DEF NoneTorn
<1>5. before' \in [Chunk -> Value \cup {Absent}]
  BY <1>2, <1>4 DEF Views
<1>6. ASSUME NEW c \in Chunk PROVE Kept(c)'
  <2>1. PICK o, v : o = locations[c].offset /\ v = View(c)
    OBVIOUS
  <2>2. Reads(c, o, v)
    BY <1>4, <2>1
  <2>3. ContainsChunk(c)' <=> ContainsChunk(c)
    BY <1>1 DEF ContainsChunk
  <2>4. Reads(c, o, v)'
    BY <1>1, <2>2, <2>3, StillReads
  <2>5. Home(c)' = o
    BY <1>1, <2>1 DEF Home
  <2>6. Promise(c)' = v
    BY <1>2, <1>3, <2>1 DEF Promise, Views
  <2> QED
    BY <2>4, <2>5, <2>6, KeptBy
<1>7. Sorted'
  <2>1. \A i \in DOMAIN cached_writes' : ~(i < cell')
    BY <1>1 DEF IInv, TypeOK, HandleTypeOK
  <2> QED
    BY <2>1 DEF Sorted
<1> QED
  BY <1>1, <1>3, <1>5, <1>6, <1>7 DEF Contents, InFlush

-----------------------------------------------------------------------------
(* The invariant.                                                          *)

CInv == IInv /\ Layout /\ Contents

\* What careful clients do, clients do.
LEMMA CarefulIsNext == CarefulStep => Next
  BY DEF CarefulStep, CarefulOpen, CarefulSet, CarefulFlush, Next

\* Each step of a flush keeps what the chunks hold.
LEMMA FlushContents ==
  ASSUME IInv, Layout, Contents, History, FlushStep
  PROVE  Contents'
<1>1. CASE \E g \in shrinks :
             \/ ShrinkAbort(g) \/ ShrinkShift(g) \/ ShrinkMoveFault(g) \/ ShrinkMove(g)
             \/ ShrinkDelete(g) \/ ShrinkEntry(g) \/ ShrinkDataFault(g) \/ ShrinkData(g)
  BY <1>1, ShrinkGoesOn, ShrinkShiftContents, ShrinkMoveInside, ShrinkMoveContents,
           ShrinkDeleteContents, ShrinkEntryContents, ShrinkDataInside, ShrinkDataContents
<1>2. CASE \E g \in grows :
             \/ GrowAbort(g) \/ GrowShift(g) \/ GrowMove(g) \/ GrowEntry(g) \/ GrowAdd(g)
             \/ GrowDataFault(g) \/ GrowData(g)
  BY <1>2, GrowGoesOn, GrowShiftContents, GrowMoveContents, GrowEntryContents,
           GrowDataInside, GrowDataContents
<1>3. CASE \/ SizeWrite \/ CreateFile \/ PlaceClear \/ PlaceEntry
           \/ PlaceHeaderOnly \/ PlaceData \/ PlacedAll
  BY <1>3, SizeWriteContents, CreateFileContents, PlaceClearContents, PlaceEntryContents,
           PlaceGoesOn, PlaceDataContents, PlacedAllContents
<1>4. CASE \/ ClassifyFault \/ ClassifySkip \/ ClassifyShrink \/ ClassifyGrow
           \/ Classified
  BY <1>4, ClassifyInside, ClassifyContents, ClassifiedContents
<1>5. CASE Shrunk \/ ResizeAbort \/ Resize \/ Grown \/ Finish
  BY <1>5, ShrunkContents, ResizeGoesOn, ResizeContents, GrownContents, RestContents
<1> QED
  BY <1>1, <1>2, <1>3, <1>4, <1>5 DEF FlushStep

\* So does each step of a careful client.
LEMMA StepContents ==
  ASSUME IInv, Layout, Contents, History, CarefulStep
  PROVE  Contents'
<1>1. CASE \/ \E m \in {"ro", "rw"} : CarefulOpen(m)
           \/ CloseClean \/ Crash
  BY <1>1, RestContents
<1>2. CASE \E c \in Chunk : CarefulSet(c) \/ ClearChunk(c)
  BY <1>2, ClientContents
<1>3. CASE \E b \in BOOLEAN : CarefulFlush(b)
  BY <1>3, StartContents
<1>4. CASE FlushStep
  BY <1>4, FlushContents
<1> QED
  BY <1>1, <1>2, <1>3, <1>4 DEF CarefulStep

\* Nothing happens.
LEMMA StutterContents ==
  ASSUME Contents, UNCHANGED hvars
  PROVE  Contents'
<1>1. /\ UNCHANGED file
      /\ UNCHANGED <<fsize, ragged, locations, timestamps, sectors, mode, cached_writes, pc, cell,
                     shrinks, grows, read_head, write_head, before>>
  BY DEF hvars, vars, file, handle, plan, heads
<1>2. /\ Views' = Views /\ Live' = Live /\ (NoneTorn <=> NoneTorn')
      /\ \A c : ContainsChunk(c)' <=> ContainsChunk(c)
  BY <1>1, ReadsOn
<1>3. AtRestWhole' <=> AtRestWhole
  BY <1>1, <1>2 DEF AtRestWhole
<1>4. GivenWrites' <=> GivenWrites
  BY <1>1 DEF GivenWrites
<1>5. /\ After' = After /\ InHand' = InHand /\ Undone' = Undone
  <2>1. After' = After
    BY <1>1 DEF After, Outstanding, Written
  <2>2. \A g : /\ ShrinkGap(g)' = ShrinkGap(g) /\ GrowGap(g)' = GrowGap(g)
               /\ HeadsShrinks(g)' <=> HeadsShrinks(g)
               /\ HeadsGrows(g)' <=> HeadsGrows(g)
    BY <1>1 DEF ShrinkGap, GrowGap, GrowEnd, HeadsShrinks, HeadsGrows
  <2>3. InHand' = InHand
    BY <1>1, <1>2, <2>2 DEF InHand
  <2>4. Undone' = Undone
    BY <1>1 DEF Undone
  <2> QED
    BY <2>1, <2>3, <2>4
<1>6. Storing' = Storing /\ (Sorted' <=> Sorted)
  BY <1>1, <1>2, <1>5 DEF Storing, Sorted
<1>7. \A c : Home(c)' = Home(c) /\ Promise(c)' = Promise(c)
  BY <1>1, <1>5 DEF Home, Promise
<1>8. \A c, h, v : Reads(c, h, v)' <=> Reads(c, h, v)
  BY <1>1, <1>2 DEF Reads, Holds
<1>9. \A c : Kept(c)' <=> Kept(c)
  <2>1. ASSUME NEW c PROVE Kept(c)' <=> Kept(c)
    <3>1. PICK h, v : h = Home(c) /\ v = Promise(c)
      OBVIOUS
    <3>2. (Kept(c) <=> Reads(c, h, v)) /\ (Kept(c)' <=> Reads(c, h, v)')
      BY <1>7, <3>1 DEF Kept, Reads, Holds
    <3> QED
      BY <1>8, <3>2
  <2> QED
    BY <2>1
<1>10. InFlush' <=> InFlush
  BY <1>1, <1>5, <1>6, <1>9 DEF InFlush
<1> QED
  BY <1>1, <1>3, <1>4, <1>10 DEF Contents

\* The invariant holds in every behaviour of careful clients.
LEMMA CarefulInvariance == CarefulSpec => []CInv
<1>1. CarefulInit => CInv
  BY InitIInv, InitLayout, InitContents DEF CInv, CarefulInit, HistoryInit
<1>2. CInv /\ [CarefulNext]_hvars => CInv'
  <2> SUFFICES ASSUME CInv, [CarefulNext]_hvars PROVE CInv'
    OBVIOUS
  <2> USE DEF CInv
  <2>1. CASE CarefulNext
    <3>1. CarefulStep /\ History
      BY <2>1 DEF CarefulNext
    <3>2. IInv'
      BY <3>1, CarefulIsNext, NextIInv
    <3>3. pc = "classify" => NoneTorn
      BY NothingTorn DEF InHand
    <3>4. Layout'
      BY <3>1, <3>2, <3>3, StepLayout
    <3>5. Contents'
      BY <3>1, StepContents
    <3> QED
      BY <3>2, <3>4, <3>5
  <2>2. CASE UNCHANGED hvars
    <3>1. IInv'
      BY <2>2, NextIInv DEF hvars
    <3> QED
      BY <2>2, <3>1, StutterLayout, StutterContents
  <2> QED
    BY <2>1, <2>2
<1> QED
  BY <1>1, <1>2, PTL DEF CarefulSpec

-----------------------------------------------------------------------------
(* The theorems.                                                           *)

\* Under the rules no assertion of a flush fails and nothing is read or written outside
\* the mapping, whatever the chunks, the payloads and the first file are, and wherever
\* earlier processes died.
THEOREM NothingFails == CarefulSpec => []NoFailure
<1>1. CInv => NoFailure
  BY DEF CInv, Layout, Careful, NoFailure
<1> QED
  BY <1>1, CarefulInvariance, PTL

\* The chunks are disjoint and inside the file between any two stores of a flush into
\* the tables: the shift of the entries keeps that, before the bytes have followed.
THEOREM LaidOut == CarefulSpec => []LayoutAtLoopHeads
<1>1. CInv => LayoutAtLoopHeads
  BY DEF CInv, Layout, LayoutAtLoopHeads
<1> QED
  BY <1>1, CarefulInvariance, PTL

\* No entry points behind the end of the file at any store of a flush, so that another
\* process may map the file at any time and ask for every chunk.
THEOREM InsideFile == CarefulSpec => []EntriesInFile
<1>1. CInv => EntriesInFile
  BY DEF CInv, Layout, LayoutOK, EntriesInFile
<1> QED
  BY <1>1, CarefulInvariance, PTL

\* The growing pass has exactly the room between its heads that it still needs: it never
\* overwrites what it has not moved, and leaves no hole.
THEOREM GapFits == CarefulSpec => []GapIsGrowth
<1>1. CInv => GapIsGrowth
  BY DEF CInv, Layout, InGrows, GrowLayout, GrowthOf, GapIsGrowth
<1> QED
  BY <1>1, CarefulInvariance, PTL

\* Wherever a flush is interrupted, each chunk that it does not have in hand reads as it
\* did before, or as it was written.
THEOREM OldOrNew == CarefulSpec => []EachOldOrNew
<1>1. ASSUME CInv, pc # "idle", NEW c \in Chunk \ InHand
      PROVE  View(c) \in {before[c], After[c]}
  BY <1>1, OutOfHand, Promises DEF CInv
<1>2. CInv => EachOldOrNew
  BY <1>1 DEF EachOldOrNew
<1> QED
  BY <1>2, CarefulInvariance, PTL

\* When a flush of careful clients ends, each chunk reads as the list said, and the
\* others as before.
THEOREM WritesApplied == CarefulSpec => []FlushAppliesWrites
<1>1. CInv => FlushAppliesWrites
  BY AtTheEnd DEF CInv, FlushAppliesWrites
<1> QED
  BY <1>1, CarefulInvariance, PTL

-----------------------------------------------------------------------------
(* Unused sectors.                                                         *)

\* The sectors that the entries of live chunks count, of one of them and of all.
Count(c) == IF c \in Live THEN locations[c].sector_count ELSE 0
Used == SumFunction([c \in Live |-> locations[c].sector_count])

\* How many of the writes in front of the k-th delete a chunk.
Clears(k) == Cardinality({i \in DOMAIN cached_writes : i < k /\ cached_writes[i].length = 0})

Shrinks == {"shrink", "shrinkMove", "shrinkEntry", "shrinkData", "resize"}
Grows == {"grow", "growMove", "growEntry"}

\* What a flush does with the sectors no chunk uses.  Of a new file all are for the writes
\* still to be placed, but one for each clear that has been.  In the shrinking pass
\* the size that the file will be cut to leaves as many as there were.  In the growing
\* pass there are more by what is still to be grown.
Balance ==
    /\ pc \in {"size", "place", "placeData"} => slack \in Int /\ slack < 0
    /\ pc \in {"classify", "growData"} \cup Shrinks \cup Grows => slack \in Nat
    /\ pc = "place" => fsize - HeaderSectors = Used + Space(cell) + Clears(cell)
    /\ pc = "placeData" => fsize - HeaderSectors = Used + Space(cell + 1) + Clears(cell)
    /\ pc = "classify" => fsize - HeaderSectors = Used + slack
    /\ pc \in Shrinks => new_fsize - HeaderSectors = Used + slack
    /\ pc \in Grows => fsize - HeaderSectors = Used + slack + GrowthOf(grows)
    /\ pc = "growData" =>
          \A g \in grows :
             HeadsGrows(g) => fsize - HeaderSectors = Used + slack + GrowthOf(grows \ {g})
    /\ mapped => fsize >= HeaderSectors
    /\ FlushKeepsSlack

\* A sum of counts is a number.
LEMMA UsedNumber ==
  ASSUME IInv
  PROVE  Used \in Nat
<1>1. IsFiniteSet(Live)
  BY ChunkAssumption, FS_Subset DEF Live
<1>2. [c \in Live |-> locations[c].sector_count] \in [Live -> Nat]
  BY Extent DEF Live
<1> QED
  BY <1>1, <1>2, SumOfNaturals DEF Used

\* Where the same chunks live with the same counts, as many sectors are used.
LEMMA UsedSame ==
  ASSUME Live' = Live, \A c \in Live : locations'[c].sector_count = locations[c].sector_count
  PROVE  Used' = Used
<1>1. [c \in Live |-> locations'[c].sector_count] = [c \in Live |-> locations[c].sector_count]
  OBVIOUS
<1> QED
  BY <1>1 DEF Used

\* Where only one chunk differs, the sum does by its count.
LEMMA UsedBesides ==
  ASSUME IInv, IInv', NEW p \in Chunk, Live' \ {p} = Live \ {p},
         \A c \in Live \ {p} : locations'[c].sector_count = locations[c].sector_count
  PROVE  /\ Used \in Int /\ Used' \in Int /\ Count(p) \in Nat /\ Count(p)' \in Nat
         /\ Used' - Used = Count(p)' - Count(p)
<1>1. PICK L, M : L = Live /\ M = Live'
  OBVIOUS
<1>2. PICK f, g, h : /\ f = [c \in L |-> locations[c].sector_count]
                     /\ g = [c \in M |-> locations'[c].sector_count]
                     /\ h = [c \in L \ {p} |-> locations[c].sector_count]
  OBVIOUS
<1>3. L \in SUBSET Chunk /\ M \in SUBSET Chunk /\ M \ {p} = L \ {p}
  BY <1>1 DEF Live
<1>4. \A c \in Chunk : locations[c].sector_count \in Nat /\ locations'[c].sector_count \in Nat
  BY DEF IInv, TypeOK, FileTypeOK, Location
<1>5. /\ f \in [L -> Int] /\ h \in [L \ {p} -> Int] /\ IsFiniteSet(L)
      /\ \A c \in L \ {p} : h[c] = f[c]
  BY <1>2, <1>3, <1>4, ChunkAssumption, FS_Subset
<1>6. /\ g \in [M -> Int] /\ h \in [M \ {p} -> Int] /\ IsFiniteSet(M)
      /\ \A c \in M \ {p} : h[c] = g[c]
  <2>1. \A c \in M \ {p} : locations'[c].sector_count = locations[c].sector_count
    BY <1>1
  <2> QED
    BY <1>2, <1>3, <1>4, <2>1, ChunkAssumption, FS_Subset
<1>7. /\ SumFunction(f) \in Int /\ SumFunction(h) \in Int
      /\ SumFunction(f) = (IF p \in L THEN f[p] ELSE 0) + SumFunction(h)
  BY <1>5, SumBesides
<1>8. /\ SumFunction(g) \in Int
      /\ SumFunction(g) = (IF p \in M THEN g[p] ELSE 0) + SumFunction(h)
  <2>1. PICK k : k = h
    OBVIOUS
  <2>2. IsFiniteSet(M) /\ g \in [M -> Int]
    BY <1>6
  <2>3. k \in [M \ {p} -> Int] /\ \A c \in M \ {p} : k[c] = g[c]
    BY <1>6, <2>1
  <2>4. /\ SumFunction(g) \in Int
        /\ SumFunction(g) = (IF p \in M THEN g[p] ELSE 0) + SumFunction(k)
    BY <2>2, <2>3, SumBesides
  <2> QED
    BY <2>1, <2>4
<1>9. /\ Used = SumFunction(f) /\ Used' = SumFunction(g)
      /\ Count(p) = (IF p \in L THEN f[p] ELSE 0)
      /\ Count(p)' = (IF p \in M THEN g[p] ELSE 0)
  BY <1>1, <1>2 DEF Used, Count
<1>10. Count(p) \in Nat /\ Count(p)' \in Nat
  BY <1>4 DEF Count
<1> QED
  BY <1>7, <1>8, <1>9, <1>10

\* One more write, one more clear or not.
LEMMA ClearsStep ==
  ASSUME IInv, NEW k \in 1 .. Len(cached_writes)
  PROVE  /\ Clears(k) \in Nat
         /\ Clears(k + 1) = Clears(k) + (IF cached_writes[k].length = 0 THEN 1 ELSE 0)
<1>1. PICK n \in Nat : n = Len(cached_writes) /\ DOMAIN cached_writes = 1 .. n
  BY DEF IInv, TypeOK, HandleTypeOK
<1>2. k \in 1 .. n
  BY <1>1
<1>3. PICK S, T : /\ S = {i \in 1 .. n : i < k /\ cached_writes[i].length = 0}
                  /\ T = {i \in 1 .. n : i < k + 1 /\ cached_writes[i].length = 0}
  OBVIOUS
<1>4. IsFiniteSet(S) /\ k \notin S
  <2>1. IsFiniteSet(1 .. n) /\ S \in SUBSET (1 .. n)
    BY <1>3, FS_Interval
  <2> QED
    BY <1>2, <1>3, <2>1, FS_Subset
<1>5. T = IF cached_writes[k].length = 0 THEN S \cup {k} ELSE S
  <2>1. \A i \in 1 .. n : i < k + 1 <=> i < k \/ i = k
    BY <1>2
  <2>2. \A i : i \in T <=> i \in S \/ (i = k /\ cached_writes[k].length = 0)
    BY <1>2, <1>3, <2>1
  <2> QED
    BY <2>2
<1>6. Cardinality(S) \in Nat /\ Cardinality(S \cup {k}) = Cardinality(S) + 1
  BY <1>4, FS_AddElement, FS_CardinalityType
<1>7. Clears(k) = Cardinality(S) /\ Clears(k + 1) = Cardinality(T)
  BY <1>1, <1>3 DEF Clears
<1> QED
  BY <1>5, <1>6, <1>7

\* In front of the first write there is none, and behind the last one all are counted.
LEMMA ClearsEnds ==
  ASSUME IInv
  PROVE  /\ Clears(1) = 0
         /\ Clears(Len(cached_writes) + 1)
               = Cardinality({i \in DOMAIN cached_writes : cached_writes[i].length = 0})
<1>1. PICK n \in Nat : n = Len(cached_writes) /\ DOMAIN cached_writes = 1 .. n
  BY DEF IInv, TypeOK, HandleTypeOK
<1>2. {i \in 1 .. n : i < 1 /\ cached_writes[i].length = 0} = {}
  OBVIOUS
<1>3. {i \in 1 .. n : i < n + 1 /\ cached_writes[i].length = 0}
         = {i \in 1 .. n : cached_writes[i].length = 0}
  OBVIOUS
<1> QED
  BY <1>1, <1>2, <1>3, FS_EmptySet DEF Clears

\* What the history variable says in the middle of a flush.
LEMMA SlackStays ==
  ASSUME History, pc # "idle", pc' # "idle"
  PROVE  slack' = slack
  BY DEF History

\* The chunks of a file lie between its tables and its end.
LEMMA SlackNatural ==
  ASSUME IInv, LayoutOK, fsize >= HeaderSectors
  PROVE  fsize - HeaderSectors - Used \in Nat
<1>1. IsFiniteSet(Live)
  BY ChunkAssumption, FS_Subset DEF Live
<1>2. PICK off, len : /\ off = [c \in Live |-> locations[c].offset]
                      /\ len = [c \in Live |-> locations[c].sector_count]
  OBVIOUS
<1>3. off \in [Live -> Int] /\ len \in [Live -> Nat \ {0}]
  <2>1. \A c \in Live : /\ locations[c].offset \in Int
                        /\ locations[c].sector_count \in Nat \ {0}
    BY Extent DEF Live
  <2> QED
    BY <1>2, <2>1
<1>4. HeaderSectors \in Int /\ fsize \in Int
  BY DEF IInv, TypeOK, FileTypeOK, HeaderSectors
<1>5. \A c \in Live : HeaderSectors <= off[c] /\ off[c] + len[c] <= fsize
  BY <1>2 DEF LayoutOK, EndOf
<1>6. \A c, d \in Live : c # d => off[c] + len[c] <= off[d] \/ off[d] + len[d] <= off[c]
  BY <1>2 DEF LayoutOK, EndOf
<1>7. HeaderSectors <= fsize
  BY <1>4
<1>8. SumFunction(len) <= fsize - HeaderSectors
  <2>1. PICK lo, hi \in Int : lo = HeaderSectors /\ hi = fsize
    BY <1>4
  <2>2. SumFunction(len) <= hi - lo
    BY <1>1, <1>3, <1>5, <1>6, <1>7, <2>1, Packed
  <2> QED
    BY <2>1, <2>2
<1>9. Used = SumFunction(len)
  BY <1>2 DEF Used
<1> QED
  BY <1>4, <1>8, <1>9, UsedNumber

\* A flush of an existing file starts with what is unused, one of an empty file with none.
LEMMA StartBalance ==
  ASSUME IInv, Layout, Balance, History, NEW b \in BOOLEAN, CarefulFlush(b)
  PROVE  Balance'
<1>1. /\ pc = "idle" /\ mode = "rw" /\ pc' = (IF mapped THEN "classify" ELSE "size")
      /\ UNCHANGED <<fsize, locations, timestamps, mapped>>
  BY DEF CarefulFlush, StartFlush, Idle, file, handle
<1>2. slack' = Slack /\ Slack = fsize - HeaderSectors - Used
  BY <1>1 DEF History, Slack, Used
<1>3. Used' = Used /\ Used \in Nat
  BY <1>1, SameTables, UsedSame, UsedNumber
<1>4. HeaderSectors \in Int /\ fsize \in Int
  BY DEF IInv, TypeOK, FileTypeOK, HeaderSectors
<1>5. CASE mapped
  <2>1. fsize >= HeaderSectors /\ LayoutOK
    BY <1>5 DEF Balance, Layout
  <2>2. Slack \in Nat
    BY <1>2, <2>1, SlackNatural
  <2>3. fsize - HeaderSectors = Used + Slack
    BY <1>2, <1>3, <1>4, <2>2
  <2> QED
    BY <1>1, <1>2, <1>3, <1>5, <2>1, <2>2, <2>3 DEF Balance, FlushKeepsSlack, Shrinks, Grows
<1>6. CASE ~mapped
  <2>1. fsize = 0
    BY <1>1, <1>6 DEF IInv, Phases
  <2>2. Slack \in Int /\ Slack < 0
    BY <1>2, <1>3, <2>1 DEF HeaderSectors
  <2> QED
    BY <1>1, <1>2, <1>6, <2>2 DEF Balance, FlushKeepsSlack, Shrinks, Grows
<1> QED
  BY <1>5, <1>6

\* The size of a new file is added up: nothing is stored.
LEMMA SizeWriteBalance ==
  ASSUME Balance, History, SizeWrite
  PROVE  Balance'
<1>1. pc = "size" /\ pc' = "size" /\ mapped' = mapped /\ fsize' = fsize
  BY DEF SizeWrite, file, handle
<1>2. slack' = slack
  BY <1>1, SlackStays
<1> QED
  BY <1>1, <1>2 DEF Balance, FlushKeepsSlack, Shrinks, Grows

\* The new file has the sectors that the writes are counted with, and no chunk uses any.
LEMMA CreateFileBalance ==
  ASSUME IInv, IInv', Layout, Balance, History, CreateFile
  PROVE  Balance'
<1>1. /\ pc = "size" /\ cell > Len(cached_writes) /\ cell' = 1 /\ pc' = "place"
      /\ fsize' = HeaderSectors + new_fsize
      /\ locations' = [c \in Chunk |-> NoLocation]
      /\ cached_writes' = cached_writes
  BY DEF CreateFile
<1>2. /\ cell = Len(cached_writes) + 1 /\ new_fsize + Space(cell) = Space(1)
      /\ Len(cached_writes) \in Nat /\ new_fsize \in Int /\ new_fsize >= 0
  BY <1>1 DEF IInv, TypeOK, HandleTypeOK, FlushTypeOK, Phases, Layout, Placing
<1>3. Space(1) = new_fsize /\ HeaderSectors \in Int
  BY <1>2, SpaceEnds DEF HeaderSectors
<1>4. Live' = {}
  BY <1>1 DEF Live, ContainsChunk, NoLocation
<1>5. Used' = 0
  <2>1. [c \in {} |-> locations'[c].sector_count] \in [{} -> Int]
    OBVIOUS
  <2>2. SumFunction([c \in {} |-> locations'[c].sector_count]) = 0
    BY <2>1, SumOfNothing
  <2> QED
    BY <1>4, <2>2 DEF Used
<1>6. Space(1)' = Space(1) /\ Clears(1)' = 0
  BY <1>1, ClearsEnds DEF Space, Clears
<1>7. slack' = slack /\ slack \in Int /\ slack < 0
  BY <1>1, SlackStays DEF Balance
<1>8. fsize' - HeaderSectors = Used' + Space(1)' + Clears(1)' /\ fsize' >= HeaderSectors
  BY <1>1, <1>2, <1>3, <1>5, <1>6
<1>9. Space(cell)' = Space(1)' /\ Clears(cell)' = Clears(1)'
  BY <1>1 DEF Space, Clears
<1> QED
  BY <1>1, <1>7, <1>8, <1>9 DEF Balance, FlushKeepsSlack, Shrinks, Grows

\* What a step of the placement leaves alone.
LEMMA PlacingOn ==
  ASSUME Balance, History, pc \in {"place", "placeData"}, pc' \in {"place", "placeData"},
         UNCHANGED <<cached_writes, fsize, mapped>>
  PROVE  /\ slack' = slack
         /\ \A k : Space(k)' = Space(k) /\ Clears(k)' = Clears(k)
         /\ \A k : pc' = "place" /\ k = cell'
                   /\ fsize - HeaderSectors = Used' + Space(k) + Clears(k) => Balance'
         /\ \A k : pc' = "placeData" /\ k = cell'
                   /\ fsize - HeaderSectors = Used' + Space(k + 1) + Clears(k) => Balance'
<1>1. slack' = slack /\ slack \in Int /\ slack < 0
  BY SlackStays DEF Balance
<1>2. \A k : Space(k)' = Space(k) /\ Clears(k)' = Clears(k)
  BY DEF Space, Clears
<1>3. /\ Space(cell)' = Space(cell') /\ Space(cell + 1)' = Space(cell' + 1)
      /\ Clears(cell)' = Clears(cell')
  BY DEF Space, Clears
<1> QED
  BY <1>1, <1>2, <1>3 DEF Balance, FlushKeepsSlack, Shrinks, Grows

\* The chunk of the write that is placed next has no entry yet.
LEMMA NotPlacedYet ==
  ASSUME IInv, Layout, pc = "place", cell <= Len(cached_writes)
  PROVE  cached_writes[cell].pos \in Chunk \ Live
<1>1. PICK k, p : k = cell /\ p = cached_writes[k].pos
  OBVIOUS
<1>2. write_head \in Int
  BY DEF IInv, TypeOK, FlushTypeOK
<1>3. k \in 1 .. Len(cached_writes) /\ p \in Chunk
      /\ DOMAIN cached_writes = 1 .. Len(cached_writes)
  BY <1>1, <1>2, NextPlaced DEF IInv, TypeOK, HandleTypeOK
<1>4. ASSUME p \in Live PROVE FALSE
  <2>1. PICK i \in DOMAIN cached_writes : i < k /\ cached_writes[i].pos = p
    BY <1>1, <1>4 DEF Layout, Placing, Placed
  <2>2. i = k
    BY <1>1, <1>3, <2>1 DEF IInv, OneWritePerChunk
  <2> QED
    BY <1>3, <2>1, <2>2
<1> QED
  BY <1>1, <1>3, <1>4

\* A clear leaves the sector it is counted with unused.
LEMMA PlaceClearBalance ==
  ASSUME IInv, IInv', Layout, Balance, History, PlaceClear
  PROVE  Balance'
<1>1. PICK k, p : k = cell /\ p = cached_writes[k].pos
  OBVIOUS
<1>2. /\ pc = "place" /\ cell <= Len(cached_writes) /\ ClearEntry(p)
      /\ cached_writes[k].length = 0
      /\ cell' = k + 1 /\ pc' = "place"
      /\ UNCHANGED <<fsize, cached_writes, mapped>>
  BY <1>1 DEF PlaceClear, handle
<1>3. p \in Chunk \ Live
  BY <1>1, <1>2, NotPlacedYet
<1>4. /\ Live' = Live \ {p}
      /\ \A c \in Chunk \ {p} : locations'[c] = locations[c]
  BY <1>2, <1>3, ClearKeepsApart DEF Layout
<1>5. Used' = Used /\ Used \in Nat
  <2>1. Live' = Live /\ \A c \in Live : locations'[c].sector_count = locations[c].sector_count
    BY <1>3, <1>4 DEF Live
  <2> QED
    BY <2>1, UsedSame, UsedNumber
<1>6. /\ k \in 1 .. Len(cached_writes)
      /\ Space(k) = SectorsFor(cached_writes[k].length) + Space(k + 1)
      /\ Space(k + 1) \in Nat
      /\ Clears(k) \in Nat /\ Clears(k + 1) = Clears(k) + 1
  <2>1. k \in 1 .. Len(cached_writes)
    BY <1>1, <1>2, CellWrite
  <2> QED
    BY <1>2, <2>1, SpaceStep, ClearsStep
<1>7. SectorsFor(cached_writes[k].length) = 1
  BY <1>2 DEF SectorsFor, SectorSize
<1>8. fsize - HeaderSectors = Used + Space(k) + Clears(k)
  BY <1>1, <1>2 DEF Balance
<1>9. fsize - HeaderSectors = Used + Space(k + 1) + Clears(k + 1)
  BY <1>5, <1>6, <1>7, <1>8
<1> QED
  BY <1>2, <1>5, <1>9, PlacingOn

\* A chunk uses the sectors it is counted with.
LEMMA PlaceEntryBalance ==
  ASSUME IInv, IInv', Layout, Layout', Balance, History, PlaceEntry
  PROVE  Balance'
<1>1. PICK k, p, n : /\ k = cell /\ p = cached_writes[k].pos
                     /\ n = CountFor(cached_writes[k].length)
  OBVIOUS
<1>2. /\ pc = "place" /\ cell <= Len(cached_writes)
      /\ SetEntry(p, write_head, n, cached_writes[k].timestamp)
      /\ cell' = k /\ pc' = "placeData"
      /\ UNCHANGED <<fsize, cached_writes, mapped>>
  BY <1>1 DEF PlaceEntry, handle
<1>3. p \in Chunk \ Live
  BY <1>1, <1>2, NotPlacedYet
<1>4. /\ \A c \in Chunk \ {p} : locations'[c] = locations[c] /\ timestamps'[c] = timestamps[c]
  BY <1>2, <1>3 DEF SetEntry, IInv, TypeOK, FileTypeOK
<1>5. p \in Live' /\ locations'[p].sector_count = n
  <2>1. EntryAtHead(cached_writes[cell])'
    BY <1>2 DEF Layout, Placing
  <2> QED
    BY <1>1, <1>2, <2>1 DEF EntryAtHead
<1>6. /\ k \in 1 .. Len(cached_writes)
      /\ Space(k) = SectorsFor(cached_writes[k].length) + Space(k + 1)
      /\ Space(k + 1) \in Nat /\ Clears(k) \in Nat
      /\ n = SectorsFor(cached_writes[k].length) /\ n \in Nat
  <2>1. k \in 1 .. Len(cached_writes) /\ cached_writes[k] \in ChunkWrite
    BY <1>1, <1>2, CellWrite
  <2>2. n = SectorsFor(cached_writes[k].length) /\ n \in 1 .. 255
    BY <1>1, <2>1, CachedFields DEF Layout
  <2>3. n \in Nat
    BY <2>2
  <2>4. /\ Space(k) = SectorsFor(cached_writes[k].length) + Space(k + 1)
        /\ Space(k + 1) \in Nat /\ Clears(k) \in Nat
    BY <2>1, SpaceStep, ClearsStep
  <2> QED
    BY <2>1, <2>2, <2>3, <2>4
<1>7. Used \in Int /\ Used' = Used + n
  <2>1. Live' \ {p} = Live \ {p}
        /\ \A c \in Live \ {p} : locations'[c].sector_count = locations[c].sector_count
    BY <1>3, <1>4 DEF Live, ContainsChunk
  <2>2. Count(p) = 0 /\ Count(p)' = n
    BY <1>3, <1>5 DEF Count
  <2> QED
    BY <1>3, <1>6, <2>1, <2>2, UsedBesides
<1>8. fsize - HeaderSectors = Used + Space(k) + Clears(k)
  BY <1>1, <1>2 DEF Balance
<1>9. fsize - HeaderSectors = Used' + Space(k + 1) + Clears(k)
  BY <1>6, <1>7, <1>8
<1> QED
  BY <1>2, <1>9, PlacingOn

\* Its data is stored.
LEMMA PlaceDataBalance ==
  ASSUME IInv, Layout, Balance, History, PlaceData
  PROVE  Balance'
<1>1. PICK k : k = cell
  OBVIOUS
<1>2. /\ pc = "placeData" /\ cell' = k + 1 /\ pc' = "place"
      /\ UNCHANGED <<fsize, locations, timestamps, cached_writes, mapped>>
  BY <1>1 DEF PlaceData, handle
<1>3. Used' = Used
  BY <1>2, SameTables, UsedSame
<1>4. Clears(k) \in Nat /\ Clears(k + 1) = Clears(k)
  <2>1. k \in 1 .. Len(cached_writes) /\ cached_writes[k] \in ChunkWrite
    BY <1>1, <1>2, CellWrite DEF IInv, Phases
  <2>2. CarefulWrite(cached_writes[k])
    BY <2>1, CachedFields DEF Layout, Careful
  <2>3. cached_writes[k].data # NoData
    BY <1>1, <1>2 DEF Layout, Placing, EntryAtHead
  <2>4. cached_writes[k].length # 0
    BY <2>1, <2>2, <2>3, CarefulFields
  <2> QED
    BY <2>1, <2>4, ClearsStep
<1>5. fsize - HeaderSectors = Used + Space(k + 1) + Clears(k)
  BY <1>1, <1>2 DEF Balance
<1> QED
  BY <1>2, <1>3, <1>4, <1>5, PlacingOn

\* All writes are placed: what is unused was counted for the clears.
LEMMA PlacedAllBalance ==
  ASSUME IInv, Layout, Balance, History, PlacedAll
  PROVE  Balance'
<1>1. /\ pc = "place" /\ pc' = "finish" /\ cell > Len(cached_writes)
      /\ UNCHANGED <<fsize, locations, timestamps, cached_writes, mapped>>
  BY DEF PlacedAll, file, handle
<1>2. cell = Len(cached_writes) + 1
  BY <1>1 DEF Layout, Placing, IInv, TypeOK, HandleTypeOK, FlushTypeOK
<1>3. /\ Space(cell) = 0
      /\ Clears(cell) = Cardinality({i \in DOMAIN cached_writes : cached_writes[i].length = 0})
  BY <1>2, SpaceEnds, ClearsEnds
<1>4. fsize - HeaderSectors = Used + Clears(cell) /\ Used \in Int
  <2>1. fsize - HeaderSectors = Used + 0 + Clears(cell)
    BY <1>1, <1>3 DEF Balance
  <2> QED
    BY <2>1, UsedNumber
<1>5. slack' = slack /\ slack \in Int /\ slack < 0 /\ Used' = Used /\ Live' = Live
  BY <1>1, SlackStays, SameTables, UsedSame DEF Balance
<1>6. IsFiniteSet({i \in DOMAIN cached_writes : cached_writes[i].length = 0})
  <2>1. PICK n \in Nat : DOMAIN cached_writes = 1 .. n
    BY DEF IInv, TypeOK, HandleTypeOK
  <2> QED
    BY <2>1, FS_Interval, FS_Subset
<1>7. Clears(cell) \in Nat
  BY <1>3, <1>6, FS_CardinalityType
<1>8. fsize \in Int /\ HeaderSectors \in Int
  BY DEF IInv, TypeOK, FileTypeOK, HeaderSectors
<1>9. Slack' = Clears(cell)
  <2>1. Slack' = fsize - HeaderSectors - Used
    BY <1>1, <1>5 DEF Slack, Used
  <2> QED
    BY <1>4, <1>7, <1>8, <2>1
<1>10. FlushKeepsSlack'
  <2>1. ~(slack >= 0)
    BY <1>5
  <2> QED
    BY <1>1, <1>3, <1>5, <1>9, <2>1 DEF FlushKeepsSlack
<1> QED
  BY <1>1, <1>10 DEF Balance, Shrinks, Grows

\* Sorting the writes stores nothing.
LEMMA ClassifyBalance ==
  ASSUME Balance, History, ClassifySkip \/ ClassifyShrink \/ ClassifyGrow
  PROVE  Balance'
<1>1. /\ pc = "classify" /\ pc' = "classify"
      /\ UNCHANGED <<fsize, locations, timestamps, mapped>>
  BY DEF ClassifySkip, ClassifyShrink, ClassifyGrow, Classifying, file, handle
<1>2. slack' = slack /\ Used' = Used
  BY <1>1, SlackStays, SameTables, UsedSame
<1> QED
  BY <1>1, <1>2 DEF Balance, FlushKeepsSlack, Shrinks, Grows

\* The shrinking pass starts with the size that the file has.
LEMMA ClassifiedBalance ==
  ASSUME Balance, History, Classified
  PROVE  Balance'
<1>1. /\ pc = "classify" /\ pc' = "shrink" /\ new_fsize' = fsize
      /\ UNCHANGED <<fsize, locations, timestamps, mapped>>
  BY DEF Classified, file, handle
<1>2. slack' = slack /\ Used' = Used
  BY <1>1, SlackStays, SameTables, UsedSame
<1> QED
  BY <1>1, <1>2 DEF Balance, FlushKeepsSlack, Shrinks, Grows

\* A step of the shrinking pass keeps the size and what is used apart.
LEMMA ShrinkOn ==
  ASSUME Balance, History, pc \in Shrinks, pc' \in Shrinks, UNCHANGED <<fsize, mapped>>,
         new_fsize' - HeaderSectors = Used' + slack
  PROVE  Balance'
<1>1. slack' = slack
  BY SlackStays DEF Shrinks
<1> QED
  BY <1>1 DEF Balance, FlushKeepsSlack, Shrinks, Grows

\* The entries and bytes in front of the next chunk move, its data is stored, or the pass
\* ends: the counts stay.
LEMMA ShrinkQuietBalance ==
  ASSUME IInv, Layout, Balance, History,
         \/ \E g \in shrinks : ShrinkShift(g) \/ ShrinkMove(g) \/ ShrinkData(g)
         \/ Shrunk
  PROVE  Balance'
<1>1. pc \in Shrinks /\ pc' \in Shrinks /\ UNCHANGED <<fsize, mapped, new_fsize>>
  BY DEF ShrinkShift, ShrinkMove, ShrinkData, Shrunk, Shrinking, Shrinks, handle, plan, file
<1>2. Used' = Used
  <2>1. CASE \E g \in shrinks : ShrinkShift(g)
    <3>1. PICK g \in shrinks : ShrinkShift(g)
      BY <2>1
    <3>2. pc = "shrink" /\ HeadsShrinks(g)
      BY <3>1 DEF ShrinkShift, Shrinking
    <3>3. read_head \in Int /\ write_head \in Int
      BY DEF IInv, TypeOK, FlushTypeOK
    <3>4. g.order \in Int
      BY ListedFields DEF Layout
    <3>5. EntriesMoveDown(g, read_head, write_head, g.order, write_head - read_head)
      <4>1. PICK r, w, o, by \in Int : r = read_head /\ w = write_head /\ o = g.order
                                       /\ by = w - r
        BY <3>3, <3>4
      <4>2. EntriesMoveDown(g, r, w, o, by)
        BY <3>1, <4>1, ShrinkShifted
      <4> QED
        BY <4>1, <4>2
    <3>6. Live' = Live
          /\ \A c \in Chunk : locations'[c].sector_count = locations[c].sector_count
      BY <3>5 DEF EntriesMoveDown
    <3> QED
      BY <3>6, UsedSame DEF Live
  <2>2. CASE (\E g \in shrinks : ShrinkMove(g) \/ ShrinkData(g)) \/ Shrunk
    <3>1. UNCHANGED <<locations, timestamps>>
      BY <2>2, TablesKept DEF Shrunk, file
    <3> QED
      BY <3>1, SameTables, UsedSame
  <2> QED
    BY <2>1, <2>2
<1>3. new_fsize - HeaderSectors = Used + slack
  BY <1>1 DEF Balance
<1> QED
  BY <1>1, <1>2, <1>3, ShrinkOn

\* A deleted chunk takes its sectors from the size, and one that shrinks those it frees.
LEMMA ShrinkEntryBalance ==
  ASSUME IInv, IInv', Layout, Layout', Balance, History, NEW g \in shrinks,
         ShrinkDelete(g) \/ ShrinkEntry(g)
  PROVE  Balance'
<1>1. PICK p, old, n : /\ p = g.write.pos /\ old = locations[p].sector_count
                       /\ n = IF g.write.data = NoData THEN 0 ELSE CountFor(g.write.length)
  OBVIOUS
<1>2. PICK r, w \in Int : r = read_head /\ w = write_head
  BY DEF IInv, TypeOK, FlushTypeOK
<1>3. /\ pc = "shrinkEntry" /\ HeadsShrinks(g) /\ UNCHANGED <<fsize, mapped>>
      /\ pc' \in Shrinks
      /\ \/ g.write.data = NoData /\ ClearEntry(p) /\ new_fsize' = new_fsize - old
         \/ /\ g.write.data # NoData /\ SetEntry(p, w, n, g.write.timestamp)
            /\ new_fsize' = new_fsize + n - old /\ pc' = "shrinkData"
            /\ shrinks' = shrinks /\ write_head' = w
  BY <1>1, <1>2 DEF ShrinkDelete, ShrinkEntry, Shrinking, handle, Shrinks
<1>4. Beside(g, p, old, r, w)
  BY <1>1, <1>2, <1>3, AroundShrink
<1>5. p \in Chunk /\ p \in Live /\ old \in Nat /\ Count(p) = old
  BY <1>1, <1>4 DEF Beside, Count
<1>6. \A c \in Chunk \ {p} : locations'[c] = locations[c] /\ timestamps'[c] = timestamps[c]
  BY <1>3, <1>5 DEF ClearEntry, SetEntry, IInv, TypeOK, FileTypeOK
<1>7. /\ Count(p)' = n /\ n \in Nat
      /\ new_fsize' = new_fsize + n - old
  <2>1. CASE g.write.data = NoData /\ ClearEntry(p) /\ new_fsize' = new_fsize - old
    <3>1. p \notin Live'
      BY <1>5, <2>1 DEF ClearEntry, SetEntry, Live, ContainsChunk, IInv, TypeOK, FileTypeOK
    <3>2. new_fsize \in Int
      BY DEF IInv, TypeOK, FlushTypeOK
    <3> QED
      BY <1>1, <1>5, <2>1, <3>1, <3>2 DEF Count
  <2>2. CASE /\ g.write.data # NoData /\ SetEntry(p, w, n, g.write.timestamp)
             /\ new_fsize' = new_fsize + n - old /\ pc' = "shrinkData"
             /\ shrinks' = shrinks /\ write_head' = w
    <3>1. PICK h \in shrinks' : HeadsShrinks(h)' /\ EntryAtHead(h.write)'
      BY <2>2 DEF Layout, InShrinks
    <3>2. HeadsShrinks(h)
      BY <2>2, <3>1 DEF HeadsShrinks
    <3>3. h = g
      BY <1>3, <3>2, OneHead
    <3>4. p \in Live' /\ locations'[p].sector_count = CountFor(g.write.length)
      BY <1>1, <3>1, <3>3 DEF EntryAtHead
    <3>5. n = CountFor(g.write.length) /\ n \in 1 .. 255
      BY <1>1, <2>2, ListedFields DEF Layout
    <3> QED
      BY <2>2, <3>4, <3>5 DEF Count
  <2> QED
    BY <1>3, <2>1, <2>2
<1>8. Used \in Int /\ Used' \in Int /\ Used' - Used = n - old
  <2>1. Live' \ {p} = Live \ {p}
        /\ \A c \in Live \ {p} : locations'[c].sector_count = locations[c].sector_count
    BY <1>6 DEF Live, ContainsChunk
  <2> QED
    BY <1>5, <1>7, <2>1, UsedBesides
<1>9. new_fsize' - HeaderSectors = Used' + slack
  <2>1. new_fsize - HeaderSectors = Used + slack /\ slack \in Nat
    BY <1>3 DEF Balance, Shrinks
  <2>2. PICK a, b, h, s, m \in Int :
             a = Used /\ b = Used' /\ h = HeaderSectors /\ s = slack /\ m = new_fsize
    BY <1>8, <2>1 DEF IInv, TypeOK, FlushTypeOK, HeaderSectors
  <2>3. n \in Int /\ old \in Int
    BY <1>5, <1>7
  <2>4. m - h = a + s
    BY <2>1, <2>2
  <2>5. b - a = n - old
    BY <1>8, <2>2
  <2>6. m + n - old - h = b + s
    BY <2>3, <2>4, <2>5
  <2>7. new_fsize' = m + n - old
    BY <1>7, <2>2
  <2>8. new_fsize' - h = b + s
    <3>1. PICK z \in Int : z = new_fsize'
      BY <2>2, <2>3, <2>7
    <3> QED
      BY <2>3, <2>6, <2>7, <3>1
  <2> QED
    BY <2>2, <2>8
<1>10. pc \in Shrinks
  BY <1>3 DEF Shrinks
<1> QED
  BY <1>3, <1>9, <1>10, ShrinkOn

\* The file gets as many sectors more as its chunks will grow by.
LEMMA ResizeBalance ==
  ASSUME IInv, Layout, Balance, History, Resize
  PROVE  Balance'
<1>1. /\ pc = "resize" /\ HeaderKept /\ fsize' = new_fsize + sectors_added /\ pc' = "grow"
      /\ UNCHANGED <<locations, timestamps, mapped, grows>>
  BY DEF Resize, handle, plan
<1>2. new_fsize \in Int /\ sectors_added \in Int /\ HeaderSectors \in Int
  BY DEF IInv, TypeOK, FlushTypeOK, HeaderSectors
<1>3. sectors_added = GrowthOf(grows) /\ GrowthOf(grows)' = GrowthOf(grows)
  <2>1. \A S : GrowthOf(S)' = GrowthOf(S)
    BY <1>1, SameTables
  <2> QED
    BY <1>1, <2>1 DEF Layout, Lists, GrowthOf
<1>4. slack' = slack /\ slack \in Nat /\ Used' = Used /\ Used \in Nat
  BY <1>1, SlackStays, SameTables, UsedSame, UsedNumber DEF Balance, Shrinks
<1>5. new_fsize - HeaderSectors = Used + slack
  BY <1>1 DEF Balance, Shrinks
<1>6. fsize' - HeaderSectors = Used' + slack' + GrowthOf(grows)'
  BY <1>1, <1>2, <1>3, <1>4, <1>5
<1>7. fsize' >= HeaderSectors
  BY <1>1 DEF HeaderKept
<1> QED
  BY <1>1, <1>4, <1>6, <1>7 DEF Balance, FlushKeepsSlack, Shrinks, Grows

\* A step of the growing pass keeps the size, what is used and what is to be grown apart.
LEMMA GrowOn ==
  ASSUME Balance, History, pc \in Grows \cup {"growData"}, pc' \in Grows,
         UNCHANGED <<fsize, mapped>>,
         fsize - HeaderSectors = Used' + slack + GrowthOf(grows)'
  PROVE  Balance'
<1>1. slack' = slack /\ slack \in Nat
  BY SlackStays DEF Grows, Balance
<1> QED
  BY <1>1 DEF Balance, FlushKeepsSlack, Shrinks, Grows

\* The entries and bytes behind the next chunk move: the counts stay.
LEMMA GrowQuietBalance ==
  ASSUME IInv, Layout, Balance, History, NEW g \in grows, GrowShift(g) \/ GrowMove(g)
  PROVE  Balance'
<1>1. /\ pc \in Grows /\ pc' \in Grows /\ UNCHANGED <<fsize, mapped, grows>>
  BY DEF GrowShift, GrowMove, Growing, Grows, handle, plan
<1>2. Used' = Used /\ GrowthOf(grows)' = GrowthOf(grows)
  <2>1. CASE GrowShift(g)
    <3>1. PICK r, w, by \in Int : r = read_head /\ w = write_head /\ by = w - r
      BY DEF IInv, TypeOK, FlushTypeOK
    <3>2. PICK p, lo : p = g.write.pos /\ lo = EndOf(p)
      OBVIOUS
    <3>3. /\ Live' = Live
          /\ \A c \in Chunk : /\ locations'[c].sector_count = locations[c].sector_count
                              /\ ContainsChunk(c)' <=> ContainsChunk(c)
      BY <2>1, <3>1, <3>2, GrowShifted
    <3>4. Used' = Used
      BY <3>3, UsedSame DEF Live
    <3>5. PICK S : S = grows
      OBVIOUS
    <3>6. \A h \in S : h.write.pos \in Chunk
      BY <3>5, ListedFields DEF Layout
    <3>7. GrowthOf(S)' = GrowthOf(S)
      BY <3>3, <3>6, SameSums
    <3>8. GrowthOf(grows)' = GrowthOf(S)'
      BY <1>1, <3>5 DEF GrowthOf
    <3> QED
      BY <3>4, <3>5, <3>7, <3>8
  <2>2. CASE GrowMove(g)
    <3>1. UNCHANGED <<locations, timestamps>>
      BY <2>2, TablesKept
    <3>2. Used' = Used
      BY <3>1, SameTables, UsedSame
    <3>3. GrowthOf(grows)' = GrowthOf(grows)
      BY <1>1, <3>1, SameTables DEF GrowthOf
    <3> QED
      BY <3>2, <3>3
  <2> QED
    BY <2>1, <2>2
<1>3. fsize - HeaderSectors = Used + slack + GrowthOf(grows)
  BY <1>1 DEF Balance
<1> QED
  BY <1>1, <1>2, <1>3, GrowOn

\* The entry of a chunk that grows or is added takes the sectors the chunk grows by.
LEMMA GrowEntryBalance ==
  ASSUME IInv, IInv', Layout, Layout', Balance, History, NEW g \in grows,
         GrowEntry(g) \/ GrowAdd(g)
  PROVE  Balance'
<1>1. PICK p, n, S, o : /\ p = g.write.pos /\ n = CountFor(g.write.length)
                        /\ S = grows \ {g} /\ o = write_head'
  OBVIOUS
<1>2. /\ pc \in {"grow", "growEntry"} /\ HeadsGrows(g) /\ pc' = "growData"
      /\ SetEntry(p, o, n, g.write.timestamp)
      /\ UNCHANGED <<fsize, mapped, grows>>
  BY <1>1 DEF GrowEntry, GrowAdd, GrowSetEntry, Growing, handle, plan, SetEntry
<1>3. Careful /\ g.write.data # NoData
  BY <1>2 DEF Layout, InGrows, GrowLayout, GrowsFit
<1>4. p \in Chunk /\ n \in Nat
  <2>1. p \in Chunk /\ n \in 1 .. 255
    BY <1>1, <1>3, ListedFields
  <2> QED
    BY <2>1
<1>5. \A c \in Chunk \ {p} : locations'[c] = locations[c] /\ timestamps'[c] = timestamps[c]
  BY <1>2, <1>4 DEF SetEntry, IInv, TypeOK, FileTypeOK
<1>6. \A h \in grows' : HeadsGrows(h)' => h = g
  <2>1. \A h : HeadsGrows(h)' => HeadsGrows(h)
    BY <1>2 DEF HeadsGrows
  <2> QED
    BY <1>2, <2>1, OneHead
<1>7. Count(p)' = n
  <2>1. PICK h \in grows' : HeadsGrows(h)' /\ EntryAtHead(h.write)'
    BY <1>2 DEF Layout, InGrows
  <2>2. h = g
    BY <1>6, <2>1
  <2>3. p \in Live' /\ locations'[p].sector_count = n
    BY <1>1, <2>1, <2>2 DEF EntryAtHead
  <2> QED
    BY <2>3 DEF Count
<1>8. Used \in Int /\ Used' \in Int /\ Count(p) \in Int /\ Used' - Used = n - Count(p)
  <2>1. Live' \ {p} = Live \ {p}
        /\ \A c \in Live \ {p} : locations'[c].sector_count = locations[c].sector_count
    BY <1>5 DEF Live, ContainsChunk
  <2> QED
    BY <1>4, <1>7, <2>1, UsedBesides
<1>9. Growth(g.write) = n - Count(p)
  BY <1>1, <1>4 DEF Growth, Count, Live
<1>10. GrowthOf(S) \in Int /\ GrowthOf(grows) = Growth(g.write) + GrowthOf(S)
  BY <1>1, <1>3, GrowthWithout
<1>11. GrowthOf(S)' = GrowthOf(S)
  <2>1. \A h \in S : h.write.pos \in Chunk \ {p}
    BY <1>1, OtherChunks
  <2>2. \A h \in S : /\ locations'[h.write.pos].sector_count = locations[h.write.pos].sector_count
                     /\ ContainsChunk(h.write.pos)' <=> ContainsChunk(h.write.pos)
    BY <1>5, <2>1 DEF ContainsChunk
  <2> QED
    BY <2>2, SameSums
<1>12. fsize - HeaderSectors = Used' + slack + GrowthOf(S)'
  <2>1. fsize - HeaderSectors = Used + slack + GrowthOf(grows) /\ slack \in Nat
    BY <1>2 DEF Balance, Grows
  <2>2. PICK a, b, h, s, k, e, f \in Int :
             /\ a = Used /\ b = Used' /\ h = HeaderSectors /\ s = slack /\ k = Count(p)
             /\ e = GrowthOf(S) /\ f = fsize
    BY <1>8, <1>10, <2>1 DEF IInv, TypeOK, FileTypeOK, HeaderSectors
  <2>3. n \in Int /\ f - h = a + s + ((n - k) + e) /\ b - a = n - k
    BY <1>4, <1>8, <1>9, <1>10, <2>1, <2>2
  <2>4. f - h = b + s + e
    BY <2>3
  <2> QED
    BY <1>11, <2>2, <2>4
<1>13. slack' = slack /\ slack \in Nat
  BY <1>2, SlackStays DEF Balance, Grows
<1>14. \A h \in grows' : HeadsGrows(h)' =>
           fsize' - HeaderSectors = Used' + slack' + GrowthOf(grows \ {h})'
  <2>1. ASSUME NEW h \in grows', HeadsGrows(h)'
        PROVE  fsize' - HeaderSectors = Used' + slack' + GrowthOf(grows \ {h})'
    <3>1. h = g
      BY <1>6, <2>1
    <3>2. GrowthOf(grows \ {h})' = GrowthOf(S)'
      BY <1>1, <1>2, <3>1 DEF GrowthOf
    <3> QED
      BY <1>2, <1>12, <1>13, <3>2
  <2> QED
    BY <2>1
<1> QED
  BY <1>2, <1>13, <1>14 DEF Balance, FlushKeepsSlack, Shrinks, Grows

\* Its data is stored, and it leaves the list.
LEMMA GrowDataBalance ==
  ASSUME IInv, Layout, Balance, History, NEW g \in grows, GrowData(g)
  PROVE  Balance'
<1>1. /\ pc = "growData" /\ pc' = "grow" /\ HeadsGrows(g) /\ grows' = grows \ {g}
      /\ UNCHANGED <<fsize, mapped, locations, timestamps>>
  BY TablesKept DEF GrowData, Growing, handle
<1>2. fsize - HeaderSectors = Used + slack + GrowthOf(grows \ {g})
  BY <1>1 DEF Balance
<1>3. Used' = Used
  BY <1>1, SameTables, UsedSame
<1>4. GrowthOf(grows)' = GrowthOf(grows \ {g})
  <2>1. PICK S : S = grows \ {g}
    OBVIOUS
  <2>2. GrowthOf(S)' = GrowthOf(S)
    BY <1>1, SameTables
  <2>3. GrowthOf(grows)' = GrowthOf(S)'
    BY <1>1, <2>1 DEF GrowthOf
  <2> QED
    BY <2>1, <2>2, <2>3
<1>5. fsize - HeaderSectors = Used' + slack + GrowthOf(grows)'
  BY <1>2, <1>3, <1>4
<1>6. pc \in Grows \cup {"growData"} /\ pc' \in Grows
  BY <1>1 DEF Grows
<1> QED
  BY <1>1, <1>5, <1>6, GrowOn

\* Nothing is left to be grown: what is unused is what was.
LEMMA GrownBalance ==
  ASSUME IInv, Balance, History, Grown
  PROVE  Balance'
<1>1. /\ pc = "grow" /\ pc' = "finish" /\ grows = {}
      /\ UNCHANGED <<fsize, mapped, locations, timestamps>>
  BY DEF Grown, file, handle
<1>2. slack' = slack /\ slack \in Nat
  BY <1>1, SlackStays DEF Balance, Grows
<1>3. Used' = Used /\ Used \in Nat
  BY <1>1, SameTables, UsedSame, UsedNumber
<1>4. GrowthOf(grows) = 0
  BY <1>1, NoSums
<1>5. fsize - HeaderSectors = Used + slack + 0
  BY <1>1, <1>4 DEF Balance, Grows
<1>6. Slack' = fsize - HeaderSectors - Used
  BY <1>1, <1>3 DEF Slack, Used
<1>7. fsize \in Int /\ HeaderSectors \in Int
  BY DEF IInv, TypeOK, FileTypeOK, HeaderSectors
<1>8. Slack' = slack'
  BY <1>2, <1>3, <1>5, <1>6, <1>7
<1>9. slack' >= 0
  BY <1>2
<1> QED
  BY <1>1, <1>8, <1>9 DEF Balance, FlushKeepsSlack, Shrinks, Grows

\* Outside of a flush, a file that is mapped has its tables.
LEMMA RestBalance ==
  ASSUME IInv, IInv', Balance,
         \/ \E m \in {"ro", "rw"} : CarefulOpen(m)
         \/ \E c \in Chunk : CarefulSet(c) \/ ClearChunk(c)
         \/ CloseClean \/ Finish \/ Crash
  PROVE  Balance'
<1>1. pc' = "idle" /\ (mapped' => fsize' >= HeaderSectors)
  <2>1. CASE \E m \in {"ro", "rw"} : CarefulOpen(m)
    <3>1. PICK m \in {"ro", "rw"} : Open(m)
      BY <2>1 DEF CarefulOpen
    <3>2. pc = "idle"
      BY <3>1 DEF Open, IInv, Phases
    <3>3. fsize = 0 \/ fsize >= HeaderSectors
      BY <3>1 DEF Open, HeaderSectors, IInv, TypeOK, FileTypeOK
    <3>4. mapped' => fsize # 0
      <4>1. fsize = 0 => (fsize > 0) = FALSE
        OBVIOUS
      <4> QED
        BY <3>1, <4>1, Zenon DEF Open
    <3> QED
      BY <3>1, <3>2, <3>3, <3>4 DEF Open, file
  <2>2. CASE \E c \in Chunk : CarefulSet(c) \/ ClearChunk(c)
    <3>1. pc = "idle" /\ UNCHANGED <<fsize, mapped, pc>>
      BY <2>2 DEF CarefulSet, SetChunk, ClearChunk, SetChunkDataFull, Idle, file
    <3> QED
      BY <3>1 DEF Balance
  <2>3. CASE CloseClean
    BY <2>3 DEF CloseClean, Idle
  <2>4. CASE Finish
    <3>1. mapped
      BY <2>4 DEF Finish, IInv, Phases
    <3> QED
      BY <2>4, <3>1 DEF Finish, file, Balance
  <2>5. CASE Crash
    BY <2>5 DEF Crash
  <2> QED
    BY <2>1, <2>2, <2>3, <2>4, <2>5
<1> QED
  BY <1>1 DEF Balance, FlushKeepsSlack, Shrinks, Grows

\* Each step of a flush keeps the balance.
LEMMA FlushBalance ==
  ASSUME IInv, IInv', Layout, Layout', Balance, History, FlushStep, pc = "classify" => NoneTorn
  PROVE  Balance'
<1>1. CASE \E g \in shrinks :
             \/ ShrinkAbort(g) \/ ShrinkShift(g) \/ ShrinkMoveFault(g) \/ ShrinkMove(g)
             \/ ShrinkDelete(g) \/ ShrinkEntry(g) \/ ShrinkDataFault(g) \/ ShrinkData(g)
  BY <1>1, ShrinkGoesOn, ShrinkMoveInside, ShrinkDataInside, ShrinkQuietBalance,
           ShrinkEntryBalance
<1>2. CASE \E g \in grows :
             \/ GrowAbort(g) \/ GrowShift(g) \/ GrowMove(g) \/ GrowEntry(g) \/ GrowAdd(g)
             \/ GrowDataFault(g) \/ GrowData(g)
  BY <1>2, GrowGoesOn, GrowDataInside, GrowQuietBalance, GrowEntryBalance, GrowDataBalance
<1>3. CASE \/ SizeWrite \/ CreateFile \/ PlaceClear \/ PlaceEntry
           \/ PlaceHeaderOnly \/ PlaceData \/ PlacedAll
  BY <1>3, SizeWriteBalance, CreateFileBalance, PlaceClearBalance, PlaceEntryBalance,
           PlaceGoesOn, PlaceDataBalance, PlacedAllBalance
<1>4. CASE \/ ClassifyFault \/ ClassifySkip \/ ClassifyShrink \/ ClassifyGrow
           \/ Classified
  BY <1>4, ClassifyInside, ClassifyBalance, ClassifiedBalance
<1>5. CASE Shrunk \/ ResizeAbort \/ Resize \/ Grown \/ Finish
  BY <1>5, ShrinkQuietBalance, ResizeGoesOn, ResizeBalance, GrownBalance, RestBalance
<1> QED
  BY <1>1, <1>2, <1>3, <1>4, <1>5 DEF FlushStep

\* Nothing happens.
LEMMA StutterBalance ==
  ASSUME Balance, UNCHANGED hvars
  PROVE  Balance'
<1>1. UNCHANGED <<fsize, locations, timestamps, cached_writes, pc, cell, grows, new_fsize,
                  mapped, slack>>
  BY DEF hvars, vars, file, handle, plan
<1>2. /\ Used' = Used /\ \A S : GrowthOf(S)' = GrowthOf(S)
      /\ \A k : Space(k)' = Space(k) /\ Clears(k)' = Clears(k)
      /\ \A g : HeadsGrows(g)' <=> HeadsGrows(g)
  BY <1>1, SameTables, UsedSame DEF Space, Clears, HeadsGrows
<1>3. /\ Space(cell)' = Space(cell) /\ Space(cell + 1)' = Space(cell + 1)
      /\ Clears(cell)' = Clears(cell) /\ GrowthOf(grows)' = GrowthOf(grows)
      /\ \A g : GrowthOf(grows \ {g})' = GrowthOf(grows \ {g})
  BY <1>1, <1>2 DEF Space, Clears, GrowthOf
<1>4. Slack' = Slack /\ FlushKeepsSlack' = FlushKeepsSlack
  BY <1>1, <1>2 DEF Slack, Used, FlushKeepsSlack
<1> QED
  BY <1>1, <1>2, <1>3, <1>4 DEF Balance, Shrinks, Grows

\* The balance is kept in every behaviour of careful clients.
LEMMA BalanceInvariance == CarefulSpec => []Balance
<1>1. CarefulInit => Balance
  <2> SUFFICES ASSUME CarefulInit PROVE Balance
    OBVIOUS
  <2>1. pc = "idle" /\ ~mapped
    BY DEF CarefulInit, HistoryInit, Init, NoFlush
  <2> QED
    BY <2>1 DEF Balance, FlushKeepsSlack, Shrinks, Grows
<1>2. Balance /\ CInv /\ CInv' /\ [CarefulNext]_hvars => Balance'
  <2> SUFFICES ASSUME Balance, CInv, CInv', [CarefulNext]_hvars PROVE Balance'
    OBVIOUS
  <2> USE DEF CInv
  <2>1. pc = "classify" => NoneTorn
    BY NothingTorn DEF InHand
  <2>2. CASE CarefulNext
    <3>1. CarefulStep /\ History
      BY <2>2 DEF CarefulNext
    <3>2. CASE FlushStep
      BY <2>1, <3>1, <3>2, FlushBalance
    <3>3. CASE \E b \in BOOLEAN : CarefulFlush(b)
      BY <3>1, <3>3, StartBalance
    <3>4. CASE \/ \E m \in {"ro", "rw"} : CarefulOpen(m)
               \/ \E c \in Chunk : CarefulSet(c) \/ ClearChunk(c)
               \/ CloseClean \/ Crash
      BY <3>4, RestBalance
    <3> QED
      BY <3>1, <3>2, <3>3, <3>4 DEF CarefulStep
  <2>3. CASE UNCHANGED hvars
    BY <2>3, StutterBalance
  <2> QED
    BY <2>2, <2>3
<1> QED
  BY <1>1, <1>2, CarefulInvariance, PTL DEF CarefulSpec

\* A flush of an existing file wastes no sector, however it shrinks, moves and grows the
\* chunks, and one of an empty file wastes one for every clear in its list.
THEOREM SlackKept == CarefulSpec => []FlushKeepsSlack
<1>1. Balance => FlushKeepsSlack
  BY DEF Balance
<1> QED
  BY <1>1, BalanceInvariance, PTL

-----------------------------------------------------------------------------
(* The promise of RegionStore.                                             *)

\* Taking out the write of a chunk leaves those of the others.
LEMMA OthersStay ==
  ASSUME IInv, NEW c \in Chunk
  PROVE  /\ \A j \in 1 .. Len(WithoutWrite(c)) : \E i \in 1 .. Len(cached_writes) :
               WithoutWrite(c)[j] = cached_writes[i]
         /\ \A i \in 1 .. Len(cached_writes) : cached_writes[i].pos # c =>
               \E j \in 1 .. Len(WithoutWrite(c)) : WithoutWrite(c)[j] = cached_writes[i]
<1> DEFINE found == {i \in DOMAIN cached_writes : cached_writes[i].pos = c}
           first == CHOOSE i \in found : \A j \in found : i <= j
<1>1. cached_writes \in Seq(ChunkWrite)
  BY DEF IInv, TypeOK, HandleTypeOK
<1>2. CASE found = {}
  BY <1>2 DEF WithoutWrite
<1>3. CASE found # {}
  <2>1. PICK k \in found : TRUE
    BY <1>3
  <2>2. k \in 1 .. Len(cached_writes) /\ cached_writes[k].pos = c /\ \A j \in found : j = k
    BY <1>1, <2>1 DEF IInv, OneWritePerChunk
  <2>3. first = k
    BY <2>1, <2>2
  <2>4. WithoutWrite(c) = WithoutCell(cached_writes, k)
    BY <1>3, <2>3 DEF WithoutWrite
  <2> HIDE DEF found, first
  <2>5. PICK s : s = WithoutWrite(c)
    OBVIOUS
  <2>6. PICK n \in Nat : n = Len(cached_writes)
    BY <1>1
  <2>7. /\ Len(s) = n - 1
        /\ \A j \in 1 .. n - 1 : s[j] = IF j < k THEN cached_writes[j] ELSE cached_writes[j + 1]
    BY <1>1, <2>2, <2>4, <2>5, <2>6, WithoutCellType, SMTT(30)
  <2>8. ASSUME NEW j \in 1 .. n - 1 PROVE \E i \in 1 .. n : s[j] = cached_writes[i]
    <3>1. j \in 1 .. n /\ j + 1 \in 1 .. n
      BY <2>6
    <3> QED
      BY <2>7, <3>1
  <2>9. ASSUME NEW i \in 1 .. n, cached_writes[i].pos # c
        PROVE  \E j \in 1 .. n - 1 : s[j] = cached_writes[i]
    <3>1. CASE i < k
      <4>1. i \in 1 .. n - 1
        BY <2>2, <2>6, <3>1
      <4> QED
        BY <2>7, <3>1, <4>1
    <3>2. CASE ~(i < k)
      <4>1. i # k
        BY <2>2, <2>9
      <4>2. i - 1 \in 1 .. n - 1 /\ ~(i - 1 < k) /\ (i - 1) + 1 = i
        BY <2>2, <2>6, <3>2, <4>1
      <4> QED
        BY <2>7, <4>2
    <3> QED
      BY <3>1, <3>2
  <2> QED
    BY <2>5, <2>6, <2>7, <2>8, <2>9
<1> QED
  BY <1>2, <1>3

\* What the list says of each chunk, before a step and after it.
LEMMA Says ==
  ASSUME IInv, IInv'
  PROVE  /\ \A i \in 1 .. Len(cached_writes) :
               Outstanding[cached_writes[i].pos] = Written(cached_writes[i])
         /\ \A c \in Chunk : (\A i \in 1 .. Len(cached_writes) : cached_writes[i].pos # c) =>
               Outstanding[c] = Nothing
         /\ \A i \in 1 .. Len(cached_writes') :
               Outstanding'[cached_writes'[i].pos] = Written(cached_writes'[i])
         /\ \A c \in Chunk : (\A i \in 1 .. Len(cached_writes') : cached_writes'[i].pos # c) =>
               Outstanding'[c] = Nothing
<1>1. /\ cached_writes \in Seq(ChunkWrite) /\ cached_writes' \in Seq(ChunkWrite)
  BY DEF IInv, TypeOK, HandleTypeOK
<1>2. DOMAIN cached_writes = 1 .. Len(cached_writes) /\ DOMAIN cached_writes' = 1 .. Len(cached_writes')
  BY <1>1
<1>3. ASSUME NEW i \in 1 .. Len(cached_writes)
      PROVE  Outstanding[cached_writes[i].pos] = Written(cached_writes[i])
  <2>1. PICK c : c = cached_writes[i].pos /\ c \in Chunk
    BY <1>1, WriteFields
  <2>2. (CHOOSE j \in DOMAIN cached_writes : cached_writes[j].pos = c) = i
    BY <1>2, <2>1 DEF IInv, OneWritePerChunk
  <2> QED
    BY <1>2, <2>1, <2>2 DEF Outstanding
<1>4. ASSUME NEW i \in 1 .. Len(cached_writes')
      PROVE  Outstanding'[cached_writes'[i].pos] = Written(cached_writes'[i])
  <2>1. PICK c : c = cached_writes'[i].pos /\ c \in Chunk
    BY <1>1, WriteFields
  <2>2. (CHOOSE j \in DOMAIN cached_writes' : cached_writes'[j].pos = c) = i
    BY <1>2, <2>1 DEF IInv, OneWritePerChunk
  <2> QED
    BY <1>2, <2>1, <2>2 DEF Outstanding, Written
<1>5. /\ \A c \in Chunk : (\A i \in 1 .. Len(cached_writes) : cached_writes[i].pos # c) =>
               Outstanding[c] = Nothing
      /\ \A c \in Chunk : (\A i \in 1 .. Len(cached_writes') : cached_writes'[i].pos # c) =>
               Outstanding'[c] = Nothing
  BY <1>2 DEF Outstanding
<1> QED
  BY <1>3, <1>4, <1>5

\* With an empty list nothing is outstanding, and the list says the same until it changes.
LEMMA NothingSaid ==
  /\ cached_writes = <<>> => Outstanding = [c \in Chunk |-> Nothing]
  /\ cached_writes' = <<>> => Outstanding' = [c \in Chunk |-> Nothing]
  /\ cached_writes' = cached_writes => Outstanding' = Outstanding
<1>1. cached_writes = <<>> => Outstanding = [c \in Chunk |-> Nothing]
  BY DEF Outstanding
<1>2. cached_writes' = <<>> => Outstanding' = [c \in Chunk |-> Nothing]
  BY DEF Outstanding
<1>3. cached_writes' = cached_writes => Outstanding' = Outstanding
  BY DEF Outstanding, Written
<1> QED
  BY <1>1, <1>2, <1>3

\* A write that is remembered takes the place of an earlier one of its chunk.
LEMMA SetPuts ==
  ASSUME IInv, IInv', Contents', NEW c \in Chunk, NEW data, NEW len, NEW enc, NEW t,
         SetChunkDataFull(c, data, len, enc, t)
  PROVE  \E v \in Value \cup {Absent} : Outstanding' = [Outstanding EXCEPT ![c] = v]
<1>1. PICK job : cached_writes' = <<job>> \o WithoutWrite(c) /\ job.pos = c
  <2>1. PICK job :
           /\ cached_writes' = <<job>> \o WithoutWrite(c)
           /\ job = [pos |-> c,
                     data |-> IF data # NoData /\ len > 0 THEN data ELSE NoData,
                     length |-> len,
                     encoding |-> IF (data # NoData /\ len > 0) /\ enc = "auto"
                                  THEN Guess[data] ELSE enc,
                     timestamp |-> t]
    BY DEF SetChunkDataFull
  <2>2. job.pos = c
    BY <2>1
  <2> QED
    BY <2>1, <2>2
<1>2. PICK s : s = WithoutWrite(c) /\ s \in Seq(ChunkWrite) /\ \A j \in 1 .. Len(s) : s[j].pos # c
  BY WithoutWriteProperties DEF IInv, TypeOK, HandleTypeOK
<1>3. PICK l \in Nat : l = Len(s)
  BY <1>2
<1>4. /\ Len(cached_writes') = l + 1 /\ cached_writes'[1] = job
      /\ \A i \in 1 .. l : cached_writes'[i + 1] = s[i]
  BY <1>1, <1>2, <1>3
<1>5. PICK v : v = Written(job)
  OBVIOUS
<1>6. Outstanding'[c] = v
  <2>1. 1 \in 1 .. Len(cached_writes')
    BY <1>4
  <2> QED
    BY <1>1, <1>4, <1>5, <2>1, Says
<1>7. v \in Value \cup {Absent}
  <2>1. job \in ChunkWrite
    <3>1. cached_writes' \in Seq(ChunkWrite) /\ 1 \in 1 .. Len(cached_writes')
      BY <1>4 DEF IInv, TypeOK, HandleTypeOK
    <3> QED
      BY <1>4, <3>1
  <2>2. job.data # NoData => job.timestamp \in Times
    <3>1. cached_writes' \in Seq(ChunkWrite) /\ 1 \in DOMAIN cached_writes'
      BY <1>4 DEF IInv, TypeOK, HandleTypeOK
    <3> QED
      BY <1>4, <3>1 DEF Contents, GivenWrites
  <2>3. CASE job.data = NoData
    BY <1>5, <2>3 DEF Written
  <2>4. CASE job.data # NoData
    <3>1. job.data \in Payload /\ job.timestamp \in Dates
      BY <2>1, <2>2, <2>4, WriteFields DEF Dates
    <3> QED
      BY <1>5, <2>4, <3>1, EncodingBytes DEF Written, Value
  <2> QED
    BY <2>3, <2>4
<1>8. ASSUME NEW d \in Chunk, d # c PROVE Outstanding'[d] = Outstanding[d]
  <2>1. CASE \E j \in 1 .. l : s[j].pos = d
    <3>1. PICK j \in 1 .. l : s[j].pos = d
      BY <2>1
    <3>2. PICK i \in 1 .. Len(cached_writes) : s[j] = cached_writes[i]
      BY <1>2, <1>3, OthersStay
    <3>3. j + 1 \in 1 .. Len(cached_writes') /\ cached_writes'[j + 1] = s[j]
      BY <1>4
    <3>4. Outstanding'[d] = Written(s[j])
      BY <3>1, <3>3, Says
    <3>5. Outstanding[d] = Written(s[j])
      BY <3>1, <3>2, Says
    <3> QED
      BY <3>4, <3>5
  <2>2. CASE ~ \E j \in 1 .. l : s[j].pos = d
    <3>1. \A i \in 1 .. Len(cached_writes) : cached_writes[i].pos # d
      BY <1>2, <1>3, <1>8, <2>2, OthersStay
    <3>2. ASSUME NEW i \in 1 .. Len(cached_writes') PROVE cached_writes'[i].pos # d
      <4>1. i = 1 \/ (i - 1 \in 1 .. l /\ (i - 1) + 1 = i)
        BY <1>4
      <4>2. CASE i = 1
        BY <1>1, <1>4, <1>8, <4>2
      <4>3. CASE i - 1 \in 1 .. l /\ (i - 1) + 1 = i
        BY <1>4, <2>2, <4>3
      <4> QED
        BY <4>1, <4>2, <4>3
    <3>3. Outstanding[d] = Nothing
      BY <3>1, Says
    <3>4. Outstanding'[d] = Nothing
      BY <3>2, Says
    <3> QED
      BY <3>3, <3>4
  <2> QED
    BY <2>1, <2>2
<1>9. DOMAIN Outstanding = Chunk /\ DOMAIN Outstanding' = Chunk
      /\ Outstanding = [d \in Chunk |-> Outstanding[d]]
      /\ Outstanding' = [d \in Chunk |-> Outstanding'[d]]
  BY DEF Outstanding
<1>10. Outstanding' = [Outstanding EXCEPT ![c] = v]
  BY <1>6, <1>8, <1>9
<1> QED
  BY <1>7, <1>10

\* A step of a flush ends it, or leaves the list, what is remembered and the mode alone.
LEMMA FlushGoesOn ==
  ASSUME IInv, FlushStep
  PROVE  \/ Finish
         \/ pc # "idle" /\ pc' # "idle" /\ UNCHANGED <<cached_writes, mode>>
<1> USE DEF handle
<1>1. CASE \E g \in shrinks :
             \/ ShrinkAbort(g) \/ ShrinkShift(g) \/ ShrinkMoveFault(g) \/ ShrinkMove(g)
             \/ ShrinkDelete(g) \/ ShrinkEntry(g) \/ ShrinkDataFault(g) \/ ShrinkData(g)
  BY <1>1 DEF ShrinkAbort, ShrinkShift, ShrinkMoveFault, ShrinkMove, ShrinkDelete, ShrinkEntry,
              ShrinkDataFault, ShrinkData, Shrinking, Abort
<1>2. CASE \E g \in grows :
             \/ GrowAbort(g) \/ GrowShift(g) \/ GrowMove(g) \/ GrowEntry(g) \/ GrowAdd(g)
             \/ GrowDataFault(g) \/ GrowData(g)
  BY <1>2 DEF GrowAbort, GrowShift, GrowMove, GrowEntry, GrowAdd, GrowSetEntry, GrowDataFault,
              GrowData, Growing, Abort
<1>3. CASE \/ SizeWrite \/ CreateFile \/ PlaceClear \/ PlaceEntry
           \/ PlaceHeaderOnly \/ PlaceData \/ PlacedAll
  BY <1>3 DEF SizeWrite, CreateFile, PlaceClear, PlaceEntry, PlaceHeaderOnly, PlaceData,
              PlacedAll
<1>4. CASE \/ ClassifyFault \/ ClassifySkip \/ ClassifyShrink \/ ClassifyGrow
           \/ Classified
  BY <1>4 DEF ClassifyFault, ClassifySkip, ClassifyShrink, ClassifyGrow, Classified,
              Classifying, Fault
<1>5. CASE Shrunk \/ ResizeAbort \/ Resize \/ Grown
  BY <1>5 DEF Shrunk, ResizeAbort, Resize, Grown, Abort
<1> QED
  BY <1>1, <1>2, <1>3, <1>4, <1>5 DEF FlushStep

\* The process may die where it likes: of each chunk there is the old value, the new one,
\* or it is misread.
LEMMA CrashLeaves ==
  ASSUME IInv, Layout, Contents, pc # "idle", NEW c \in Chunk
  PROVE  /\ View(c) \in Value \cup {Absent, Torn}
         /\ \/ View(c) \in {before[c], After[c]}
            \/ /\ {before[c], After[c]} \ {Absent} # {}
               /\ View(c) = Torn
            \/ /\ View(c) \in Value
               /\ \E v \in {before[c], After[c]} \ {Absent} : View(c).time = v.time
<1>1. /\ View(c) \in Value \cup {Absent, Torn}
      /\ View(c) = Absent <=> ~ContainsChunk(c)
      /\ View(c) \in Value => View(c).time = timestamps[c]
  BY Dated, ViewReads
<1>2. CASE c \notin InHand
  BY <1>1, <1>2, OutOfHand, Promises
<1>3. CASE c \in InHand
  <2>1. PICK v \in {before[c], After[c]} : v # Absent /\ timestamps[c] = v.time
                                           /\ ContainsChunk(c)
    <3>1. CASE c \in Storing
      BY <3>1, Stored, ValueFields DEF Live
    <3>2. CASE c \notin Storing
      <4>1. c \in Live
        BY <1>3, <3>2 DEF InHand, Storing
      <4>2. PICK u, h : u = Promise(c) /\ h = Home(c)
        OBVIOUS
      <4>3. Reads(c, h, u)
        BY <3>2, <4>2 DEF Contents, InFlush, Kept
      <4>4. ContainsChunk(c)
        BY <4>1 DEF Live
      <4>5. u # Absent /\ timestamps[c] = u.time
        BY <4>3, <4>4 DEF Reads
      <4> QED
        BY <4>2, <4>4, <4>5, Promises
    <3> QED
      BY <3>1, <3>2
  <2>2. View(c) # Absent /\ v \in {before[c], After[c]} \ {Absent}
    BY <1>1, <2>1
  <2> QED
    BY <1>1, <2>1, <2>2
<1> QED
  BY <1>2, <1>3

\* With nothing outstanding a flush has nothing in hand and changes nothing.
LEMMA NothingToDo ==
  ASSUME IInv, Layout, Contents, pc # "idle", Outstanding = [c \in Chunk |-> Nothing]
  PROVE  Views = before
<1>1. GivenWrites /\ Careful
  BY DEF Contents, Layout
<1>2. \A i \in 1 .. Len(cached_writes) : FALSE
  <2>1. ASSUME NEW i \in 1 .. Len(cached_writes) PROVE FALSE
    <3>1. PICK c, v : c = cached_writes[i].pos /\ v = Written(cached_writes[i])
      OBVIOUS
    <3>2. c \in Chunk /\ Outstanding[c] = v /\ v \in Value \cup {Absent}
      BY <1>1, <3>1, Promised, CachedFields
    <3> QED
      BY <3>2, HistoryAssumption
  <2> QED
    BY <2>1
<1>3. shrinks = {} /\ grows = {}
  BY <1>2 DEF IInv, Drawn
<1>4. pc # "placeData"
  BY <1>2, CellWrite DEF IInv, Phases
<1>5. InHand = {}
  BY <1>3, <1>4 DEF InHand
<1>6. ASSUME NEW c \in Chunk PROVE View(c) = before[c]
  <2>1. View(c) = Promise(c)
    BY <1>5, OutOfHand
  <2>2. After[c] = before[c]
    BY DEF After
  <2> QED
    BY <2>1, <2>2 DEF Promise
<1>7. before = [c \in Chunk |-> before[c]]
  BY DEF Contents, InFlush
<1> QED
  BY <1>6, <1>7 DEF Views

\* Whole chunks are values.
LEMMA WholeViews ==
  ASSUME IInv, NoneTorn, \A c \in Live : timestamps[c] \in Dates
  PROVE  Views \in [Chunk -> Value \cup {Absent}]
<1>1. ASSUME NEW c \in Chunk PROVE View(c) \in Value \cup {Absent}
  <2>1. c \in Live => timestamps[c] \in Dates
    OBVIOUS
  <2> QED
    BY <2>1, ViewReads DEF NoneTorn
<1> QED
  BY <1>1 DEF Views

\* The first state maps to one of the store.
LEMMA InitStores == CarefulInit => Store!StoreInit
<1> SUFFICES ASSUME CarefulInit PROVE Store!StoreInit
  OBVIOUS
<1>1. IInv /\ Layout /\ Contents
  BY InitIInv, InitLayout, InitContents DEF CarefulInit, HistoryInit
<1>2. mode = "closed" /\ cached_writes = <<>> /\ pc = "idle" /\ NoneTorn
  BY DEF CarefulInit, HistoryInit, Init, NoFlush, Sound, NoneTorn
<1>3. Views \in [Chunk -> Value \cup {Absent}]
  BY <1>1, <1>2, Dated, WholeViews
<1> QED
  BY <1>2, <1>3, NothingSaid DEF Store!StoreInit, Store!NonePending

\* Each step maps to a step of the store or to none.
LEMMA StepStores ==
  ASSUME CInv, CInv', [CarefulNext]_hvars
  PROVE  [Store!StoreNext]_(Store!svars)
<1> DEFINE kept == IF pc = "idle" THEN Views ELSE before
<1>1. IInv /\ Layout /\ Contents /\ IInv' /\ Contents'
  BY DEF CInv
<1>2. CASE UNCHANGED hvars
  <2>1. UNCHANGED <<file, mode, cached_writes, pc, before>>
    BY <1>2 DEF hvars, vars, handle
  <2> QED
    BY <2>1, ReadsOn, NothingSaid DEF Store!svars
<1>3. ASSUME CarefulStep, History, NEW m \in {"ro", "rw"}, CarefulOpen(m)
      PROVE  Store!OpenStore(m)
  <2>1. /\ mode = "closed" /\ mode' = m /\ UNCHANGED <<file, pc, cached_writes>>
        /\ \A c \in Chunk : View(c) # Torn
    BY <1>3 DEF CarefulOpen, Open, Sound
  <2>2. pc = "idle"
    BY <1>1, <2>1 DEF IInv, Phases
  <2>3. \A c \in Chunk : Views[c] # Torn
    BY <2>1 DEF Views
  <2> QED
    BY <2>1, <2>2, <2>3, ReadsOn, NothingSaid DEF Store!OpenStore
<1>4. ASSUME CarefulStep, History, NEW c \in Chunk, CarefulSet(c) \/ ClearChunk(c)
      PROVE  \E v \in Value \cup {Absent} : Store!Put(c, v)
  <2>1. \E data, len, enc, t : SetChunkDataFull(c, data, len, enc, t)
    BY <1>4 DEF CarefulSet, SetChunk, ClearChunk
  <2>2. PICK v \in Value \cup {Absent} : Outstanding' = [Outstanding EXCEPT ![c] = v]
    BY <1>1, <2>1, SetPuts
  <2>3. mode = "rw" /\ pc = "idle" /\ UNCHANGED <<file, pc, mode>>
    BY <2>1 DEF SetChunkDataFull, Idle
  <2> QED
    BY <2>2, <2>3, ReadsOn DEF Store!Put
<1>5. ASSUME CarefulStep, History, NEW b \in BOOLEAN, CarefulFlush(b)
      PROVE  UNCHANGED Store!svars
  <2>1. pc = "idle" /\ pc' # "idle" /\ UNCHANGED <<mode, cached_writes>>
    BY <1>5 DEF CarefulFlush, StartFlush, Idle, handle
  <2>2. before' = Views
    BY <1>5, <2>1 DEF History
  <2> QED
    BY <2>1, <2>2, NothingSaid DEF Store!svars
<1>6. ASSUME CarefulStep, History, CloseClean
      PROVE  Store!CloseStore
  <2>1. /\ pc = "idle" /\ mode # "closed" /\ mode' = "closed" /\ cached_writes = <<>>
        /\ UNCHANGED <<file, pc, cached_writes>>
    BY <1>6 DEF CloseClean, Idle
  <2>2. Outstanding = [c \in Chunk |-> Nothing] /\ Outstanding' = [c \in Chunk |-> Nothing]
    BY <2>1, NothingSaid
  <2>3. Views' = Views /\ Views = [c \in Chunk |-> Views[c]]
    BY <2>1, ReadsOn DEF Views
  <2> QED
    BY <2>1, <2>2, <2>3 DEF Store!CloseStore, Store!Applied, Store!NonePending
<1>7. ASSUME CarefulStep, History, Finish
      PROVE  Store!FlushStore \/ Store!CloseStore
  <2>1. /\ pc = "finish" /\ pc' = "idle" /\ mode' \in {"closed", mode} /\ cached_writes' = <<>>
        /\ UNCHANGED file
    BY <1>7 DEF Finish
  <2>2. mode = "rw"
    BY <1>1, <2>1 DEF IInv, Phases
  <2>3. Outstanding' = [c \in Chunk |-> Nothing]
    BY <2>1, NothingSaid
  <2>4. Views' = After
    BY <1>1, <2>1, AtTheEnd, ReadsOn
  <2>5. After = [c \in Chunk |-> IF Outstanding[c] = Nothing THEN before[c] ELSE Outstanding[c]]
    BY DEF After
  <2> QED
    BY <2>1, <2>2, <2>3, <2>4, <2>5
       DEF Store!FlushStore, Store!CloseStore, Store!Applied, Store!NonePending
<1>8. ASSUME CarefulStep, History, Crash
      PROVE  Store!CrashStore
  <2>1. /\ mode # "closed" /\ mode' = "closed" /\ pc' = "idle" /\ cached_writes' = <<>>
        /\ UNCHANGED file
    BY <1>8 DEF Crash
  <2>2. Outstanding' = [c \in Chunk |-> Nothing] /\ Views' = Views
    BY <2>1, NothingSaid, ReadsOn
  <2>3. CASE pc = "idle" \/ Outstanding = [c \in Chunk |-> Nothing]
    <3>1. Views' = kept
      BY <1>1, <2>2, <2>3, NothingToDo
    <3> QED
      BY <2>1, <2>2, <3>1 DEF Store!CrashStore, Store!NonePending
  <2>4. CASE pc # "idle" /\ Outstanding # [c \in Chunk |-> Nothing]
    <3>1. ASSUME NEW c \in Chunk
          PROVE  /\ View(c) \in Value \cup {Absent, Torn}
                 /\ View(c) \in {before[c], After[c]} \cup Store!Misread(c)
      <4>1. After[c] = Store!Applied[c]
        BY <2>4 DEF After, Store!Applied
      <4>2. PICK a, b, v : a = before[c] /\ b = After[c] /\ v = View(c)
        OBVIOUS
      <4>3. Store!Misread(c) = {x \in {Torn} : {a, b} \ {Absent} # {}}
                               \cup {x \in Value : \E u \in {a, b} \ {Absent} : x.time = u.time}
        <5>1. {a, b} \ {Absent} = {a, b} \cap Value
          <6>1. a \in Value \cup {Absent} /\ b \in Value \cup {Absent}
            BY <1>1, <2>4, <4>2, Promises DEF CInv
          <6> QED
            BY <6>1, HistoryAssumption
        <5>2. \A u \in Value : [x \in Value |-> x.time][u] = u.time
          OBVIOUS
        <5>4. (IF pc = "idle" THEN Views ELSE before)[c] = a
          BY <2>4, <4>2
        <5>5. Store!Applied[c] = b
          BY <4>1, <4>2
        <5> DEFINE D == [x \in Value |-> x.time]
        <5>6. Store!Misread(c) = {x \in {Torn} : {a, b} \cap Value # {}}
                  \cup {x \in Value : \E u \in {a, b} \cap Value : D[x] = D[u]}
          BY <5>4, <5>5, Zenon DEF Store!Misread
        <5> QED
          BY <5>1, <5>2, <5>6
      <4>4. /\ v \in Value \cup {Absent, Torn}
            /\ \/ v \in {a, b}
               \/ {a, b} \ {Absent} # {} /\ v = Torn
               \/ v \in Value /\ \E u \in {a, b} \ {Absent} : v.time = u.time
        BY <1>1, <2>4, <4>2, CrashLeaves
      <4> QED
        BY <4>2, <4>3, <4>4
    <3>2. /\ Views \in [Chunk -> Value \cup {Absent, Torn}]
          /\ \A c \in Chunk : Views[c] \in {before[c], Store!Applied[c]} \cup Store!Misread(c)
      <4>1. \A c \in Chunk : After[c] = Store!Applied[c]
        BY <2>4 DEF After, Store!Applied
      <4> QED
        BY <3>1, <4>1 DEF Views
    <3> QED
      BY <2>1, <2>2, <2>4, <3>2 DEF Store!CrashStore, Store!NonePending
  <2> QED
    BY <2>3, <2>4
<1>9. ASSUME CarefulStep, History, FlushStep, ~Finish
      PROVE  UNCHANGED Store!svars
  <2>1. pc # "idle" /\ pc' # "idle" /\ UNCHANGED <<cached_writes, mode>>
    BY <1>1, <1>9, FlushGoesOn
  <2>2. before' = before
    BY <1>9, <2>1 DEF History
  <2> QED
    BY <2>1, <2>2, NothingSaid DEF Store!svars
<1> QED
  BY <1>2, <1>3, <1>4, <1>5, <1>6, <1>7, <1>8, <1>9
     DEF CarefulNext, CarefulStep, Store!StoreNext

\* Seen from outside, the region implements the promise of RegionStore: a flush happens at
\* once when it ends, and a process that dies in the middle of one leaves of each chunk the
\* old value, the new one, or one misread under the date of either.
THEOREM RegionImplementsStore == CarefulSpec => StoreSpec
<1>1. CInv /\ CInv' /\ [CarefulNext]_hvars => [Store!StoreNext]_(Store!svars)
  BY StepStores
<1> QED
  BY <1>1, InitStores, CarefulInvariance, PTL DEF CarefulSpec, StoreSpec, Store!StoreSpec
=============================================================================
