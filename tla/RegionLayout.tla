--------------------------- MODULE RegionLayout ---------------------------
(***************************************************************************)
(* Where the chunks of a region lie throughout a flush, when its clients   *)
(* keep to the rules of RegionHistory: each inside the file and none on    *)
(* another, at every store; no assertion fails, nothing is read or written *)
(* outside the mapping.  RegionContents says what the chunks hold.         *)
(*                                                                         *)
(* The argument is about the heads.  In the placement into an empty file   *)
(* what is done lies below the write head, and there is space for the rest.*)
(* In the shrinking pass what is done lies below the write head, and what  *)
(* is not lies from the read head on, where it was; they are as far apart  *)
(* as sectors have been freed.  In the growing pass it is the other way    *)
(* round, and they are as far apart as the chunks still to be grown need.  *)
(***************************************************************************)
EXTENDS RegionHistory, RegionInvariant, SequenceLemmas

\* Nothing has failed, the file has no ragged end, and the writes are careful ones.
Careful ==
    /\ status = "ok" /\ ~ragged
    /\ \A i \in DOMAIN cached_writes : CarefulWrite(cached_writes[i])

-----------------------------------------------------------------------------
(* Flushing into an empty file.                                            *)

\* The sectors that the writes from the k-th on are counted with.
Space(k) ==
    SumFunction([i \in k .. Len(cached_writes) |-> SectorsFor(cached_writes[i].length)])

\* What is placed lies below the head, and there is space for the rest.
Placed(head, k) ==
    /\ head >= HeaderSectors /\ head + Space(k) <= fsize
    /\ \A c \in Live :
          /\ EndOf(c) <= head
          /\ \E i \in DOMAIN cached_writes : i < k /\ cached_writes[i].pos = c

\* The entry of w is stored, at the write head, and its data comes next.
EntryAtHead(w) ==
    /\ w.data # NoData /\ w.pos \in Live
    /\ locations[w.pos] = [offset |-> write_head, sector_count |-> CountFor(w.length)]

Placing ==
    /\ pc \in {"size", "place"} => cell <= Len(cached_writes) + 1
    /\ pc = "size" => new_fsize + Space(cell) = Space(1)
    /\ pc = "place" => Placed(write_head, cell)
    /\ pc = "placeData" =>
          LET w == cached_writes[cell]
          IN  /\ EntryAtHead(w)
              /\ Placed(write_head + CountFor(w.length), cell + 1)

-----------------------------------------------------------------------------
(* Flushing in place.                                                      *)

FreesOf(S) == SumFunction([g \in S |-> Frees(g.write)])
GrowthOf(S) == SumFunction([g \in S |-> Growth(g.write)])

\* The shrinks in S are of chunks that are there, at the sector they are sorted by.
ShrinksFit(S) ==
    \A g \in S :
       /\ g.write.pos \in Live /\ g.order = locations[g.write.pos].offset
       /\ Frees(g.write) >= 0

\* The grows in S do not shrink anything, and are sorted as their chunks lie.
GrowsFit(S) ==
    /\ \A g \in S : g.write.data # NoData /\ Growth(g.write) >= 0
    /\ \A g, h \in S :
          g.write.pos \in Live /\ h.write.pos \in Live =>
             (g.order < h.order <=>
                 locations[g.write.pos].offset < locations[h.write.pos].offset)

\* The ranks of the shrinks that have been sorted in.
ShrinksSoFar == {i \in ShrinkWrites : i < cell}

Sorting ==
    pc = "classify" =>
        /\ cell <= Len(cached_writes) + 1
        /\ TailSurvives
        /\ ShrinksFit(shrinks)
        /\ \A g \in grows : g.write.pos \in Live => g.order = locations[g.write.pos].offset
        /\ {g.rank : g \in shrinks} = ShrinksSoFar
        /\ FreesOf(shrinks) = SumFunction([i \in ShrinksSoFar |-> Frees(cached_writes[i])])

\* With the chunks of S still to be shrunk, the read head at r and the write head
\* at w: what is done lies below w, the rest from r on, where it was; and what lies
\* behind all of S survives the cut.
ShrinkLayout(S, r, w) ==
    /\ w <= r /\ r <= fsize /\ r - w = fsize - new_fsize
    /\ S # {} => w >= HeaderSectors
    /\ \A c \in Live : EndOf(c) <= w \/ locations[c].offset >= r
    /\ ShrinksFit(S) /\ \A g \in S : g.order >= r
    /\ \A c \in Live :
          locations[c].offset >= r /\ (\A g \in S : g.order < locations[c].offset)
          => EndOf(c) <= new_fsize - FreesOf(S)

\* The entries in front of g are shifted, their bytes come next.
ShiftedDown(g) ==
    /\ ShrinkGap(g) >= 0 /\ write_head >= HeaderSectors
    /\ ShrinkLayout(shrinks, g.order, write_head + ShrinkGap(g))
    /\ \A c \in Live : EndOf(c) <= write_head \/ locations[c].offset >= write_head

InShrinks ==
    /\ pc = "shrink" => ShrinkLayout(shrinks, read_head, write_head)
    /\ pc = "shrinkMove" => \E g \in shrinks : HeadsShrinks(g) /\ ShiftedDown(g)
    /\ pc = "shrinkEntry" =>
          /\ ShrinkLayout(shrinks, read_head, write_head)
          /\ \E g \in shrinks : HeadsShrinks(g) /\ g.order = read_head
    /\ pc = "shrinkData" =>
          \E g \in shrinks :
             /\ HeadsShrinks(g) /\ EntryAtHead(g.write)
             /\ ShrinkLayout(shrinks \ {g}, read_head, write_head + CountFor(g.write.length))

Resizing ==
    pc = "resize" => new_fsize <= fsize /\ \A c \in Live : EndOf(c) <= new_fsize

\* With the chunks of S still to be grown: the rest lies below r, what is done from w
\* on, and between them is the space that S needs.
GrowLayout(S, r, w) ==
    /\ HeaderSectors <= r /\ r <= w /\ w <= fsize /\ w - r = GrowthOf(S)
    /\ \A c \in Live : EndOf(c) <= r \/ locations[c].offset >= w
    /\ \A g \in S : g.write.pos \in Live => EndOf(g.write.pos) <= r
    /\ GrowsFit(S)

\* The entries behind g are shifted, their bytes come next.
ShiftedUp(g) ==
    /\ g.write.pos \in Live /\ GrowGap(g) >= 0 /\ write_head <= fsize
    /\ GrowLayout(grows, GrowEnd(g), write_head - GrowGap(g))
    /\ \A c \in Live : EndOf(c) <= write_head \/ locations[c].offset >= write_head

InGrows ==
    /\ pc = "grow" => GrowLayout(grows, read_head, write_head)
    /\ pc = "growMove" => \E g \in grows : HeadsGrows(g) /\ ShiftedUp(g)
    /\ pc = "growEntry" =>
          /\ GrowLayout(grows, read_head, write_head)
          /\ \E g \in grows :
                HeadsGrows(g) /\ g.write.pos \in Live /\ GrowEnd(g) = read_head
    /\ pc = "growData" =>
          \E g \in grows :
             /\ HeadsGrows(g) /\ EntryAtHead(g.write)
             /\ GrowLayout(grows \ {g}, read_head, write_head)

\* What the two lists and the sums hold between the loops.
Lists ==
    /\ pc \in {"classify", "shrink", "shrinkMove", "shrinkEntry", "shrinkData", "resize"} =>
          sectors_added = GrowthOf(grows) /\ GrowsFit(grows)
    /\ pc \in {"idle", "classify"} => read_head = 0 /\ write_head = 0
    /\ pc = "idle" => sectors_added = 0
    /\ pc \in {"resize", "grow", "growMove", "growEntry", "growData", "finish"} => shrinks = {}
    /\ pc = "finish" => grows = {}
    /\ shrinks \cap grows = {}

Layout ==
    /\ Careful /\ LayoutOK
    /\ Placing /\ Lists /\ Sorting /\ InShrinks /\ Resizing /\ InGrows

-----------------------------------------------------------------------------
(* Chunks, entries and counts.                                             *)

\* The numbers of a table entry, and where a live chunk ends.
LEMMA Extent ==
  ASSUME IInv, NEW c \in Chunk
  PROVE  /\ locations[c].offset \in Int /\ locations[c].sector_count \in Nat
         /\ timestamps[c] \in Nat
         /\ EndOf(c) \in Int /\ EndOf(c) = locations[c].offset + locations[c].sector_count
         /\ c \in Live <=> /\ locations[c].offset # 0 /\ locations[c].sector_count # 0
                           /\ timestamps[c] # 0
         /\ c \in Live <=> ContainsChunk(c)
         /\ c \in Live => EndOf(c) > locations[c].offset
<1>1. locations[c].offset \in Int /\ locations[c].sector_count \in Nat /\ timestamps[c] \in Nat
  BY Entries
<1> QED
  BY <1>1 DEF EndOf, Live, ContainsChunk

\* What CarefulWrite says of a write, and that its count fits the table.
LEMMA CarefulFields ==
  ASSUME NEW w \in ChunkWrite, CarefulWrite(w)
  PROVE  /\ CountFor(w.length) = SectorsFor(w.length)
         /\ CountFor(w.length) \in 1 .. 255
         /\ w.data = NoData <=> w.length = 0
         /\ w.data # NoData => w.timestamp # 0
<1>1. SectorsFor(w.length) \in Nat /\ SectorsFor(w.length) >= 1 /\ w.length \in Nat
  BY WriteFields
<1>2. SectorsFor(w.length) < CountMod
  BY DEF CarefulWrite
<1>3. SectorsFor(w.length) \in 1 .. 255
  BY <1>1, <1>2 DEF CountMod
<1>4. CountFor(w.length) = SectorsFor(w.length)
  BY <1>3 DEF CountFor, CountMod
<1>5. (w.data = NoData <=> w.length = 0) /\ (w.length > 0 => w.timestamp # 0)
  BY DEF CarefulWrite
<1> QED
  BY <1>1, <1>3, <1>4, <1>5

\* The writes in the ordered lists are careful ones, and their sums are of numbers.
LEMMA ListedFields ==
  ASSUME IInv, Careful, NEW g \in shrinks \cup grows
  PROVE  /\ g.write \in ChunkWrite /\ g.write.pos \in Chunk
         /\ g.order \in Int /\ g.rank \in Nat /\ g.rank \in 1 .. Len(cached_writes)
         /\ g.write = cached_writes[g.rank]
         /\ CountFor(g.write.length) = SectorsFor(g.write.length)
         /\ CountFor(g.write.length) \in 1 .. 255
         /\ g.write.data = NoData <=> g.write.length = 0
         /\ g.write.timestamp \in Nat
         /\ g.write.data # NoData => g.write.timestamp # 0
         /\ Frees(g.write) \in Int /\ Growth(g.write) \in Int
         /\ Growth(g.write) <= 255
<1>1. /\ g.write \in ChunkWrite /\ g.order \in Int
      /\ g.rank \in 1 .. Len(cached_writes) /\ g.write = cached_writes[g.rank]
  BY ListedWrite
<1>2. CarefulWrite(g.write)
  <2>1. DOMAIN cached_writes = 1 .. Len(cached_writes)
    BY DEF IInv, TypeOK, HandleTypeOK
  <2> QED
    BY <1>1, <2>1 DEF Careful
<1>3. g.write.pos \in Chunk /\ g.write.timestamp \in Nat
  BY <1>1, WriteFields
<1>4. /\ CountFor(g.write.length) = SectorsFor(g.write.length)
      /\ CountFor(g.write.length) \in 1 .. 255
      /\ g.write.data = NoData <=> g.write.length = 0
      /\ g.write.data # NoData => g.write.timestamp # 0
  BY <1>1, <1>2, CarefulFields
<1>5. locations[g.write.pos].sector_count \in Nat
  BY <1>3, Extent
<1>6. Frees(g.write) \in Int /\ Growth(g.write) \in Int /\ Growth(g.write) <= 255
  BY <1>4, <1>5 DEF Frees, Growth
<1>7. g.rank \in Nat
  <2>1. Len(cached_writes) \in Nat
    BY DEF IInv, TypeOK, HandleTypeOK
  <2> QED
    BY <1>1, <2>1
<1> QED
  BY <1>1, <1>3, <1>4, <1>6, <1>7, Zenon

\* The ordered lists are finite, and no longer than a region has chunks.
LEMMA ListsFinite ==
  ASSUME IInv, NEW S \in SUBSET (shrinks \cup grows)
  PROVE  IsFiniteSet(S) /\ Cardinality(S) \in Nat /\ Cardinality(S) <= 1024
<1>1. PICK f : f = [g \in S |-> g.write.pos]
  OBVIOUS
<1>2. f \in [S -> Chunk]
  <2>1. \A g \in S : g.write.pos \in Chunk
    BY ListedWrite, WriteFields
  <2> QED
    BY <1>1, <2>1
<1>3. ASSUME NEW g \in S, NEW h \in S, f[g] = f[h] PROVE g = h
  <2>1. /\ g.rank \in 1 .. Len(cached_writes) /\ g.write = cached_writes[g.rank]
        /\ h.rank \in 1 .. Len(cached_writes) /\ h.write = cached_writes[h.rank]
    BY ListedWrite
  <2>2. DOMAIN cached_writes = 1 .. Len(cached_writes)
    BY DEF IInv, TypeOK, HandleTypeOK
  <2>3. g.write.pos = h.write.pos
    BY <1>1, <1>3
  <2>4. g.rank = h.rank
    BY <2>1, <2>2, <2>3 DEF IInv, OneWritePerChunk
  <2> QED
    BY <2>4 DEF IInv, Drawn
<1>4. f \in Injection(S, Chunk)
  BY <1>2, <1>3 DEF Injection, IsInjective
<1> QED
  BY <1>4, FS_Injection, FS_CardinalityType, ChunkAssumption

\* Only one write heads a list.
LEMMA OneHead ==
  ASSUME IInv, NEW g, NEW h
  PROVE  /\ HeadsShrinks(g) /\ HeadsShrinks(h) => g = h
         /\ HeadsGrows(g) /\ HeadsGrows(h) => g = h
<1>1. \A x \in shrinks \cup grows : x.rank \in Nat /\ x.order \in Int
  BY ListedWrite
<1>2. \A x, y \in shrinks \cup grows : x.rank = y.rank => x = y
  BY DEF IInv, Drawn
<1>3. ASSUME HeadsShrinks(g), HeadsShrinks(h) PROVE g = h
  <2>1. /\ g \in shrinks /\ h \in shrinks
        /\ g.order < h.order \/ (g.order = h.order /\ g.rank >= h.rank)
        /\ h.order < g.order \/ (h.order = g.order /\ h.rank >= g.rank)
    BY <1>3 DEF HeadsShrinks
  <2>2. g.rank = h.rank
    BY <1>1, <2>1
  <2> QED
    BY <1>2, <2>1, <2>2
<1>4. ASSUME HeadsGrows(g), HeadsGrows(h) PROVE g = h
  <2>1. /\ g \in grows /\ h \in grows
        /\ g.order > h.order \/ (g.order = h.order /\ g.rank <= h.rank)
        /\ h.order > g.order \/ (h.order = g.order /\ h.rank <= g.rank)
    BY <1>4 DEF HeadsGrows
  <2>2. g.rank = h.rank
    BY <1>1, <2>1
  <2> QED
    BY <1>2, <2>1, <2>2
<1> QED
  BY <1>3, <1>4

\* The writes in the lists are for different chunks.
LEMMA OtherChunks ==
  ASSUME IInv, NEW g \in shrinks \cup grows, NEW h \in shrinks \cup grows, h # g
  PROVE  h.write.pos \in Chunk /\ h.write.pos # g.write.pos
<1>1. /\ h.rank \in 1 .. Len(cached_writes) /\ h.write = cached_writes[h.rank]
      /\ g.rank \in 1 .. Len(cached_writes) /\ g.write = cached_writes[g.rank]
  BY ListedWrite
<1>2. DOMAIN cached_writes = 1 .. Len(cached_writes)
  BY DEF IInv, TypeOK, HandleTypeOK
<1>3. h.rank # g.rank
  BY DEF IInv, Drawn
<1> QED
  BY <1>1, <1>2, <1>3, ListedWrite, WriteFields DEF IInv, OneWritePerChunk

-----------------------------------------------------------------------------
(* Sums over the lists.                                                    *)

\* What a list frees is what one of it frees, and the rest.
LEMMA FreesWithout ==
  ASSUME IInv, Careful, NEW S \in SUBSET shrinks, NEW g \in S
  PROVE  /\ FreesOf(S) \in Int /\ FreesOf(S \ {g}) \in Int
         /\ FreesOf(S) = Frees(g.write) + FreesOf(S \ {g})
<1>1. IsFiniteSet(S)
  BY ListsFinite
<1>2. PICK f : f = [h \in S |-> Frees(h.write)]
  OBVIOUS
<1>3. f \in [S -> Int]
  BY <1>2, ListedFields
<1>4. [h \in S \ {g} |-> f[h]] = [h \in S \ {g} |-> Frees(h.write)]
  BY <1>2
<1>5. /\ SumFunction(f) \in Int
      /\ SumFunction([h \in S \ {g} |-> f[h]]) \in Int
      /\ SumFunction(f) = f[g] + SumFunction([h \in S \ {g} |-> f[h]])
  BY <1>1, <1>3, SumWithout
<1> QED
  BY <1>2, <1>4, <1>5 DEF FreesOf

\* So it is with what a list grows by.
LEMMA GrowthWithout ==
  ASSUME IInv, Careful, NEW S \in SUBSET grows, NEW g \in S
  PROVE  /\ GrowthOf(S) \in Int /\ GrowthOf(S \ {g}) \in Int
         /\ GrowthOf(S) = Growth(g.write) + GrowthOf(S \ {g})
<1>1. IsFiniteSet(S)
  BY ListsFinite
<1>2. PICK f : f = [h \in S |-> Growth(h.write)]
  OBVIOUS
<1>3. f \in [S -> Int]
  BY <1>2, ListedFields
<1>4. [h \in S \ {g} |-> f[h]] = [h \in S \ {g} |-> Growth(h.write)]
  BY <1>2
<1>5. /\ SumFunction(f) \in Int
      /\ SumFunction([h \in S \ {g} |-> f[h]]) \in Int
      /\ SumFunction(f) = f[g] + SumFunction([h \in S \ {g} |-> f[h]])
  BY <1>1, <1>3, SumWithout
<1> QED
  BY <1>2, <1>4, <1>5 DEF GrowthOf

\* Nothing is freed by no writes, and nothing grows.
LEMMA NoSums == FreesOf({}) = 0 /\ GrowthOf({}) = 0
<1>1. \A f : f \in [{} -> Int] => SumFunction(f) = 0
  BY SumOfNothing
<1>2. /\ [g \in {} |-> Frees(g.write)] \in [{} -> Int]
      /\ [g \in {} |-> Growth(g.write)] \in [{} -> Int]
  OBVIOUS
<1> QED
  BY <1>1, <1>2 DEF FreesOf, GrowthOf

\* The growth of a list is not negative, and below what a uint32_t can say in bytes.
LEMMA GrowthBounds ==
  ASSUME IInv, Careful, GrowsFit(grows), NEW S \in SUBSET grows
  PROVE  GrowthOf(S) \in Nat /\ GrowthOf(S) < WordSectors
<1>1. IsFiniteSet(S) /\ Cardinality(S) \in Nat /\ Cardinality(S) <= 1024
  BY ListsFinite
<1>2. PICK f : f = [h \in S |-> Growth(h.write)]
  OBVIOUS
<1>3. f \in [S -> 0 .. 255]
  <2>1. ASSUME NEW h \in S PROVE Growth(h.write) \in 0 .. 255
    <3>1. Growth(h.write) \in Int /\ Growth(h.write) <= 255
      BY ListedFields
    <3>2. Growth(h.write) >= 0
      BY DEF GrowsFit
    <3> QED
      BY <3>1, <3>2
  <2> QED
    BY <1>2, <2>1
<1>4. f \in [S -> Nat]
  BY <1>3
<1>5. SumFunction(f) \in Nat
  BY <1>1, <1>4, SumOfNaturals
<1>6. SumFunction(f) <= 255 * Cardinality(S)
  BY <1>1, <1>3, SumBounded
<1>7. SumFunction(f) < WordSectors
  BY <1>1, <1>5, <1>6 DEF WordSectors
<1> QED
  BY <1>2, <1>5, <1>7 DEF GrowthOf

\* What a list frees is not negative.
LEMMA FreesNatural ==
  ASSUME IInv, Careful, NEW S \in SUBSET shrinks, \A g \in S : Frees(g.write) >= 0
  PROVE  FreesOf(S) \in Nat
<1>1. IsFiniteSet(S)
  BY ListsFinite
<1>2. PICK f : f = [h \in S |-> Frees(h.write)]
  OBVIOUS
<1>3. f \in [S -> Nat]
  <2>1. ASSUME NEW h \in S PROVE Frees(h.write) \in Nat
    BY ListedFields
  <2> QED
    BY <1>2, <2>1
<1> QED
  BY <1>1, <1>2, <1>3, SumOfNaturals DEF FreesOf

-----------------------------------------------------------------------------
(* What stores into the tables do to the layout.                           *)

\* Where the tables are as they were, so is all that is read from them.
LEMMA SameTables ==
  ASSUME locations' = locations, timestamps' = timestamps
  PROVE  /\ Live' = Live
         /\ \A c : EndOf(c)' = EndOf(c) /\ (ContainsChunk(c)' <=> ContainsChunk(c))
         /\ \A w : Frees(w)' = Frees(w) /\ Growth(w)' = Growth(w)
         /\ \A S : FreesOf(S)' = FreesOf(S) /\ GrowthOf(S)' = GrowthOf(S)
         /\ \A S : (ShrinksFit(S)' <=> ShrinksFit(S)) /\ (GrowsFit(S)' <=> GrowsFit(S))
         /\ fsize' = fsize => (LayoutOK' <=> LayoutOK)
         /\ fsize' = fsize /\ new_fsize' = new_fsize =>
               \A S, r, w : ShrinkLayout(S, r, w)' <=> ShrinkLayout(S, r, w)
         /\ fsize' = fsize => \A S, r, w : GrowLayout(S, r, w)' <=> GrowLayout(S, r, w)
<1>1. /\ Live' = Live
      /\ \A c : EndOf(c)' = EndOf(c) /\ (ContainsChunk(c)' <=> ContainsChunk(c))
      /\ \A w : Frees(w)' = Frees(w) /\ Growth(w)' = Growth(w)
      /\ \A S : FreesOf(S)' = FreesOf(S) /\ GrowthOf(S)' = GrowthOf(S)
      /\ \A S : (ShrinksFit(S)' <=> ShrinksFit(S)) /\ (GrowsFit(S)' <=> GrowsFit(S))
      /\ fsize' = fsize => (LayoutOK' <=> LayoutOK)
  BY DEF Live, EndOf, ContainsChunk, Frees, Growth, FreesOf, GrowthOf, ShrinksFit, GrowsFit,
         LayoutOK
<1>2. fsize' = fsize /\ new_fsize' = new_fsize =>
         \A S, r, w : ShrinkLayout(S, r, w)' <=> ShrinkLayout(S, r, w)
  BY <1>1 DEF ShrinkLayout
<1>3. fsize' = fsize => \A S, r, w : GrowLayout(S, r, w)' <=> GrowLayout(S, r, w)
  BY <1>1 DEF GrowLayout
<1> QED
  BY <1>1, <1>2, <1>3

\* Sums are the same where the counts of all live chunks of the list are.
LEMMA SameSums ==
  ASSUME NEW S,
         \A g \in S : /\ locations'[g.write.pos].sector_count = locations[g.write.pos].sector_count
                      /\ ContainsChunk(g.write.pos)' <=> ContainsChunk(g.write.pos)
  PROVE  /\ \A g \in S : Frees(g.write)' = Frees(g.write) /\ Growth(g.write)' = Growth(g.write)
         /\ FreesOf(S)' = FreesOf(S) /\ GrowthOf(S)' = GrowthOf(S)
<1>1. \A g \in S : Frees(g.write)' = Frees(g.write) /\ Growth(g.write)' = Growth(g.write)
  BY DEF Frees, Growth
<1>2. /\ [g \in S |-> Frees(g.write)'] = [g \in S |-> Frees(g.write)]
      /\ [g \in S |-> Growth(g.write)'] = [g \in S |-> Growth(g.write)]
  BY <1>1
<1> QED
  BY <1>1, <1>2 DEF FreesOf, GrowthOf

\* Moving the entries from lo to hi keeps the chunks apart and in their order, if the
\* others lie outside of where they come from and of where they go.
LEMMA ShiftKeepsApart ==
  ASSUME IInv, LayoutOK, NEW lo \in Int, NEW hi \in Int, NEW by \in Int,
         ShiftLocations(lo, hi, by), timestamps' = timestamps,
         lo >= HeaderSectors, lo + by >= HeaderSectors,
         \A c \in Live :
            \/ EndOf(c) <= lo /\ EndOf(c) <= lo + by
            \/ locations[c].offset >= lo /\ EndOf(c) <= hi
            \/ locations[c].offset >= hi /\ locations[c].offset >= hi + by
  PROVE  /\ Live' = Live
         /\ \A c \in Chunk : /\ locations'[c].sector_count = locations[c].sector_count
                             /\ ContainsChunk(c)' <=> ContainsChunk(c)
         /\ \A c \in Live :
               LET moved == locations[c].offset >= lo /\ EndOf(c) <= hi
               IN  /\ locations'[c].offset = locations[c].offset + (IF moved THEN by ELSE 0)
                   /\ EndOf(c)' = EndOf(c) + (IF moved THEN by ELSE 0)
         /\ \A c, d \in Live : c # d => EndOf(c)' <= locations'[d].offset
                                        \/ EndOf(d)' <= locations'[c].offset
         /\ \A c, d \in Live : locations'[c].offset < locations'[d].offset
                               <=> locations[c].offset < locations[d].offset
<1>1. \A c \in Chunk :
         /\ locations'[c].sector_count = locations[c].sector_count
         /\ locations'[c].offset = IF locations[c].offset \in lo .. hi - 1
                                   THEN locations[c].offset + by ELSE locations[c].offset
  BY Entries DEF ShiftLocations, Location
<1>2. \A c \in Chunk : ContainsChunk(c)' <=> ContainsChunk(c)
  BY <1>1, Extent DEF ContainsChunk, HeaderSectors
<1>3. Live' = Live
  BY <1>2 DEF Live
<1>4. \A c \in Live : c \in Chunk
  BY DEF Live
<1>5. ASSUME NEW c \in Live
      PROVE  LET moved == locations[c].offset >= lo /\ EndOf(c) <= hi
             IN  /\ locations'[c].offset = locations[c].offset + (IF moved THEN by ELSE 0)
                 /\ EndOf(c)' = EndOf(c) + (IF moved THEN by ELSE 0)
  <2>1. EndOf(c)' = locations'[c].offset + locations'[c].sector_count
    BY DEF EndOf
  <2>2. /\ locations[c].offset \in Int /\ locations[c].sector_count \in Nat
        /\ EndOf(c) = locations[c].offset + locations[c].sector_count
        /\ EndOf(c) > locations[c].offset
    BY <1>4, Extent
  <2>3. \/ EndOf(c) <= lo /\ EndOf(c) <= lo + by
        \/ locations[c].offset >= lo /\ EndOf(c) <= hi
        \/ locations[c].offset >= hi /\ locations[c].offset >= hi + by
    OBVIOUS
  <2> QED
    BY <1>1, <1>4, <2>1, <2>2, <2>3
<1>6. ASSUME NEW c \in Live, NEW d \in Live, c # d
      PROVE  /\ EndOf(c)' <= locations'[d].offset \/ EndOf(d)' <= locations'[c].offset
             /\ locations'[c].offset < locations'[d].offset
                <=> locations[c].offset < locations[d].offset
  <2>1. /\ locations[c].offset \in Int /\ locations[c].sector_count \in Nat
        /\ EndOf(c) \in Int /\ EndOf(c) > locations[c].offset
    BY <1>4, Extent
  <2>2. /\ locations[d].offset \in Int /\ locations[d].sector_count \in Nat
        /\ EndOf(d) \in Int /\ EndOf(d) > locations[d].offset
    BY <1>4, Extent
  <2>3. EndOf(c) <= locations[d].offset \/ EndOf(d) <= locations[c].offset
    BY <1>6 DEF LayoutOK
  <2>4. PICK oc, ec, od, ed \in Int :
           oc = locations[c].offset /\ ec = EndOf(c) /\ od = locations[d].offset /\ ed = EndOf(d)
    BY <2>1, <2>2
  <2>5. /\ locations'[c].offset = oc + (IF oc >= lo /\ ec <= hi THEN by ELSE 0)
        /\ EndOf(c)' = ec + (IF oc >= lo /\ ec <= hi THEN by ELSE 0)
        /\ locations'[d].offset = od + (IF od >= lo /\ ed <= hi THEN by ELSE 0)
        /\ EndOf(d)' = ed + (IF od >= lo /\ ed <= hi THEN by ELSE 0)
    BY <1>5, <2>4
  <2>6. /\ (ec <= lo /\ ec <= lo + by) \/ (oc >= lo /\ ec <= hi) \/ (oc >= hi /\ oc >= hi + by)
        /\ (ed <= lo /\ ed <= lo + by) \/ (od >= lo /\ ed <= hi) \/ (od >= hi /\ od >= hi + by)
    BY <2>4
  <2>7. oc < ec /\ od < ed /\ (ec <= od \/ ed <= oc)
    BY <2>1, <2>2, <2>3, <2>4
  <2> QED
    BY <2>4, <2>5, <2>6, <2>7
<1>7. \A c \in Live : ~(locations[c].offset < locations[c].offset)
                      /\ ~(locations'[c].offset < locations'[c].offset)
  BY <1>4, <1>5, Extent
<1> QED
  BY <1>1, <1>2, <1>3, <1>5, <1>6, <1>7

\* An entry that is stored where no other chunk lies.
LEMMA EntryKeepsApart ==
  ASSUME IInv, LayoutOK, NEW p \in Chunk, NEW o \in Int, NEW n \in Nat, NEW t \in Nat,
         SetEntry(p, o, n, t), fsize' = fsize,
         o >= HeaderSectors, n # 0, t # 0, o + n <= fsize,
         \A c \in Live \ {p} : EndOf(c) <= o \/ o + n <= locations[c].offset
  PROVE  /\ LayoutOK' /\ Live' = Live \cup {p}
         /\ locations'[p] = [offset |-> o, sector_count |-> n] /\ EndOf(p)' = o + n
         /\ \A c \in Chunk \ {p} :
               /\ locations'[c] = locations[c] /\ timestamps'[c] = timestamps[c]
               /\ EndOf(c)' = EndOf(c) /\ (ContainsChunk(c)' <=> ContainsChunk(c))
<1>1. /\ locations \in [Chunk -> Location] /\ timestamps \in [Chunk -> Nat]
  BY DEF IInv, TypeOK, FileTypeOK
<1>2. /\ locations'[p] = [offset |-> o, sector_count |-> n] /\ timestamps'[p] = t
      /\ \A c \in Chunk \ {p} : locations'[c] = locations[c] /\ timestamps'[c] = timestamps[c]
  BY <1>1 DEF SetEntry
<1>3. EndOf(p)' = o + n /\ ContainsChunk(p)'
  BY <1>2 DEF EndOf, ContainsChunk, HeaderSectors
<1>4. \A c \in Chunk \ {p} : EndOf(c)' = EndOf(c) /\ (ContainsChunk(c)' <=> ContainsChunk(c))
  BY <1>2 DEF EndOf, ContainsChunk
<1>5. Live' = Live \cup {p}
  BY <1>3, <1>4 DEF Live
<1>6. LayoutOK'
  <2>1. \A c \in Live' : locations'[c].offset >= HeaderSectors /\ EndOf(c)' <= fsize'
    <3>1. \A c \in Live \ {p} : c \in Chunk /\ locations[c].offset >= HeaderSectors /\ EndOf(c) <= fsize
      BY DEF LayoutOK, Live
    <3> QED
      BY <1>2, <1>3, <1>4, <1>5, <3>1
  <2>2. ASSUME NEW c \in Live', NEW d \in Live', c # d
        PROVE  EndOf(c)' <= locations'[d].offset \/ EndOf(d)' <= locations'[c].offset
    <3>1. locations'[p].offset = o
      BY <1>2
    <3>2. CASE c = p
      <4>1. d \in Live \ {p} /\ d \in Chunk \ {p}
        BY <1>5, <2>2, <3>2 DEF Live
      <4> QED
        BY <1>2, <1>3, <1>4, <3>1, <3>2, <4>1
    <3>3. CASE d = p
      <4>1. c \in Live \ {p} /\ c \in Chunk \ {p}
        BY <1>5, <2>2, <3>3 DEF Live
      <4> QED
        BY <1>2, <1>3, <1>4, <3>1, <3>3, <4>1
    <3>4. CASE c # p /\ d # p
      <4>1. c \in Live /\ d \in Live /\ c \in Chunk \ {p} /\ d \in Chunk \ {p}
        BY <1>5, <3>4 DEF Live
      <4>2. EndOf(c) <= locations[d].offset \/ EndOf(d) <= locations[c].offset
        BY <2>2, <4>1 DEF LayoutOK
      <4> QED
        BY <1>2, <1>4, <4>1, <4>2
    <3> QED
      BY <3>2, <3>3, <3>4
  <2> QED
    BY <2>1, <2>2 DEF LayoutOK
<1> QED
  BY <1>2, <1>3, <1>4, <1>5, <1>6

\* An entry that is cleared.
LEMMA ClearKeepsApart ==
  ASSUME IInv, LayoutOK, NEW p \in Chunk, ClearEntry(p), fsize' = fsize
  PROVE  /\ LayoutOK' /\ Live' = Live \ {p}
         /\ \A c \in Chunk \ {p} :
               /\ locations'[c] = locations[c] /\ timestamps'[c] = timestamps[c]
               /\ EndOf(c)' = EndOf(c) /\ (ContainsChunk(c)' <=> ContainsChunk(c))
<1>1. /\ locations \in [Chunk -> Location] /\ timestamps \in [Chunk -> Nat]
  BY DEF IInv, TypeOK, FileTypeOK
<1>2. /\ locations'[p] = [offset |-> 0, sector_count |-> 0]
      /\ \A c \in Chunk \ {p} : locations'[c] = locations[c] /\ timestamps'[c] = timestamps[c]
  BY <1>1 DEF ClearEntry, SetEntry
<1>3. ~ContainsChunk(p)'
  BY <1>2 DEF ContainsChunk
<1>4. \A c \in Chunk \ {p} : EndOf(c)' = EndOf(c) /\ (ContainsChunk(c)' <=> ContainsChunk(c))
  BY <1>2 DEF EndOf, ContainsChunk
<1>5. Live' = Live \ {p}
  BY <1>3, <1>4 DEF Live
<1>6. \A c \in Live' : c \in Live /\ locations'[c] = locations[c] /\ EndOf(c)' = EndOf(c)
  BY <1>2, <1>4, <1>5 DEF Live
<1>7. LayoutOK'
  BY <1>6 DEF LayoutOK
<1> QED
  BY <1>2, <1>4, <1>5, <1>7

-----------------------------------------------------------------------------
(* The parts of the invariant that a step does not concern.                *)

\* Each part but Careful and LayoutOK speaks of some steps only.
LEMMA Quiet ==
  /\ pc' \notin {"size", "place", "placeData"} => Placing'
  /\ pc' # "classify" => Sorting'
  /\ pc' \notin {"shrink", "shrinkMove", "shrinkEntry", "shrinkData"} => InShrinks'
  /\ pc' # "resize" => Resizing'
  /\ pc' \notin {"grow", "growMove", "growEntry", "growData"} => InGrows'
  BY DEF Placing, Sorting, InShrinks, Resizing, InGrows

\* A step that adds no write and does not fail.
LEMMA StillCareful ==
  ASSUME Careful, UNCHANGED <<status, ragged, cached_writes>>
  PROVE  Careful' /\ \A k : Space(k)' = Space(k)
  BY DEF Careful, CarefulWrite, Space

-----------------------------------------------------------------------------
(* The shrinking pass.                                                     *)

\* What ShrinkLayout says of the write that is taken next.
LEMMA NextShrink ==
  ASSUME IInv, Careful, LayoutOK, NEW r \in Int, NEW w \in Int, NEW g,
         HeadsShrinks(g), ShrinkLayout(shrinks, r, w)
  PROVE  /\ g \in shrinks /\ g.write \in ChunkWrite /\ g.write.pos \in Live
         /\ g.write.pos \in Chunk
         /\ g.order \in Int /\ g.order = locations[g.write.pos].offset
         /\ HeaderSectors <= w /\ w <= r /\ r <= g.order /\ g.order <= fsize
         /\ \A c \in Live :
               \/ EndOf(c) <= w
               \/ locations[c].offset >= r /\ EndOf(c) <= g.order
               \/ locations[c].offset >= g.order
         /\ \A h \in shrinks : h.order >= g.order
<1>1. g \in shrinks
  BY DEF HeadsShrinks
<1>2. g.write \in ChunkWrite /\ g.order \in Int /\ g.write.pos \in Chunk
  BY <1>1, ListedFields
<1>3. /\ g.write.pos \in Live /\ g.order = locations[g.write.pos].offset /\ g.order >= r
      /\ w <= r /\ HeaderSectors <= w
  BY <1>1 DEF ShrinkLayout, ShrinksFit
<1>4. EndOf(g.write.pos) <= fsize /\ EndOf(g.write.pos) > g.order /\ EndOf(g.write.pos) \in Int
  BY <1>2, <1>3, Extent DEF LayoutOK
<1>5. g.order <= fsize
  BY <1>2, <1>4 DEF IInv, TypeOK, FileTypeOK
<1>6. ASSUME NEW c \in Live
      PROVE  \/ EndOf(c) <= w
             \/ locations[c].offset >= r /\ EndOf(c) <= g.order
             \/ locations[c].offset >= g.order
  <2>1. c \in Chunk /\ locations[c].offset \in Int /\ EndOf(c) \in Int
    BY Extent DEF Live
  <2>2. EndOf(c) <= w \/ locations[c].offset >= r
    BY DEF ShrinkLayout
  <2>3. CASE c = g.write.pos
    BY <1>2, <1>3, <2>3
  <2>4. CASE c # g.write.pos
    <3>1. EndOf(c) <= locations[g.write.pos].offset \/ EndOf(g.write.pos) <= locations[c].offset
      BY <1>3, <2>4 DEF LayoutOK
    <3> QED
      BY <1>2, <1>3, <1>4, <2>1, <2>2, <3>1
  <2> QED
    BY <2>3, <2>4
<1>7. ASSUME NEW h \in shrinks PROVE h.order >= g.order
  <2>1. h.order \in Int
    BY ListedFields
  <2>2. g.order < h.order \/ g.order = h.order
    BY DEF HeadsShrinks
  <2> QED
    BY <1>2, <2>1, <2>2
<1> QED
  BY <1>1, <1>2, <1>3, <1>5, <1>6, <1>7

\* The assertions at region.c:521-523 hold.
LEMMA ShrinkGoesOn ==
  ASSUME IInv, Layout, NEW g, ShrinkAbort(g)
  PROVE  FALSE
<1>1. pc = "shrink" /\ HeadsShrinks(g) /\ (ShrinkGap(g) < 0 \/ read_head < write_head)
  BY DEF ShrinkAbort, Shrinking
<1>2. ShrinkLayout(shrinks, read_head, write_head)
  BY <1>1 DEF Layout, InShrinks
<1>3. read_head \in Int /\ write_head \in Int
  BY DEF IInv, TypeOK, FlushTypeOK
<1>4. /\ g.order \in Int /\ g.order = locations[g.write.pos].offset
      /\ write_head <= read_head /\ read_head <= g.order
  BY <1>1, <1>2, <1>3, NextShrink DEF Layout
<1>5. ShrinkGap(g) = g.order - read_head
  BY <1>4 DEF ShrinkGap
<1> QED
  BY <1>1, <1>3, <1>4, <1>5

\* What the shift of the table, for the chunk of g at sector o, does to the entries: those
\* between the heads r and o move by `by', the others stay.
EntriesMoveDown(g, r, w, o, by) ==
    /\ g \in shrinks /\ g.write.pos \in Live /\ g.write.pos \in Chunk
    /\ o = locations[g.write.pos].offset /\ ShrinkGap(g) = o - r
    /\ HeaderSectors \in Int /\ HeaderSectors <= w /\ w <= r /\ r <= o /\ o <= fsize
    /\ \A h \in shrinks : h.order >= o
    /\ Live' = Live
    /\ \A c \in Chunk : /\ locations'[c].sector_count = locations[c].sector_count
                        /\ ContainsChunk(c)' <=> ContainsChunk(c)
    /\ \A c, d \in Live : c # d => EndOf(c)' <= locations'[d].offset
                                   \/ EndOf(d)' <= locations'[c].offset
    /\ \A c, d \in Live : locations'[c].offset < locations'[d].offset
                          <=> locations[c].offset < locations[d].offset
    /\ \A c \in Live :
          /\ locations[c].offset \in Int /\ EndOf(c) \in Int
          /\ EndOf(c) > locations[c].offset
          /\ \/ /\ EndOf(c) <= w
                /\ locations'[c].offset = locations[c].offset /\ EndOf(c)' = EndOf(c)
             \/ /\ locations[c].offset >= r /\ EndOf(c) <= o
                /\ locations'[c].offset = locations[c].offset + by
                /\ EndOf(c)' = EndOf(c) + by
             \/ /\ locations[c].offset >= o
                /\ locations'[c].offset = locations[c].offset /\ EndOf(c)' = EndOf(c)

\* Shifting the entries in front of the next chunk, at o, moves what lies there by as
\* much as the heads are apart, and nothing else.
LEMMA ShrinkShifted ==
  ASSUME IInv, Layout, NEW g, ShrinkShift(g), NEW r \in Int, NEW w \in Int, NEW o \in Int,
         NEW by \in Int, r = read_head, w = write_head, o = g.order, by = w - r
  PROVE  EntriesMoveDown(g, r, w, o, by)
<1>1. /\ pc = "shrink" /\ HeadsShrinks(g)
      /\ ShiftLocations(read_head, read_head + ShrinkGap(g), write_head - read_head)
      /\ pc' = "shrinkMove"
      /\ UNCHANGED <<fsize, ragged, timestamps, sectors, handle, cell, plan, heads,
                     closing, status>>
  BY DEF ShrinkShift, Shrinking
<1>2. Careful /\ LayoutOK /\ ShrinkLayout(shrinks, read_head, write_head)
  BY <1>1 DEF Layout, InShrinks
<1>3. HeaderSectors \in Int
  BY DEF HeaderSectors
<1>4. ShrinkLayout(shrinks, r, w)
  BY <1>2
<1>5. /\ g \in shrinks /\ g.write.pos \in Live /\ g.write.pos \in Chunk
      /\ g.order \in Int /\ g.order = locations[g.write.pos].offset
      /\ HeaderSectors <= w /\ w <= r /\ r <= g.order /\ g.order <= fsize
      /\ \A c \in Live :
            \/ EndOf(c) <= w
            \/ locations[c].offset >= r /\ EndOf(c) <= g.order
            \/ locations[c].offset >= g.order
      /\ \A h \in shrinks : h.order >= g.order
  BY <1>1, <1>2, <1>4, NextShrink
<1>6. ShrinkGap(g) = o - r /\ ShiftLocations(r, o, by)
  <2>1. ShrinkGap(g) = o - r
    BY <1>5 DEF ShrinkGap
  <2>2. r + (o - r) = o
    OBVIOUS
  <2> QED
    BY <1>1, <2>1, <2>2
<1>7. ASSUME NEW c \in Live
      PROVE  \/ EndOf(c) <= r /\ EndOf(c) <= r + by
             \/ locations[c].offset >= r /\ EndOf(c) <= o
             \/ locations[c].offset >= o /\ locations[c].offset >= o + by
  <2>1. locations[c].offset \in Int /\ EndOf(c) \in Int
    BY Extent DEF Live
  <2>2. \/ EndOf(c) <= w
        \/ locations[c].offset >= r /\ EndOf(c) <= o
        \/ locations[c].offset >= o
    BY <1>5
  <2>3. w <= r
    BY <1>5
  <2> QED
    BY <2>1, <2>2, <2>3
<1>8. /\ Live' = Live
      /\ \A c \in Chunk : /\ locations'[c].sector_count = locations[c].sector_count
                          /\ ContainsChunk(c)' <=> ContainsChunk(c)
      /\ \A c \in Live :
            LET moved == locations[c].offset >= r /\ EndOf(c) <= o
            IN  /\ locations'[c].offset = locations[c].offset + (IF moved THEN by ELSE 0)
                /\ EndOf(c)' = EndOf(c) + (IF moved THEN by ELSE 0)
      /\ \A c, d \in Live : c # d => EndOf(c)' <= locations'[d].offset
                                     \/ EndOf(d)' <= locations'[c].offset
      /\ \A c, d \in Live : locations'[c].offset < locations'[d].offset
                            <=> locations[c].offset < locations[d].offset
  <2>1. r >= HeaderSectors /\ r + by >= HeaderSectors
    BY <1>3, <1>5
  <2>2. IInv /\ LayoutOK /\ ShiftLocations(r, o, by) /\ timestamps' = timestamps
    BY <1>1, <1>2, <1>6
  <2> QED
    BY <1>7, <2>1, <2>2, ShiftKeepsApart, SMTT(60)
<1>9. \A c \in Live :
          /\ locations[c].offset \in Int /\ EndOf(c) \in Int /\ EndOf(c) > locations[c].offset
          /\ \/ /\ EndOf(c) <= w
                /\ locations'[c].offset = locations[c].offset /\ EndOf(c)' = EndOf(c)
             \/ /\ locations[c].offset >= r /\ EndOf(c) <= o
                /\ locations'[c].offset = locations[c].offset + by /\ EndOf(c)' = EndOf(c) + by
             \/ /\ locations[c].offset >= o
                /\ locations'[c].offset = locations[c].offset /\ EndOf(c)' = EndOf(c)
  <2> SUFFICES ASSUME NEW c \in Live
               PROVE  /\ locations[c].offset \in Int /\ EndOf(c) \in Int
                      /\ EndOf(c) > locations[c].offset
                      /\ \/ /\ EndOf(c) <= w
                            /\ locations'[c].offset = locations[c].offset /\ EndOf(c)' = EndOf(c)
                         \/ /\ locations[c].offset >= r /\ EndOf(c) <= o
                            /\ locations'[c].offset = locations[c].offset + by
                            /\ EndOf(c)' = EndOf(c) + by
                         \/ /\ locations[c].offset >= o
                            /\ locations'[c].offset = locations[c].offset /\ EndOf(c)' = EndOf(c)
    OBVIOUS
  <2>1. locations[c].offset \in Int /\ EndOf(c) \in Int /\ EndOf(c) > locations[c].offset
    BY Extent DEF Live
  <2>2. \/ EndOf(c) <= w
        \/ locations[c].offset >= r /\ EndOf(c) <= o
        \/ locations[c].offset >= o
    BY <1>5
  <2>3. w <= r
    BY <1>5
  <2>4. /\ locations'[c].offset = locations[c].offset
                + (IF locations[c].offset >= r /\ EndOf(c) <= o THEN by ELSE 0)
        /\ EndOf(c)' = EndOf(c) + (IF locations[c].offset >= r /\ EndOf(c) <= o THEN by ELSE 0)
    BY <1>8
  <2> QED
    BY <2>1, <2>2, <2>3, <2>4
<1> QED
  BY <1>3, <1>5, <1>6, <1>8, <1>9 DEF EntriesMoveDown

\* The entries in front of the next chunk are shifted (region.c:526-539).
LEMMA ShrinkShiftLayout ==
  ASSUME IInv, Layout, NEW g, ShrinkShift(g)
  PROVE  Layout'
<1>1. /\ pc = "shrink" /\ HeadsShrinks(g)
      /\ ShiftLocations(read_head, read_head + ShrinkGap(g), write_head - read_head)
      /\ pc' = "shrinkMove"
      /\ UNCHANGED <<fsize, ragged, timestamps, sectors, handle, cell, plan, heads,
                     closing, status>>
  BY DEF ShrinkShift, Shrinking
<1>2. Careful /\ LayoutOK /\ ShrinkLayout(shrinks, read_head, write_head)
  BY <1>1 DEF Layout, InShrinks
<1>3. PICK r, w \in Int : r = read_head /\ w = write_head
  BY DEF IInv, TypeOK, FlushTypeOK
<1>4. ShrinkLayout(shrinks, r, w)
  BY <1>2, <1>3
<1>5. g.order \in Int
  BY <1>1, <1>2, ListedFields DEF HeadsShrinks
<1>6. PICK o, by \in Int : o = g.order /\ by = w - r
  BY <1>5
<1>7. /\ g \in shrinks /\ g.write.pos \in Live /\ g.write.pos \in Chunk
      /\ o = locations[g.write.pos].offset /\ ShrinkGap(g) = o - r
      /\ HeaderSectors \in Int /\ HeaderSectors <= w /\ w <= r /\ r <= o /\ o <= fsize
      /\ \A h \in shrinks : h.order >= o
      /\ Live' = Live
      /\ \A c \in Chunk : /\ locations'[c].sector_count = locations[c].sector_count
                          /\ ContainsChunk(c)' <=> ContainsChunk(c)
      /\ \A c, d \in Live : c # d => EndOf(c)' <= locations'[d].offset
                                     \/ EndOf(d)' <= locations'[c].offset
      /\ \A c, d \in Live : locations'[c].offset < locations'[d].offset
                            <=> locations[c].offset < locations[d].offset
      /\ \A c \in Live :
            /\ locations[c].offset \in Int /\ EndOf(c) \in Int
            /\ EndOf(c) > locations[c].offset
            /\ \/ /\ EndOf(c) <= w
                  /\ locations'[c].offset = locations[c].offset /\ EndOf(c)' = EndOf(c)
               \/ /\ locations[c].offset >= r /\ EndOf(c) <= o
                  /\ locations'[c].offset = locations[c].offset + by
                  /\ EndOf(c)' = EndOf(c) + by
               \/ /\ locations[c].offset >= o
                  /\ locations'[c].offset = locations[c].offset /\ EndOf(c)' = EndOf(c)
  <2>1. EntriesMoveDown(g, r, w, o, by)
    BY <1>3, <1>6, ShrinkShifted
  <2> QED
    BY <2>1 DEF EntriesMoveDown
<1>8. PICK S : S = shrinks
  OBVIOUS
<1>9. shrinks' = S /\ grows' = grows /\ sectors_added' = sectors_added
       /\ new_fsize' = new_fsize /\ read_head' = r /\ write_head' = w
  BY <1>1, <1>3, <1>8 DEF plan, heads
<1>10. /\ \A h \in S : h.write.pos \in Chunk /\ h.order \in Int
       /\ \A h \in grows : h.write.pos \in Chunk /\ h.order \in Int
  BY <1>2, <1>8, ListedFields
<1>11. /\ \A h \in S : Frees(h.write)' = Frees(h.write)
       /\ FreesOf(S)' = FreesOf(S)
  BY <1>7, <1>10, SameSums
<1>12. /\ \A h \in grows : Growth(h.write)' = Growth(h.write)
       /\ [h \in grows |-> Growth(h.write)]' = [h \in grows |-> Growth(h.write)]
  <2>1. \A h \in grows : Growth(h.write)' = Growth(h.write)
    BY <1>7, <1>10 DEF Growth
  <2> QED
    BY <1>9, <2>1
<1>13. LayoutOK'
  <2>1. ASSUME NEW c \in Live
        PROVE  locations'[c].offset >= HeaderSectors /\ EndOf(c)' <= fsize
    <3>1. locations[c].offset >= HeaderSectors /\ EndOf(c) <= fsize
      BY <1>2 DEF LayoutOK
    <3>2. fsize \in Int
      BY DEF IInv, TypeOK, FileTypeOK
    <3> QED
      BY <1>5, <1>6, <1>7, <3>1, <3>2
  <2> QED
    BY <1>1, <1>7, <2>1 DEF LayoutOK
<1>14. ShrinksFit(S)' /\ \A h \in S : h.order >= o
  <2>1. ASSUME NEW h \in S
        PROVE  /\ h.write.pos \in Live /\ h.order = locations'[h.write.pos].offset
               /\ h.order >= o /\ Frees(h.write)' >= 0
    <3>1. /\ h.write.pos \in Live /\ h.order = locations[h.write.pos].offset
          /\ Frees(h.write) >= 0 /\ h.order >= o
      BY <1>4, <1>5, <1>6, <1>7, <1>8 DEF ShrinkLayout, ShrinksFit
    <3>2. locations'[h.write.pos].offset = locations[h.write.pos].offset
      BY <1>7, <3>1
    <3> QED
      BY <1>11, <3>1, <3>2
  <2> QED
    BY <1>7, <2>1 DEF ShrinksFit
<1>15. ASSUME NEW c \in Live, locations'[c].offset >= o,
              \A h \in S : h.order < locations'[c].offset
       PROVE  EndOf(c)' <= new_fsize - FreesOf(S)
  <2>1. locations'[c].offset = locations[c].offset /\ EndOf(c)' = EndOf(c)
    BY <1>5, <1>6, <1>7, <1>15
  <2> QED
    BY <1>4, <1>5, <1>6, <1>7, <1>8, <1>15, <2>1 DEF ShrinkLayout
<1>16. \A c \in Live : EndOf(c)' <= w + (o - r) \/ locations'[c].offset >= o
  BY <1>5, <1>6, <1>7
<1>17. w + (o - r) <= o /\ o <= fsize /\ o - (w + (o - r)) = fsize - new_fsize
       /\ w + (o - r) >= HeaderSectors
  <2>1. r - w = fsize - new_fsize
    BY <1>4 DEF ShrinkLayout
  <2> QED
    BY <1>5, <1>6, <1>7, <2>1
<1>18. ShrinkLayout(S, o, w + (o - r))'
  BY <1>1, <1>7, <1>9, <1>11, <1>14, <1>15, <1>16, <1>17 DEF ShrinkLayout
<1>19. ShrinkGap(g)' = o - r
  <2>1. locations'[g.write.pos].offset = o
    BY <1>5, <1>6, <1>7
  <2> QED
    BY <1>9, <2>1 DEF ShrinkGap
<1>20. InShrinks'
  <2>1. HeadsShrinks(g)'
    BY <1>1, <1>8, <1>9 DEF HeadsShrinks
  <2>2. ShiftedDown(g)'
    <3>1. \A c \in Live' : EndOf(c)' <= write_head' \/ locations'[c].offset >= write_head'
      BY <1>5, <1>6, <1>7, <1>9
    <3>2. ShrinkGap(g)' >= 0 /\ write_head' >= HeaderSectors
      BY <1>5, <1>6, <1>7, <1>9, <1>19
    <3>3. ShrinkLayout(shrinks, g.order, write_head + ShrinkGap(g))'
      BY <1>6, <1>9, <1>18, <1>19 DEF ShrinkLayout, ShrinksFit, FreesOf
    <3> QED
      BY <3>1, <3>2, <3>3 DEF ShiftedDown
  <2> QED
    BY <1>1, <1>5, <1>7, <1>8, <1>9, <2>1, <2>2 DEF InShrinks
<1>21. Lists'
  <2>1. sectors_added = GrowthOf(grows) /\ GrowsFit(grows) /\ S \cap grows = {}
    BY <1>1, <1>8 DEF Layout, Lists
  <2>2. GrowthOf(grows)' = GrowthOf(grows)
    BY <1>12 DEF GrowthOf
  <2>3. GrowsFit(grows)'
    BY <1>7, <1>9, <1>12, <2>1 DEF GrowsFit
  <2> QED
    BY <1>1, <1>9, <2>1, <2>2, <2>3 DEF Lists
<1>22. Careful'
  BY <1>1, <1>2, StillCareful DEF handle
<1> QED
  BY <1>1, <1>13, <1>20, <1>21, <1>22, Quiet DEF Layout

\* What a step of the shrinking pass leaves alone: the writes that grow wait.
LEMMA GrowsWait ==
  ASSUME IInv, Layout,
         pc \in {"shrink", "shrinkMove", "shrinkEntry", "shrinkData"},
         pc' \in {"shrink", "shrinkMove", "shrinkEntry", "shrinkData", "resize"},
         UNCHANGED <<status, ragged, cached_writes, grows, sectors_added>>,
         shrinks' \subseteq shrinks, pc' = "resize" => shrinks' = {},
         \A h \in grows : /\ locations'[h.write.pos] = locations[h.write.pos]
                          /\ h.write.pos \in Live' <=> h.write.pos \in Live
                          /\ ContainsChunk(h.write.pos)' <=> ContainsChunk(h.write.pos)
  PROVE  Careful' /\ Lists' /\ Placing' /\ Sorting' /\ InGrows'
<1>1. sectors_added = GrowthOf(grows) /\ GrowsFit(grows) /\ shrinks \cap grows = {}
  BY DEF Layout, Lists
<1>2. /\ \A h \in grows : Growth(h.write)' = Growth(h.write)
      /\ GrowthOf(grows)' = GrowthOf(grows)
  <2>1. \A h \in grows : Growth(h.write)' = Growth(h.write)
    BY DEF Growth
  <2>2. [h \in grows |-> Growth(h.write)]' = [h \in grows |-> Growth(h.write)]
    BY <2>1
  <2> QED
    BY <2>1, <2>2 DEF GrowthOf
<1>3. GrowsFit(grows)'
  BY <1>1, <1>2 DEF GrowsFit
<1>4. Lists'
  BY <1>1, <1>2, <1>3 DEF Lists
<1>5. Careful'
  BY StillCareful DEF Layout
<1> QED
  BY <1>4, <1>5, Quiet

\* The next chunk starts where the read head gets to, inside the file.
LEMMA ShrinkMoveInside ==
  ASSUME IInv, Layout, NEW g, ShrinkMoveFault(g)
  PROVE  FALSE
<1>1. pc = "shrinkMove" /\ HeadsShrinks(g) /\ read_head + ShrinkGap(g) > fsize
  BY DEF ShrinkMoveFault, Shrinking
<1>2. ShiftedDown(g)
  BY <1>1, OneHead DEF Layout, InShrinks
<1>3. g \in shrinks /\ g.write.pos \in Chunk /\ g.order \in Int
  BY <1>1, ListedFields DEF HeadsShrinks, Layout
<1>4. g.order = locations[g.write.pos].offset /\ g.order <= fsize
  BY <1>2, <1>3 DEF ShiftedDown, ShrinkLayout, ShrinksFit
<1>5. read_head \in Int /\ fsize \in Int
  BY DEF IInv, TypeOK, FlushTypeOK, FileTypeOK
<1> QED
  BY <1>1, <1>3, <1>4, <1>5 DEF ShrinkGap

\* No move and no store of the two passes reaches the tables: the heads are behind
\* them.
LEMMA TablesKept ==
  ASSUME IInv, Layout, NEW g,
         ShrinkMove(g) \/ ShrinkData(g) \/ GrowMove(g) \/ GrowData(g)
  PROVE  UNCHANGED <<locations, timestamps>>
<1>1. g \in shrinks \cup grows
  BY DEF ShrinkMove, ShrinkData, GrowMove, GrowData, Shrinking, Growing, HeadsShrinks,
         HeadsGrows
<1>2. g.write \in ChunkWrite /\ g.write.pos \in Chunk
  BY <1>1, ListedFields DEF Layout
<1>3. SectorsFor(g.write.length) \in Int
  BY <1>2, WriteFields
<1>4. write_head \in Int /\ read_head \in Int
  BY DEF IInv, TypeOK, FlushTypeOK
<1>5. ShrinkGap(g) \in Int /\ GrowEnd(g) \in Int /\ GrowGap(g) \in Int
  BY <1>2, <1>4, Entries DEF ShrinkGap, GrowEnd, GrowGap
<1>6. ASSUME ShrinkData(g) \/ GrowData(g), EntryAtHead(g.write)
      PROVE  UNCHANGED <<locations, timestamps>>
  <2>1. g.write.pos \in Live /\ locations[g.write.pos].offset = write_head
    BY <1>6 DEF EntryAtHead
  <2>2. write_head >= HeaderSectors
    BY <2>1 DEF Layout, LayoutOK
  <2>3. StoreTables(write_head, SectorsFor(g.write.length))
    BY <1>6 DEF ShrinkData, GrowData
  <2> QED
    BY <1>3, <1>4, <2>2, <2>3, StoreBehindTables
<1>7. CASE ShrinkMove(g)
  <2>1. pc = "shrinkMove" /\ HeadsShrinks(g) /\ StoreTables(write_head, ShrinkGap(g))
    BY <1>7 DEF ShrinkMove, Shrinking
  <2>2. write_head >= HeaderSectors
    BY <2>1, OneHead DEF Layout, InShrinks, ShiftedDown
  <2> QED
    BY <1>4, <1>5, <2>1, <2>2, StoreBehindTables
<1>8. CASE ShrinkData(g)
  <2>1. pc = "shrinkData" /\ HeadsShrinks(g)
    BY <1>8 DEF ShrinkData, Shrinking
  <2>2. EntryAtHead(g.write)
    BY <2>1, OneHead DEF Layout, InShrinks
  <2> QED
    BY <1>6, <1>8, <2>2
<1>9. CASE GrowMove(g)
  <2>1. /\ pc = "growMove" /\ HeadsGrows(g)
        /\ StoreTables(write_head - GrowGap(g), GrowGap(g))
    BY <1>9 DEF GrowMove, Growing
  <2>2. ShiftedUp(g)
    BY <2>1, OneHead DEF Layout, InGrows
  <2>3. HeaderSectors <= GrowEnd(g) /\ GrowEnd(g) <= write_head - GrowGap(g)
    BY <2>2 DEF ShiftedUp, GrowLayout
  <2>4. write_head - GrowGap(g) \in Int /\ write_head - GrowGap(g) >= HeaderSectors
    BY <1>4, <1>5, <2>3 DEF HeaderSectors
  <2> QED
    BY <1>5, <2>1, <2>4, StoreBehindTables
<1>10. CASE GrowData(g)
  <2>1. pc = "growData" /\ HeadsGrows(g)
    BY <1>10 DEF GrowData, Growing
  <2>2. EntryAtHead(g.write)
    BY <2>1, OneHead DEF Layout, InGrows
  <2> QED
    BY <1>6, <1>10, <2>2
<1> QED
  BY <1>7, <1>8, <1>9, <1>10

\* The bytes in front of the next chunk are moved, and the heads follow.
LEMMA ShrinkMoveLayout ==
  ASSUME IInv, Layout, NEW g, ShrinkMove(g)
  PROVE  Layout'
<1>1. /\ pc = "shrinkMove" /\ HeadsShrinks(g)
      /\ read_head' = read_head + ShrinkGap(g) /\ write_head' = write_head + ShrinkGap(g)
      /\ pc' = "shrinkEntry"
      /\ UNCHANGED <<fsize, ragged, locations, timestamps, handle, cell, plan,
                     closing, status>>
  BY TablesKept DEF ShrinkMove, Shrinking
<1>2. UNCHANGED <<status, ragged, cached_writes, grows, sectors_added, shrinks, new_fsize>>
  BY <1>1 DEF handle, plan
<1>3. ShiftedDown(g)
  BY <1>1, OneHead DEF Layout, InShrinks
<1>4. g \in shrinks /\ g.write.pos \in Chunk /\ g.order \in Int
  BY <1>1, ListedFields DEF HeadsShrinks, Layout
<1>5. g.order = locations[g.write.pos].offset
  BY <1>3, <1>4 DEF ShiftedDown, ShrinkLayout, ShrinksFit
<1>6. read_head' = g.order
  <2>1. read_head \in Int
    BY DEF IInv, TypeOK, FlushTypeOK
  <2> QED
    BY <1>1, <1>4, <1>5, <2>1 DEF ShrinkGap
<1>7. ShrinkLayout(shrinks, read_head, write_head)'
  <2>1. PICK S, r, w : S = shrinks /\ r = g.order /\ w = write_head + ShrinkGap(g)
    OBVIOUS
  <2>2. ShrinkLayout(S, r, w)'
    BY <1>1, <1>2, <1>3, <2>1, SameTables DEF ShiftedDown
  <2> QED
    BY <1>1, <1>2, <1>6, <2>1, <2>2 DEF ShrinkLayout
<1>8. InShrinks'
  BY <1>1, <1>2, <1>4, <1>6, <1>7 DEF InShrinks, HeadsShrinks
<1>9. Careful' /\ Lists' /\ Placing' /\ Sorting' /\ InGrows'
  BY <1>1, <1>2, GrowsWait, SameTables
<1>10. LayoutOK'
  BY <1>1, SameTables DEF Layout
<1> QED
  BY <1>1, <1>8, <1>9, <1>10, Quiet DEF Layout

\* With the read head at a chunk p that shrinks, old sectors long, the others are
\* behind its end or done, and the writes still to be taken are of others.
Beside(g, p, old, r, w) ==
    /\ g \in shrinks /\ g.write \in ChunkWrite /\ p \in Live /\ p \in Chunk
    /\ old \in Nat /\ old # 0 /\ locations[p].offset = r /\ r + old <= fsize
    /\ HeaderSectors <= w /\ w <= r /\ r - w = fsize - new_fsize
    /\ Frees(g.write) \in Nat
    /\ \A c \in Live \ {p} : EndOf(c) <= w \/ locations[c].offset >= r + old
    /\ \A h \in shrinks \ {g} :
          /\ h.write.pos \in Live \ {p} /\ h.order = locations[h.write.pos].offset
          /\ Frees(h.write) >= 0 /\ h.order >= r + old
    /\ \A h \in grows : h.write.pos \in Chunk \ {p}
    /\ FreesOf(shrinks \ {g}) \in Int
    /\ \A c \in Live \ {p} :
          locations[c].offset >= r + old
          /\ (\A h \in shrinks \ {g} : h.order < locations[c].offset)
          => EndOf(c) <= new_fsize - Frees(g.write) - FreesOf(shrinks \ {g})

\* So it is at the entry of a shrinking chunk.
LEMMA AroundShrink ==
  ASSUME IInv, Layout, pc = "shrinkEntry", NEW g, HeadsShrinks(g),
         NEW r \in Int, NEW w \in Int, NEW p, NEW old,
         r = read_head, w = write_head, p = g.write.pos, old = locations[p].sector_count
  PROVE  Beside(g, p, old, r, w)
<1>1. Careful /\ LayoutOK /\ ShrinkLayout(shrinks, r, w)
  BY DEF Layout, InShrinks
<1>2. /\ g \in shrinks /\ g.write \in ChunkWrite /\ p \in Live /\ p \in Chunk
      /\ g.order \in Int /\ g.order = locations[p].offset
      /\ HeaderSectors <= w /\ w <= r
  BY <1>1, NextShrink
<1>3. g.order = r
  BY OneHead DEF Layout, InShrinks
<1>4. /\ old \in Nat /\ EndOf(p) = r + old /\ old # 0 /\ r + old <= fsize
  BY <1>1, <1>2, <1>3, Extent DEF LayoutOK
<1>5. r - w = fsize - new_fsize /\ Frees(g.write) >= 0
  BY <1>1, <1>2 DEF ShrinkLayout, ShrinksFit
<1>6. Frees(g.write) \in Nat
  BY <1>1, <1>2, <1>5, ListedFields
<1>7. ASSUME NEW c \in Live \ {p} PROVE EndOf(c) <= w \/ locations[c].offset >= r + old
  <2>1. /\ locations[c].offset \in Int /\ EndOf(c) \in Int /\ EndOf(c) > locations[c].offset
    BY Extent DEF Live
  <2>2. EndOf(c) <= w \/ locations[c].offset >= r
    BY <1>1 DEF ShrinkLayout
  <2>3. EndOf(c) <= r \/ r + old <= locations[c].offset
    BY <1>1, <1>2, <1>3, <1>4 DEF LayoutOK
  <2> QED
    BY <1>2, <1>4, <2>1, <2>2, <2>3
<1>8. \A h \in shrinks \cup grows : h # g => h.write.pos \in Chunk /\ h.write.pos # p
  BY <1>2, OtherChunks
<1>9. ASSUME NEW h \in shrinks \ {g}
      PROVE  /\ h.write.pos \in Live \ {p} /\ h.order = locations[h.write.pos].offset
             /\ Frees(h.write) >= 0 /\ h.order >= r + old
  <2>1. /\ h.write.pos \in Live /\ h.order = locations[h.write.pos].offset
        /\ Frees(h.write) >= 0 /\ h.order >= r
    BY <1>1 DEF ShrinkLayout, ShrinksFit
  <2>2. h.write.pos # p
    BY <1>8
  <2>3. /\ locations[h.write.pos].offset \in Int /\ EndOf(h.write.pos) \in Int
        /\ EndOf(h.write.pos) > locations[h.write.pos].offset
    BY <2>1, Extent DEF Live
  <2>4. EndOf(h.write.pos) <= w \/ locations[h.write.pos].offset >= r + old
    BY <1>7, <2>1, <2>2
  <2> QED
    BY <1>2, <2>1, <2>2, <2>3, <2>4
<1>10. \A h \in grows : h.write.pos \in Chunk \ {p}
  BY <1>2, <1>8 DEF Layout, Lists
<1>11. /\ FreesOf(shrinks) \in Int /\ FreesOf(shrinks \ {g}) \in Int
       /\ FreesOf(shrinks) = Frees(g.write) + FreesOf(shrinks \ {g})
  BY <1>1, <1>2, FreesWithout
<1>12. ASSUME NEW c \in Live \ {p}, locations[c].offset >= r + old,
              \A h \in shrinks \ {g} : h.order < locations[c].offset
       PROVE  EndOf(c) <= new_fsize - Frees(g.write) - FreesOf(shrinks \ {g})
  <2>1. locations[c].offset \in Int /\ EndOf(c) \in Int
    BY Extent DEF Live
  <2>2. locations[c].offset >= r /\ locations[c].offset > r
    BY <1>4, <1>12, <2>1
  <2>3. \A h \in shrinks : h.order < locations[c].offset
    BY <1>3, <1>12, <2>2
  <2>4. EndOf(c) <= new_fsize - FreesOf(shrinks)
    BY <1>1, <2>2, <2>3 DEF ShrinkLayout
  <2>5. new_fsize \in Int
    BY DEF IInv, TypeOK, FlushTypeOK
  <2> QED
    BY <1>6, <1>11, <2>1, <2>4, <2>5
<1> QED
  BY <1>2, <1>3, <1>4, <1>5, <1>6, <1>7, <1>9, <1>10, <1>11, <1>12 DEF Beside

\* A chunk is deleted (region.c:548-553): the read head passes over it.
LEMMA ShrinkDeleteLayout ==
  ASSUME IInv, Layout, NEW g, ShrinkDelete(g)
  PROVE  Layout'
<1>1. PICK p, old : p = g.write.pos /\ old = locations[p].sector_count
  OBVIOUS
<1>2. PICK r, w \in Int : r = read_head /\ w = write_head
  BY DEF IInv, TypeOK, FlushTypeOK
<1>3. /\ pc = "shrinkEntry" /\ HeadsShrinks(g) /\ g.write.data = NoData
      /\ ClearEntry(p) /\ read_head' = r + old /\ write_head' = w
      /\ new_fsize' = new_fsize - old
      /\ shrinks' = shrinks \ {g} /\ pc' = "shrink"
      /\ UNCHANGED <<fsize, ragged, cached_writes, grows, sectors_added, status>>
  BY <1>1, <1>2 DEF ShrinkDelete, Shrinking, handle
<1>4. Beside(g, p, old, r, w)
  BY <1>1, <1>2, <1>3, AroundShrink
<1>5. /\ LayoutOK' /\ Live' = Live \ {p}
      /\ \A c \in Chunk \ {p} :
            /\ locations'[c] = locations[c] /\ timestamps'[c] = timestamps[c]
            /\ EndOf(c)' = EndOf(c) /\ (ContainsChunk(c)' <=> ContainsChunk(c))
  BY <1>3, <1>4, ClearKeepsApart DEF Layout, Beside
<1>6. Live \subseteq Chunk
  BY DEF Live
<1>7. PICK S : S = shrinks \ {g}
  OBVIOUS
<1>8. \A h \in S : h.write.pos \in Chunk \ {p}
  BY <1>4, <1>6, <1>7 DEF Beside
<1>9. /\ \A h \in S : Frees(h.write)' = Frees(h.write)
      /\ FreesOf(S)' = FreesOf(S)
  BY <1>5, <1>8, SameSums
<1>10. Frees(g.write) = old
  BY <1>1, <1>3, <1>4 DEF Frees, Beside
<1>11. ShrinksFit(S)' /\ \A h \in S : h.order >= r + old
  BY <1>4, <1>5, <1>7, <1>8, <1>9 DEF ShrinksFit, Beside
<1>12. \A c \in Live' : EndOf(c)' <= w \/ locations'[c].offset >= r + old
  BY <1>4, <1>5, <1>6 DEF Beside
<1>13. w <= r + old /\ (r + old) - w = fsize - (new_fsize - old)
  <2>1. fsize \in Int /\ new_fsize \in Int
    BY DEF IInv, TypeOK, FlushTypeOK, FileTypeOK
  <2> QED
    BY <1>4, <2>1 DEF Beside
<1>14. ASSUME NEW c \in Live', locations'[c].offset >= r + old,
              \A h \in S : h.order < locations'[c].offset
       PROVE  EndOf(c)' <= new_fsize - old - FreesOf(S)
  BY <1>4, <1>5, <1>6, <1>7, <1>10, <1>14 DEF Beside
<1>15. ShrinkLayout(S, r + old, w)'
  BY <1>3, <1>4, <1>9, <1>11, <1>12, <1>13, <1>14 DEF ShrinkLayout, Beside
<1>16. InShrinks'
  BY <1>3, <1>7, <1>15 DEF InShrinks, ShrinkLayout, ShrinksFit, FreesOf
<1>17. Careful' /\ Lists' /\ Placing' /\ Sorting' /\ InGrows'
  BY <1>3, <1>4, <1>5, GrowsWait DEF Beside
<1> QED
  BY <1>3, <1>5, <1>16, <1>17, Quiet DEF Layout

\* The entry of a chunk that shrinks is stored at the write head (region.c:555-561).
LEMMA ShrinkEntryLayout ==
  ASSUME IInv, Layout, NEW g, ShrinkEntry(g)
  PROVE  Layout'
<1>1. PICK p, old, n : p = g.write.pos /\ old = locations[p].sector_count
                       /\ n = CountFor(g.write.length)
  OBVIOUS
<1>2. PICK r, w \in Int : r = read_head /\ w = write_head
  BY DEF IInv, TypeOK, FlushTypeOK
<1>3. /\ pc = "shrinkEntry" /\ HeadsShrinks(g) /\ g.write.data # NoData
      /\ SetEntry(p, w, n, g.write.timestamp) /\ read_head' = r + old /\ write_head' = w
      /\ new_fsize' = new_fsize + n - old
      /\ shrinks' = shrinks /\ pc' = "shrinkData"
      /\ UNCHANGED <<fsize, ragged, cached_writes, grows, sectors_added, status>>
  BY <1>1, <1>2 DEF ShrinkEntry, Shrinking, handle
<1>4. Beside(g, p, old, r, w)
  BY <1>1, <1>2, <1>3, AroundShrink
<1>5. /\ n \in Nat /\ n # 0 /\ g.write.timestamp \in Nat /\ g.write.timestamp # 0
      /\ Frees(g.write) = old - n /\ n <= old
  <2>1. n \in 1 .. 255 /\ g.write.timestamp \in Nat /\ g.write.timestamp # 0
    BY <1>1, <1>3, <1>4, ListedFields DEF Layout, Beside
  <2>2. Frees(g.write) = old - n
    BY <1>1, <1>3 DEF Frees
  <2> QED
    BY <1>4, <2>1, <2>2 DEF Beside
<1>6. fsize \in Int /\ new_fsize \in Int /\ Live \subseteq Chunk
  BY DEF IInv, TypeOK, FlushTypeOK, FileTypeOK, Live
<1>7. /\ LayoutOK' /\ Live' = Live \cup {p}
      /\ locations'[p] = [offset |-> w, sector_count |-> n] /\ EndOf(p)' = w + n
      /\ \A c \in Chunk \ {p} :
            /\ locations'[c] = locations[c] /\ timestamps'[c] = timestamps[c]
            /\ EndOf(c)' = EndOf(c) /\ (ContainsChunk(c)' <=> ContainsChunk(c))
  <2>1. w + n <= fsize
    BY <1>4, <1>5, <1>6 DEF Beside
  <2>2. \A c \in Live \ {p} : EndOf(c) <= w \/ w + n <= locations[c].offset
    <3>1. ASSUME NEW c \in Live \ {p} PROVE EndOf(c) <= w \/ w + n <= locations[c].offset
      <4>1. locations[c].offset \in Int
        BY Extent DEF Live
      <4>2. EndOf(c) <= w \/ locations[c].offset >= r + old
        BY <1>4 DEF Beside
      <4> QED
        BY <1>4, <1>5, <4>1, <4>2 DEF Beside
    <3> QED
      BY <3>1
  <2> QED
    BY <1>3, <1>4, <1>5, <2>1, <2>2, EntryKeepsApart DEF Layout, Beside
<1>8. Live' = Live
  BY <1>4, <1>7 DEF Beside
<1>9. PICK S : S = shrinks \ {g}
  OBVIOUS
<1>10. \A h \in S : h.write.pos \in Chunk \ {p}
  BY <1>4, <1>6, <1>9 DEF Beside
<1>11. /\ \A h \in S : Frees(h.write)' = Frees(h.write)
       /\ FreesOf(S)' = FreesOf(S)
  BY <1>7, <1>10, SameSums
<1>12. ShrinksFit(S)' /\ \A h \in S : h.order >= r + old
  BY <1>4, <1>7, <1>8, <1>9, <1>10, <1>11 DEF ShrinksFit, Beside
<1>13. \A c \in Live' : EndOf(c)' <= w + n \/ locations'[c].offset >= r + old
  <2>1. ASSUME NEW c \in Live \ {p} PROVE EndOf(c)' <= w + n \/ locations'[c].offset >= r + old
    <3>1. EndOf(c) \in Int
      BY Extent DEF Live
    <3>2. EndOf(c) <= w \/ locations[c].offset >= r + old
      BY <1>4 DEF Beside
    <3>3. EndOf(c)' = EndOf(c) /\ locations'[c] = locations[c]
      BY <1>6, <1>7
    <3> QED
      BY <1>5, <3>1, <3>2, <3>3
  <2>2. EndOf(p)' <= w + n
    BY <1>5, <1>7
  <2> QED
    BY <1>8, <2>1, <2>2
<1>14. /\ w + n <= r + old /\ (r + old) - (w + n) = fsize - (new_fsize + n - old)
       /\ w + n >= HeaderSectors
  BY <1>4, <1>5, <1>6 DEF HeaderSectors, Beside
<1>15. ASSUME NEW c \in Live', locations'[c].offset >= r + old,
              \A h \in S : h.order < locations'[c].offset
       PROVE  EndOf(c)' <= (new_fsize + n - old) - FreesOf(S)
  <2>1. c # p
    <3>1. locations'[p].offset = w
      BY <1>7
    <3> QED
      BY <1>4, <1>15, <3>1 DEF Beside
  <2>2. c \in Live \ {p} /\ locations'[c] = locations[c] /\ EndOf(c)' = EndOf(c)
    BY <1>6, <1>7, <1>8, <2>1
  <2>3. EndOf(c) <= new_fsize - Frees(g.write) - FreesOf(S)
    BY <1>4, <1>9, <1>15, <2>2 DEF Beside
  <2>4. new_fsize - (old - n) - FreesOf(S) = (new_fsize + n - old) - FreesOf(S)
    BY <1>4, <1>5, <1>6, <1>9 DEF Beside
  <2> QED
    BY <1>5, <2>2, <2>3, <2>4
<1>16. ShrinkLayout(S, r + old, w + n)'
  BY <1>3, <1>4, <1>11, <1>12, <1>13, <1>14, <1>15 DEF ShrinkLayout, Beside
<1>17. InShrinks'
  <2>1. HeadsShrinks(g)'
    BY <1>3 DEF HeadsShrinks
  <2>2. EntryAtHead(g.write)'
    BY <1>1, <1>3, <1>4, <1>7, <1>8 DEF EntryAtHead, Beside
  <2>3. ShrinkLayout(shrinks \ {g}, read_head, write_head + CountFor(g.write.length))'
    BY <1>1, <1>3, <1>9, <1>16 DEF ShrinkLayout, ShrinksFit, FreesOf
  <2> QED
    BY <1>3, <1>4, <2>1, <2>2, <2>3 DEF InShrinks, Beside
<1>18. Careful' /\ Lists' /\ Placing' /\ Sorting' /\ InGrows'
  BY <1>3, <1>4, <1>7, <1>8, GrowsWait DEF Beside
<1> QED
  BY <1>3, <1>7, <1>17, <1>18, Quiet DEF Layout

\* The data of a chunk that shrinks lies inside the file.
LEMMA ShrinkDataInside ==
  ASSUME IInv, Layout, NEW g, ShrinkDataFault(g)
  PROVE  FALSE
<1>1. pc = "shrinkData" /\ HeadsShrinks(g) /\ ~DataFits(g.write)
  BY DEF ShrinkDataFault, Shrinking
<1>2. g \in shrinks /\ EntryAtHead(g.write)
  BY <1>1, OneHead DEF Layout, InShrinks, HeadsShrinks
<1>3. EndOf(g.write.pos) <= fsize
  BY <1>2 DEF EntryAtHead, Layout, LayoutOK
<1>4. EndOf(g.write.pos) = write_head + SectorsFor(g.write.length)
  BY <1>2, ListedFields DEF EntryAtHead, EndOf, Layout
<1> QED
  BY <1>1, <1>3, <1>4 DEF DataFits

\* The data of a chunk that shrinks is stored, and the write head passes over it.
LEMMA ShrinkDataLayout ==
  ASSUME IInv, Layout, NEW g, ShrinkData(g)
  PROVE  Layout'
<1>1. /\ pc = "shrinkData" /\ HeadsShrinks(g)
      /\ write_head' = write_head + CountFor(g.write.length)
      /\ shrinks' = shrinks \ {g} /\ pc' = "shrink"
      /\ UNCHANGED <<fsize, ragged, locations, timestamps, cached_writes, grows,
                     sectors_added, new_fsize, read_head, status>>
  BY TablesKept DEF ShrinkData, Shrinking, handle
<1>2. ShrinkLayout(shrinks \ {g}, read_head, write_head + CountFor(g.write.length))
  BY <1>1, OneHead DEF Layout, InShrinks
<1>3. PICK S, r, w : S = shrinks \ {g} /\ r = read_head
                     /\ w = write_head + CountFor(g.write.length)
  OBVIOUS
<1>4. ShrinkLayout(S, r, w)'
  BY <1>1, <1>2, <1>3, SameTables
<1>5. InShrinks'
  BY <1>1, <1>3, <1>4 DEF InShrinks, ShrinkLayout, ShrinksFit, FreesOf
<1>6. Careful' /\ Lists' /\ Placing' /\ Sorting' /\ InGrows'
  BY <1>1, GrowsWait, SameTables
<1>7. LayoutOK'
  BY <1>1, SameTables DEF Layout
<1> QED
  BY <1>1, <1>5, <1>6, <1>7, Quiet DEF Layout

\* When there is nothing left to shrink, all chunks lie inside what the file is cut to.
LEMMA ShrunkLayout ==
  ASSUME IInv, Layout, Shrunk
  PROVE  Layout'
<1>1. /\ pc = "shrink" /\ shrinks = {} /\ pc' = "resize"
      /\ UNCHANGED <<fsize, ragged, locations, timestamps, cached_writes, shrinks, grows,
                     sectors_added, new_fsize, read_head, write_head, status>>
  BY DEF Shrunk, file, handle, plan, heads
<1>2. ShrinkLayout({}, read_head, write_head)
  BY <1>1 DEF Layout, InShrinks
<1>3. /\ read_head \in Int /\ write_head \in Int /\ fsize \in Int /\ new_fsize \in Int
  BY DEF IInv, TypeOK, FlushTypeOK, FileTypeOK
<1>4. write_head <= read_head /\ read_head <= fsize /\ read_head - write_head = fsize - new_fsize
  BY <1>2 DEF ShrinkLayout
<1>5. ASSUME NEW c \in Live PROVE EndOf(c) <= new_fsize
  <2>1. EndOf(c) \in Int /\ locations[c].offset \in Int
    BY Extent DEF Live
  <2>2. EndOf(c) <= write_head \/ EndOf(c) <= new_fsize - FreesOf({})
    BY <1>2 DEF ShrinkLayout
  <2> QED
    BY <1>3, <1>4, <2>1, <2>2, NoSums
<1>6. Resizing'
  BY <1>1, <1>3, <1>4, <1>5, SameTables DEF Resizing
<1>7. Careful' /\ Lists' /\ Placing' /\ Sorting' /\ InGrows'
  BY <1>1, GrowsWait, SameTables
<1>8. LayoutOK'
  BY <1>1, SameTables DEF Layout
<1> QED
  BY <1>1, <1>6, <1>7, <1>8, Quiet DEF Layout

-----------------------------------------------------------------------------
(* The resize.                                                             *)

\* The file has no ragged end, so its new size is a number of whole sectors
\* (region.c:592).
LEMMA ResizeGoesOn == Layout /\ ResizeAbort => FALSE
  BY DEF Layout, Careful, ResizeAbort

\* The growing pass starts with its heads at both ends of the space it needs.
LEMMA ResizeLayout ==
  ASSUME IInv, Layout, Resize
  PROVE  Layout'
<1>1. /\ pc = "resize" /\ HeaderKept
      /\ fsize' = new_fsize + sectors_added
      /\ write_head' = fsize' /\ read_head' = fsize' - (sectors_added % WordSectors)
      /\ pc' = "grow"
      /\ UNCHANGED <<ragged, locations, timestamps, cached_writes, shrinks, grows,
                     sectors_added, new_fsize, status>>
  BY DEF Resize, handle, plan
<1>2. PICK n, d \in Int : n = new_fsize /\ d = sectors_added
  BY DEF IInv, TypeOK, FlushTypeOK
<1>3. /\ Careful /\ d = GrowthOf(grows) /\ GrowsFit(grows) /\ shrinks = {}
      /\ \A c \in Live : EndOf(c) <= n
  BY <1>1, <1>2 DEF Layout, Lists, Resizing
<1>4. d \in Nat /\ d % WordSectors = d
  <2>1. d \in Nat /\ d < WordSectors
    BY <1>3, GrowthBounds
  <2> QED
    BY <2>1 DEF WordSectors
<1>5. fsize' = n + d /\ write_head' = n + d /\ read_head' = n /\ n >= HeaderSectors
  BY <1>1, <1>2, <1>4 DEF HeaderKept
<1>6. /\ Live' = Live /\ GrowthOf(grows)' = GrowthOf(grows) /\ (GrowsFit(grows)' <=> GrowsFit(grows))
      /\ \A c : EndOf(c)' = EndOf(c)
  BY <1>1, SameTables DEF GrowthOf, GrowsFit
<1>7. LayoutOK'
  <2>1. ASSUME NEW c \in Live PROVE EndOf(c) <= n + d
    <3>1. EndOf(c) \in Int
      BY Extent DEF Live
    <3> QED
      BY <1>3, <1>4, <3>1
  <2> QED
    BY <1>1, <1>5, <1>6, <2>1 DEF Layout, LayoutOK
<1>8. InGrows'
  <2>1. (n + d) - n = d /\ n <= n + d
    BY <1>4
  <2>2. \A g \in grows : g.write.pos \in Live => EndOf(g.write.pos) <= n
    BY <1>3
  <2>3. GrowLayout(grows, read_head, write_head)'
    BY <1>1, <1>3, <1>5, <1>6, <2>1, <2>2 DEF GrowLayout
  <2> QED
    BY <1>1, <2>3 DEF InGrows
<1>9. Lists'
  BY <1>1, <1>3 DEF Lists
<1>10. Careful'
  BY <1>1, <1>3, StillCareful
<1> QED
  BY <1>1, <1>7, <1>8, <1>9, <1>10, Quiet DEF Layout

-----------------------------------------------------------------------------
(* The growing pass.                                                       *)

\* What a step of the growing pass leaves alone.
LEMMA StillGrowing ==
  ASSUME Layout,
         pc \in {"grow", "growMove", "growEntry", "growData"},
         pc' \in {"grow", "growMove", "growEntry", "growData"},
         UNCHANGED <<status, ragged, cached_writes, shrinks>>
  PROVE  Careful' /\ Lists' /\ Placing' /\ Sorting' /\ InShrinks' /\ Resizing'
<1>1. shrinks = {}
  BY DEF Layout, Lists
<1>2. Lists'
  BY <1>1 DEF Lists
<1>3. Careful'
  BY StillCareful DEF Layout
<1> QED
  BY <1>2, <1>3, Quiet

\* The write that is taken next is of the last of the chunks that grow.
LEMMA NextGrow ==
  ASSUME IInv, Careful, LayoutOK, NEW r \in Int, NEW w \in Int, NEW g,
         HeadsGrows(g), GrowLayout(grows, r, w), g.write.pos \in Live
  PROVE  /\ g \in grows /\ g.write.pos \in Chunk
         /\ EndOf(g.write.pos) \in Int /\ EndOf(g.write.pos) <= r
         /\ locations[g.write.pos].offset \in Int
         /\ HeaderSectors <= locations[g.write.pos].offset
         /\ locations[g.write.pos].offset < EndOf(g.write.pos)
         /\ \A c \in Live \ {g.write.pos} :
               \/ EndOf(c) <= locations[g.write.pos].offset
               \/ locations[c].offset >= EndOf(g.write.pos) /\ EndOf(c) <= r
               \/ locations[c].offset >= w
         /\ \A h \in grows \ {g} :
               h.write.pos \in Live => EndOf(h.write.pos) <= locations[g.write.pos].offset
<1>1. PICK p : p = g.write.pos
  OBVIOUS
<1>2. g \in grows /\ p \in Live /\ p \in Chunk
  BY <1>1 DEF HeadsGrows, Live
<1>3. /\ locations[p].offset \in Int /\ EndOf(p) \in Int /\ locations[p].offset < EndOf(p)
      /\ EndOf(p) <= r /\ HeaderSectors <= locations[p].offset
  BY <1>1, <1>2, Extent DEF GrowLayout, LayoutOK
<1>4. ASSUME NEW c \in Live \ {p}
      PROVE  \/ EndOf(c) <= locations[p].offset
             \/ locations[c].offset >= EndOf(p) /\ EndOf(c) <= r
             \/ locations[c].offset >= w
  BY <1>2 DEF GrowLayout, LayoutOK
<1>5. ASSUME NEW h \in grows \ {g}, h.write.pos \in Live
      PROVE  EndOf(h.write.pos) <= locations[p].offset
  <2>1. PICK q : q = h.write.pos
    OBVIOUS
  <2>2. q \in Live \ {p} /\ q \in Chunk
    BY <1>1, <1>2, <1>5, <2>1, OtherChunks
  <2>3. locations[q].offset \in Int /\ EndOf(q) \in Int /\ locations[q].offset < EndOf(q)
    BY <2>2, Extent
  <2>4. EndOf(q) <= locations[p].offset \/ EndOf(p) <= locations[q].offset
    BY <1>2, <2>2 DEF LayoutOK
  <2>5. g.order \in Int /\ h.order \in Int
    BY <1>2, ListedFields
  <2>6. ~(g.order < h.order)
    <3>1. g.order > h.order \/ g.order = h.order
      BY <1>5 DEF HeadsGrows
    <3> QED
      BY <2>5, <3>1
  <2>7. g.order < h.order <=> locations[p].offset < locations[q].offset
    BY <1>1, <1>2, <2>1, <2>2 DEF GrowLayout, GrowsFit
  <2> QED
    BY <1>3, <2>1, <2>3, <2>4, <2>6, <2>7
<1> QED
  BY <1>1, <1>2, <1>3, <1>4, <1>5

\* The assertions at region.c:632-634 hold.
LEMMA GrowGoesOn ==
  ASSUME IInv, Layout, NEW g, GrowAbort(g)
  PROVE  FALSE
<1>1. /\ pc = "grow" /\ HeadsGrows(g) /\ (GrowGap(g) < 0 \/ read_head > write_head)
      /\ ContainsChunk(g.write.pos)
  BY DEF GrowAbort, Growing
<1>2. Careful /\ LayoutOK /\ GrowLayout(grows, read_head, write_head)
  BY <1>1 DEF Layout, InGrows
<1>3. read_head \in Int /\ write_head \in Int
  BY DEF IInv, TypeOK, FlushTypeOK
<1>4. g.write.pos \in Chunk /\ g.write.pos \in Live
  <2>1. g.write.pos \in Chunk
    BY <1>1, <1>2, ListedFields DEF HeadsGrows
  <2> QED
    BY <1>1, <2>1 DEF Live
<1>5. EndOf(g.write.pos) \in Int /\ EndOf(g.write.pos) <= read_head /\ read_head <= write_head
  BY <1>1, <1>2, <1>3, <1>4, NextGrow DEF GrowLayout
<1>6. GrowGap(g) = read_head - EndOf(g.write.pos)
  BY DEF GrowGap, GrowEnd, EndOf
<1> QED
  BY <1>1, <1>3, <1>5, <1>6

\* Shifting the entries behind the next chunk, which ends at lo, moves what lies there by
\* as much as the heads are apart, and nothing else.
LEMMA GrowShifted ==
  ASSUME IInv, Layout, NEW g, GrowShift(g), NEW r \in Int, NEW w \in Int, NEW by \in Int,
         NEW p, NEW lo, r = read_head, w = write_head, by = w - r, p = g.write.pos,
         lo = EndOf(p)
  PROVE  /\ p \in Live /\ p \in Chunk /\ GrowGap(g) = r - lo /\ lo \in Int /\ lo <= r
         /\ HeaderSectors \in Int /\ HeaderSectors <= r /\ r <= w /\ w <= fsize
         /\ locations[p].offset \in Int /\ HeaderSectors <= locations[p].offset
         /\ locations[p].offset < lo
         /\ \A h \in grows \ {g} :
               h.write.pos \in Live => EndOf(h.write.pos) <= locations[p].offset
         /\ Live' = Live
         /\ \A c \in Chunk : /\ locations'[c].sector_count = locations[c].sector_count
                             /\ ContainsChunk(c)' <=> ContainsChunk(c)
         /\ \A c, d \in Live : c # d => EndOf(c)' <= locations'[d].offset
                                        \/ EndOf(d)' <= locations'[c].offset
         /\ \A c, d \in Live : locations'[c].offset < locations'[d].offset
                               <=> locations[c].offset < locations[d].offset
         /\ \A c \in Live :
               /\ locations[c].offset \in Int /\ EndOf(c) \in Int
               /\ EndOf(c) > locations[c].offset
               /\ \/ /\ EndOf(c) <= lo
                     /\ locations'[c].offset = locations[c].offset /\ EndOf(c)' = EndOf(c)
                  \/ /\ locations[c].offset >= lo /\ EndOf(c) <= r
                     /\ locations'[c].offset = locations[c].offset + by
                     /\ EndOf(c)' = EndOf(c) + by
                  \/ /\ locations[c].offset >= w
                     /\ locations'[c].offset = locations[c].offset /\ EndOf(c)' = EndOf(c)
<1>1. /\ pc = "grow" /\ HeadsGrows(g) /\ ContainsChunk(g.write.pos)
      /\ ShiftLocations(GrowEnd(g), read_head, write_head - read_head)
      /\ pc' = "growMove"
      /\ UNCHANGED <<fsize, ragged, timestamps, cached_writes, shrinks, grows,
                     read_head, write_head, status>>
  BY DEF GrowShift, Growing, handle, plan, heads
<1>2. Careful /\ LayoutOK /\ GrowLayout(grows, read_head, write_head)
  BY <1>1 DEF Layout, InGrows
<1>3. HeaderSectors \in Int
  BY DEF HeaderSectors
<1>4. PICK S : S = grows
  OBVIOUS
<1>5. g \in S /\ p \in Live /\ p \in Chunk
  <2>1. g \in grows /\ p \in Chunk
    BY <1>1, <1>2, <1>4, ListedFields DEF HeadsGrows
  <2> QED
    BY <1>1, <1>4, <2>1 DEF Live
<1>6. /\ HeaderSectors <= r /\ r <= w /\ w <= fsize /\ w - r = GrowthOf(S) /\ GrowsFit(S)
      /\ GrowLayout(S, r, w)
  BY <1>2, <1>3, <1>4 DEF GrowLayout
<1>7. /\ lo \in Int /\ lo <= r
      /\ locations[p].offset \in Int /\ HeaderSectors <= locations[p].offset
      /\ locations[p].offset < lo
      /\ \A c \in Live \ {p} :
            \/ EndOf(c) <= locations[p].offset
            \/ locations[c].offset >= lo /\ EndOf(c) <= r
            \/ locations[c].offset >= w
      /\ \A h \in S \ {g} :
            h.write.pos \in Live => EndOf(h.write.pos) <= locations[p].offset
  BY <1>1, <1>2, <1>4, <1>5, <1>6, NextGrow
<1>8. ShiftLocations(lo, r, by) /\ GrowGap(g) = r - lo
  BY <1>1 DEF GrowEnd, GrowGap, EndOf
<1>9. ASSUME NEW c \in Live
       PROVE  /\ locations[c].offset \in Int /\ EndOf(c) \in Int /\ EndOf(c) > locations[c].offset
              /\ \/ EndOf(c) <= lo /\ EndOf(c) <= lo + by
                 \/ locations[c].offset >= lo /\ EndOf(c) <= r
                 \/ locations[c].offset >= r /\ locations[c].offset >= r + by
              /\ \/ EndOf(c) <= lo
                 \/ locations[c].offset >= lo /\ EndOf(c) <= r
                 \/ locations[c].offset >= w
  <2>1. locations[c].offset \in Int /\ EndOf(c) \in Int /\ EndOf(c) > locations[c].offset
    BY Extent DEF Live
  <2>2. \/ c = p
        \/ EndOf(c) <= locations[p].offset
        \/ locations[c].offset >= lo /\ EndOf(c) <= r
        \/ locations[c].offset >= w
    BY <1>7
  <2> QED
    BY <1>4, <1>6, <1>7, <2>1, <2>2
<1>10. /\ Live' = Live
       /\ \A c \in Chunk : /\ locations'[c].sector_count = locations[c].sector_count
                           /\ ContainsChunk(c)' <=> ContainsChunk(c)
       /\ \A c \in Live :
             LET moved == locations[c].offset >= lo /\ EndOf(c) <= r
             IN  /\ locations'[c].offset = locations[c].offset + (IF moved THEN by ELSE 0)
                 /\ EndOf(c)' = EndOf(c) + (IF moved THEN by ELSE 0)
       /\ \A c, d \in Live : c # d => EndOf(c)' <= locations'[d].offset
                                      \/ EndOf(d)' <= locations'[c].offset
       /\ \A c, d \in Live : locations'[c].offset < locations'[d].offset
                             <=> locations[c].offset < locations[d].offset
  <2>1. lo >= HeaderSectors /\ lo + by >= HeaderSectors
    BY <1>3, <1>6, <1>7
  <2>2. IInv /\ LayoutOK /\ lo \in Int /\ ShiftLocations(lo, r, by) /\ timestamps' = timestamps
    BY <1>1, <1>2, <1>7, <1>8
  <2>3. \A c \in Live :
           \/ EndOf(c) <= lo /\ EndOf(c) <= lo + by
           \/ locations[c].offset >= lo /\ EndOf(c) <= r
           \/ locations[c].offset >= r /\ locations[c].offset >= r + by
    BY <1>9
  <2> QED
    BY <2>1, <2>2, <2>3, ShiftKeepsApart, SMTT(60)
<1>11. \A c \in Live :
          \/ /\ EndOf(c) <= lo
             /\ locations'[c].offset = locations[c].offset /\ EndOf(c)' = EndOf(c)
          \/ /\ locations[c].offset >= lo /\ EndOf(c) <= r
             /\ locations'[c].offset = locations[c].offset + by /\ EndOf(c)' = EndOf(c) + by
          \/ /\ locations[c].offset >= w
             /\ locations'[c].offset = locations[c].offset /\ EndOf(c)' = EndOf(c)
  <2> SUFFICES ASSUME NEW c \in Live
               PROVE  \/ /\ EndOf(c) <= lo
                         /\ locations'[c].offset = locations[c].offset /\ EndOf(c)' = EndOf(c)
                      \/ /\ locations[c].offset >= lo /\ EndOf(c) <= r
                         /\ locations'[c].offset = locations[c].offset + by
                         /\ EndOf(c)' = EndOf(c) + by
                      \/ /\ locations[c].offset >= w
                         /\ locations'[c].offset = locations[c].offset /\ EndOf(c)' = EndOf(c)
    OBVIOUS
  <2>1. /\ locations'[c].offset = locations[c].offset
                + (IF locations[c].offset >= lo /\ EndOf(c) <= r THEN by ELSE 0)
        /\ EndOf(c)' = EndOf(c) + (IF locations[c].offset >= lo /\ EndOf(c) <= r THEN by ELSE 0)
    BY <1>10
  <2> QED
    BY <1>6, <1>7, <1>9, <2>1
<1> QED
  BY <1>3, <1>4, <1>5, <1>6, <1>7, <1>8, <1>9, <1>10, <1>11

\* The entries behind the next chunk are shifted (region.c:637-650).
LEMMA GrowShiftLayout ==
  ASSUME IInv, Layout, NEW g, GrowShift(g)
  PROVE  Layout'
<1>1. /\ pc = "grow" /\ HeadsGrows(g) /\ ContainsChunk(g.write.pos)
      /\ ShiftLocations(GrowEnd(g), read_head, write_head - read_head)
      /\ pc' = "growMove"
      /\ UNCHANGED <<fsize, ragged, timestamps, cached_writes, shrinks, grows,
                     read_head, write_head, status>>
  BY DEF GrowShift, Growing, handle, plan, heads
<1>2. Careful /\ LayoutOK /\ GrowLayout(grows, read_head, write_head)
  BY <1>1 DEF Layout, InGrows
<1>3. PICK r, w \in Int : r = read_head /\ w = write_head
  BY DEF IInv, TypeOK, FlushTypeOK
<1>4. PICK p, lo, S : p = g.write.pos /\ lo = EndOf(p) /\ S = grows
  OBVIOUS
<1>5. PICK by \in Int : by = w - r
  OBVIOUS
<1>6. g \in S /\ GrowLayout(S, r, w) /\ GrowsFit(S) /\ w - r = GrowthOf(S)
  BY <1>1, <1>2, <1>3, <1>4 DEF GrowLayout, HeadsGrows
<1>7. /\ p \in Live /\ p \in Chunk /\ GrowGap(g) = r - lo /\ lo \in Int /\ lo <= r
      /\ HeaderSectors \in Int /\ HeaderSectors <= r /\ r <= w /\ w <= fsize
      /\ locations[p].offset \in Int /\ HeaderSectors <= locations[p].offset
      /\ locations[p].offset < lo
      /\ \A h \in grows \ {g} :
            h.write.pos \in Live => EndOf(h.write.pos) <= locations[p].offset
      /\ Live' = Live
      /\ \A c \in Chunk : /\ locations'[c].sector_count = locations[c].sector_count
                          /\ ContainsChunk(c)' <=> ContainsChunk(c)
      /\ \A c, d \in Live : c # d => EndOf(c)' <= locations'[d].offset
                                     \/ EndOf(d)' <= locations'[c].offset
      /\ \A c, d \in Live : locations'[c].offset < locations'[d].offset
                            <=> locations[c].offset < locations[d].offset
      /\ \A c \in Live :
            /\ locations[c].offset \in Int /\ EndOf(c) \in Int
            /\ EndOf(c) > locations[c].offset
            /\ \/ /\ EndOf(c) <= lo
                  /\ locations'[c].offset = locations[c].offset /\ EndOf(c)' = EndOf(c)
               \/ /\ locations[c].offset >= lo /\ EndOf(c) <= r
                  /\ locations'[c].offset = locations[c].offset + by
                  /\ EndOf(c)' = EndOf(c) + by
               \/ /\ locations[c].offset >= w
                  /\ locations'[c].offset = locations[c].offset /\ EndOf(c)' = EndOf(c)
  BY <1>3, <1>4, <1>5, GrowShifted
<1>8. /\ \A h \in S : Growth(h.write)' = Growth(h.write)
       /\ GrowthOf(S)' = GrowthOf(S)
  <2>1. \A h \in S : h.write.pos \in Chunk
    BY <1>2, <1>4, ListedFields
  <2> QED
    BY <1>5, <1>6, <1>7, <2>1, SameSums
<1>9. LayoutOK'
  <2>1. ASSUME NEW c \in Live
        PROVE  locations'[c].offset >= HeaderSectors /\ EndOf(c)' <= fsize
    <3>1. locations[c].offset >= HeaderSectors /\ EndOf(c) <= fsize
      BY <1>2 DEF LayoutOK
    <3>2. fsize \in Int
      BY DEF IInv, TypeOK, FileTypeOK
    <3> QED
      BY <1>5, <1>6, <1>7, <3>1, <3>2
  <2> QED
    BY <1>1, <1>5, <1>6, <1>7, <2>1 DEF LayoutOK
<1>10. locations'[p].offset = locations[p].offset /\ EndOf(p)' = lo
  BY <1>4, <1>5, <1>7
<1>11. GrowLayout(S, lo, w - (r - lo))'
  <2>1. \A c \in Live : EndOf(c)' <= lo \/ locations'[c].offset >= w - (r - lo)
    BY <1>5, <1>7
  <2>2. ASSUME NEW h \in S, h.write.pos \in Live PROVE EndOf(h.write.pos)' <= lo
    <3>1. CASE h = g
      BY <1>4, <1>5, <1>6, <1>7, <1>10, <3>1
    <3>2. CASE h # g
      <4>1. EndOf(h.write.pos) <= locations[p].offset
        BY <1>4, <1>7, <2>2, <3>2
      <4> QED
        BY <1>5, <1>6, <1>7, <2>2, <4>1
    <3> QED
      BY <3>1, <3>2
  <2>3. GrowsFit(S)'
    BY <1>6, <1>7, <1>8 DEF GrowsFit
  <2>4. /\ HeaderSectors <= lo /\ lo <= w - (r - lo) /\ w - (r - lo) <= fsize
        /\ (w - (r - lo)) - lo = GrowthOf(S)
    <3>1. fsize \in Int
      BY DEF IInv, TypeOK, FileTypeOK
    <3>2. (w - (r - lo)) - lo = w - r
      BY <1>5, <1>6, <1>7
    <3> QED
      BY <1>6, <1>7, <3>1, <3>2
  <2> QED
    BY <1>1, <1>5, <1>6, <1>7, <1>8, <2>1, <2>2, <2>3, <2>4 DEF GrowLayout
<1>12. InGrows'
  <2>1. HeadsGrows(g)'
    BY <1>1 DEF HeadsGrows
  <2>2. GrowEnd(g)' = lo /\ GrowGap(g)' = r - lo
    <3>1. GrowEnd(g)' = EndOf(p)'
      BY <1>4 DEF GrowEnd, EndOf
    <3> QED
      BY <1>1, <1>3, <1>10, <3>1 DEF GrowGap
  <2>3. GrowLayout(grows, GrowEnd(g), write_head - GrowGap(g))'
    BY <1>1, <1>3, <1>4, <1>11, <2>2 DEF GrowLayout, GrowsFit, GrowthOf
  <2>4. \A c \in Live' : EndOf(c)' <= write_head' \/ locations'[c].offset >= write_head'
    BY <1>1, <1>3, <1>5, <1>6, <1>7
  <2>5. ShiftedUp(g)'
    BY <1>1, <1>3, <1>4, <1>5, <1>6, <1>7, <2>2, <2>3, <2>4 DEF ShiftedUp
  <2> QED
    BY <1>1, <1>4, <1>6, <1>7, <2>1, <2>5 DEF InGrows
<1> QED
  BY <1>1, <1>9, <1>12, StillGrowing DEF Layout

\* The bytes behind the next chunk are moved, and the heads follow.
LEMMA GrowMoveLayout ==
  ASSUME IInv, Layout, NEW g, GrowMove(g)
  PROVE  Layout'
<1>1. /\ pc = "growMove" /\ HeadsGrows(g)
      /\ write_head' = write_head - GrowGap(g) /\ read_head' = GrowEnd(g)
      /\ pc' = "growEntry"
      /\ UNCHANGED <<fsize, ragged, locations, timestamps, cached_writes, shrinks, grows,
                     new_fsize, status>>
  BY TablesKept DEF GrowMove, Growing, handle, plan
<1>2. g \in grows /\ ShiftedUp(g)
  BY <1>1, OneHead DEF Layout, InGrows, HeadsGrows
<1>3. PICK S, r, w : S = grows /\ r = GrowEnd(g) /\ w = write_head - GrowGap(g)
  OBVIOUS
<1>4. GrowLayout(S, r, w)'
  BY <1>1, <1>2, <1>3, SameTables DEF ShiftedUp
<1>5. GrowLayout(grows, read_head, write_head)'
  BY <1>1, <1>3, <1>4 DEF GrowLayout
<1>6. HeadsGrows(g)' /\ g.write.pos \in Live' /\ GrowEnd(g)' = read_head'
  BY <1>1, <1>2, SameTables DEF HeadsGrows, GrowEnd, ShiftedUp
<1>7. InGrows'
  BY <1>1, <1>2, <1>5, <1>6 DEF InGrows
<1>8. LayoutOK'
  BY <1>1, SameTables DEF Layout
<1> QED
  BY <1>1, <1>7, <1>8, StillGrowing DEF Layout

\* The entry of a chunk that grows or is added is stored below the write head, the read
\* head having passed over what the chunk had (region.c:660-680).
LEMMA GrowEntryStored ==
  ASSUME IInv, Layout, pc \in {"grow", "growEntry"}, NEW g, HeadsGrows(g),
         GrowSetEntry(g.write), NEW q \in Int, read_head' = q, q >= HeaderSectors,
         GrowLayout(grows, read_head, write_head),
         Growth(g.write) = CountFor(g.write.length) - (read_head - q),
         \A c \in Live \ {g.write.pos} : EndOf(c) <= q \/ locations[c].offset >= write_head,
         \A h \in grows \ {g} : h.write.pos \in Live => EndOf(h.write.pos) <= q,
         UNCHANGED <<ragged, cached_writes, status>>
  PROVE  Layout'
<1>1. PICK r, w, n \in Int : r = read_head /\ w = write_head /\ n = CountFor(g.write.length)
  <2>1. CountFor(g.write.length) \in 1 .. 255
    BY ListedFields DEF HeadsGrows, Layout
  <2> QED
    BY <2>1 DEF IInv, TypeOK, FlushTypeOK
<1>2. PICK p, t, S : p = g.write.pos /\ t = g.write.timestamp /\ S = grows \ {g}
  OBVIOUS
<1>3. /\ write_head' = w - n /\ SetEntry(p, w - n, n, t) /\ pc' = "growData"
      /\ UNCHANGED <<fsize, shrinks, grows>>
  BY <1>1, <1>2 DEF GrowSetEntry, plan
<1>4. Careful /\ LayoutOK
  BY DEF Layout
<1>5. /\ HeaderSectors <= r /\ r <= w /\ w <= fsize /\ w - r = GrowthOf(grows) /\ GrowsFit(grows)
  BY <1>1 DEF GrowLayout
<1>6. /\ g \in grows /\ p \in Chunk /\ n \in Nat /\ n # 0 /\ t \in Nat /\ t # 0
      /\ g.write.data # NoData
  <2>1. g \in grows
    BY DEF HeadsGrows
  <2>2. g.write.data # NoData
    BY <1>5, <2>1 DEF GrowsFit
  <2>3. /\ p \in Chunk /\ n \in 1 .. 255 /\ t \in Nat /\ t # 0
    BY <1>1, <1>2, <1>4, <2>1, <2>2, ListedFields
  <2> QED
    BY <2>1, <2>2, <2>3
<1>7. /\ GrowthOf(grows) = Growth(g.write) + GrowthOf(S) /\ GrowthOf(S) \in Nat
  <2>1. GrowthOf(grows) = Growth(g.write) + GrowthOf(grows \ {g})
    BY <1>4, <1>6, GrowthWithout
  <2>2. GrowthOf(grows \ {g}) \in Nat
    BY <1>4, <1>5, GrowthBounds
  <2> QED
    BY <1>2, <2>1, <2>2
<1>8. /\ (w - n) - q = GrowthOf(S) /\ q <= w - n /\ w - n <= fsize
      /\ w - n >= HeaderSectors /\ (w - n) + n = w
  <2>1. fsize \in Int /\ HeaderSectors \in Int
    BY DEF IInv, TypeOK, FileTypeOK, HeaderSectors
  <2>2. w - r = (n - (r - q)) + GrowthOf(S)
    BY <1>1, <1>5, <1>7
  <2> QED
    BY <1>5, <1>6, <1>7, <2>1, <2>2
<1>9. /\ \A c \in Live \ {p} : EndOf(c) <= q \/ locations[c].offset >= w
      /\ \A h \in S : h.write.pos \in Chunk \ {p}
                      /\ (h.write.pos \in Live => EndOf(h.write.pos) <= q)
  BY <1>1, <1>2, <1>6, OtherChunks
<1>10. \A c \in Live \ {p} : EndOf(c) <= w - n \/ w <= locations[c].offset
  <2>1. ASSUME NEW c \in Live \ {p} PROVE EndOf(c) <= w - n \/ w <= locations[c].offset
    <3>1. EndOf(c) \in Int /\ locations[c].offset \in Int
      BY Extent DEF Live
    <3> QED
      BY <1>8, <1>9, <3>1
  <2> QED
    BY <2>1
<1>11. /\ LayoutOK' /\ Live' = Live \cup {p}
       /\ locations'[p] = [offset |-> w - n, sector_count |-> n] /\ EndOf(p)' = w
       /\ \A c \in Chunk \ {p} :
             /\ locations'[c] = locations[c] /\ timestamps'[c] = timestamps[c]
             /\ EndOf(c)' = EndOf(c) /\ (ContainsChunk(c)' <=> ContainsChunk(c))
  BY <1>3, <1>4, <1>5, <1>6, <1>8, <1>10, EntryKeepsApart
<1>12. Live \subseteq Chunk
  BY DEF Live
<1>13. /\ \A h \in S : Growth(h.write)' = Growth(h.write)
       /\ GrowthOf(S)' = GrowthOf(S)
  BY <1>9, <1>11, SameSums
<1>14. GrowsFit(S)'
  <2>1. \A h \in S : /\ h.write.pos \in Live' <=> h.write.pos \in Live
                     /\ locations'[h.write.pos] = locations[h.write.pos]
    BY <1>9, <1>11
  <2>2. GrowsFit(S)
    BY <1>2, <1>5 DEF GrowsFit
  <2> QED
    BY <1>13, <2>1, <2>2 DEF GrowsFit
<1>15. \A c \in Live' : EndOf(c)' <= q \/ locations'[c].offset >= w - n
  <2>1. ASSUME NEW c \in Live \ {p} PROVE EndOf(c)' <= q \/ locations'[c].offset >= w - n
    <3>1. EndOf(c)' = EndOf(c) /\ locations'[c] = locations[c] /\ locations[c].offset \in Int
      BY <1>11, <1>12, Extent
    <3> QED
      BY <1>6, <1>9, <3>1
  <2>2. locations'[p].offset >= w - n
    BY <1>11
  <2> QED
    BY <1>11, <2>1, <2>2
<1>16. \A h \in S : h.write.pos \in Live' => EndOf(h.write.pos)' <= q
  BY <1>9, <1>11
<1>17. GrowLayout(S, q, w - n)'
  BY <1>3, <1>8, <1>13, <1>14, <1>15, <1>16 DEF GrowLayout
<1>18. InGrows'
  <2>1. HeadsGrows(g)'
    BY <1>3 DEF HeadsGrows
  <2>2. EntryAtHead(g.write)'
    BY <1>1, <1>2, <1>3, <1>6, <1>11 DEF EntryAtHead
  <2>3. GrowLayout(grows \ {g}, read_head, write_head)'
    BY <1>2, <1>3, <1>17 DEF GrowLayout, GrowsFit, GrowthOf
  <2> QED
    BY <1>3, <1>6, <2>1, <2>2, <2>3 DEF InGrows
<1> QED
  BY <1>3, <1>11, <1>18, StillGrowing DEF Layout

\* So it is for a chunk that grows,
LEMMA GrowEntryLayout ==
  ASSUME IInv, Layout, NEW g, GrowEntry(g)
  PROVE  Layout'
<1>1. PICK p, old : p = g.write.pos /\ old = locations[p].sector_count
  OBVIOUS
<1>2. /\ pc = "growEntry" /\ HeadsGrows(g) /\ GrowSetEntry(g.write)
      /\ read_head' = read_head - old
      /\ UNCHANGED <<ragged, cached_writes, status>>
  BY <1>1 DEF GrowEntry, GrowSetEntry, Growing, handle
<1>3. /\ GrowLayout(grows, read_head, write_head) /\ p \in Live /\ GrowEnd(g) = read_head
      /\ Careful /\ LayoutOK
  BY <1>1, <1>2, OneHead DEF Layout, InGrows
<1>4. PICK r, w \in Int : r = read_head /\ w = write_head
  BY DEF IInv, TypeOK, FlushTypeOK
<1>5. PICK q : q = locations[p].offset
  OBVIOUS
<1>6. /\ g \in grows /\ p \in Chunk /\ q \in Int /\ HeaderSectors <= q
      /\ \A c \in Live \ {p} :
            \/ EndOf(c) <= q
            \/ locations[c].offset >= EndOf(p) /\ EndOf(c) <= r
            \/ locations[c].offset >= w
      /\ \A h \in grows \ {g} : h.write.pos \in Live => EndOf(h.write.pos) <= q
  BY <1>1, <1>2, <1>3, <1>4, <1>5, NextGrow
<1>7. EndOf(p) = r /\ r = q + old /\ old \in Nat /\ r - old = q
  <2>1. EndOf(p) = r
    BY <1>1, <1>3, <1>4 DEF GrowEnd, EndOf
  <2>2. EndOf(p) = q + old /\ old \in Nat
    BY <1>1, <1>5, <1>6, Extent
  <2> QED
    BY <1>6, <2>1, <2>2
<1>8. \A c \in Live \ {p} : EndOf(c) <= q \/ locations[c].offset >= w
  <2>1. ASSUME NEW c \in Live \ {p} PROVE EndOf(c) <= q \/ locations[c].offset >= w
    <3>1. EndOf(c) \in Int /\ locations[c].offset \in Int /\ EndOf(c) > locations[c].offset
      BY Extent DEF Live
    <3> QED
      BY <1>6, <1>7, <3>1
  <2> QED
    BY <2>1
<1>9. Growth(g.write) = CountFor(g.write.length) - (read_head - q)
  <2>1. ContainsChunk(p)
    BY <1>3 DEF Live
  <2>2. read_head - q = old
    BY <1>4, <1>6, <1>7
  <2> QED
    BY <1>1, <2>1, <2>2 DEF Growth
<1> QED
  BY <1>1, <1>2, <1>3, <1>4, <1>6, <1>7, <1>8, <1>9, GrowEntryStored

\* and for one that is added.
LEMMA GrowAddLayout ==
  ASSUME IInv, Layout, NEW g, GrowAdd(g)
  PROVE  Layout'
<1>1. /\ pc = "grow" /\ HeadsGrows(g) /\ GrowSetEntry(g.write) /\ ~ContainsChunk(g.write.pos)
      /\ read_head' = read_head
      /\ UNCHANGED <<ragged, cached_writes, status>>
  BY DEF GrowAdd, GrowSetEntry, Growing, handle
<1>2. GrowLayout(grows, read_head, write_head) /\ g \in grows
  BY <1>1 DEF Layout, InGrows, HeadsGrows
<1>3. read_head \in Int /\ CountFor(g.write.length) \in Int
  <2>1. CountFor(g.write.length) \in 1 .. 255
    BY <1>2, ListedFields DEF Layout
  <2> QED
    BY <2>1 DEF IInv, TypeOK, FlushTypeOK
<1>4. /\ HeaderSectors <= read_head
      /\ \A c \in Live : EndOf(c) <= read_head \/ locations[c].offset >= write_head
      /\ \A h \in grows : h.write.pos \in Live => EndOf(h.write.pos) <= read_head
  BY <1>2 DEF GrowLayout
<1>5. Growth(g.write) = CountFor(g.write.length) - (read_head - read_head)
  BY <1>1, <1>3 DEF Growth
<1> QED
  BY <1>1, <1>2, <1>3, <1>4, <1>5, GrowEntryStored DEF HeaderSectors

\* The data of a chunk that grows lies inside the file.
LEMMA GrowDataInside ==
  ASSUME IInv, Layout, NEW g, GrowDataFault(g)
  PROVE  FALSE
<1>1. pc = "growData" /\ HeadsGrows(g) /\ ~DataFits(g.write)
  BY DEF GrowDataFault, Growing
<1>2. g \in grows /\ EntryAtHead(g.write)
  BY <1>1, OneHead DEF Layout, InGrows, HeadsGrows
<1>3. EndOf(g.write.pos) <= fsize
  BY <1>2 DEF EntryAtHead, Layout, LayoutOK
<1>4. EndOf(g.write.pos) = write_head + SectorsFor(g.write.length)
  BY <1>2, ListedFields DEF EntryAtHead, EndOf, Layout
<1> QED
  BY <1>1, <1>3, <1>4 DEF DataFits

\* The data of a chunk that grows is stored; the heads stay where they are.
LEMMA GrowDataLayout ==
  ASSUME IInv, Layout, NEW g, GrowData(g)
  PROVE  Layout'
<1>1. /\ pc = "growData" /\ HeadsGrows(g)
      /\ grows' = grows \ {g} /\ pc' = "grow"
      /\ UNCHANGED <<fsize, ragged, locations, timestamps, cached_writes, shrinks,
                     read_head, write_head, status>>
  BY TablesKept DEF GrowData, Growing, handle, heads
<1>2. GrowLayout(grows \ {g}, read_head, write_head)
  BY <1>1, OneHead DEF Layout, InGrows
<1>3. PICK S, r, w : S = grows \ {g} /\ r = read_head /\ w = write_head
  OBVIOUS
<1>4. GrowLayout(S, r, w)'
  BY <1>1, <1>2, <1>3, SameTables
<1>5. InGrows'
  BY <1>1, <1>3, <1>4 DEF InGrows, GrowLayout, GrowsFit, GrowthOf
<1>6. LayoutOK'
  BY <1>1, SameTables DEF Layout
<1> QED
  BY <1>1, <1>5, <1>6, StillGrowing DEF Layout

\* When there is nothing left to grow the flush is done.
LEMMA GrownLayout ==
  ASSUME IInv, Layout, Grown
  PROVE  Layout'
<1>1. /\ pc = "grow" /\ grows = {} /\ pc' = "finish"
      /\ UNCHANGED <<fsize, ragged, locations, timestamps, cached_writes, shrinks, grows, status>>
  BY DEF Grown, file, handle, plan
<1>2. shrinks = {}
  BY <1>1 DEF Layout, Lists
<1>3. Lists'
  BY <1>1, <1>2 DEF Lists
<1>4. LayoutOK' /\ Careful'
  BY <1>1, SameTables, StillCareful DEF Layout
<1> QED
  BY <1>1, <1>3, <1>4, Quiet DEF Layout

-----------------------------------------------------------------------------
(* Flushing into an empty file.                                            *)

\* The space of the writes from k on is that of the k-th and of the rest.
LEMMA SpaceStep ==
  ASSUME IInv, NEW k \in 1 .. Len(cached_writes)
  PROVE  /\ Space(k + 1) \in Nat
         /\ Space(k) = SectorsFor(cached_writes[k].length) + Space(k + 1)
<1>1. Len(cached_writes) \in Nat
      /\ \A i \in 1 .. Len(cached_writes) : cached_writes[i] \in ChunkWrite
  BY DEF IInv, TypeOK, HandleTypeOK
<1>2. \A i \in 1 .. Len(cached_writes) : SectorsFor(cached_writes[i].length) \in Nat
  BY <1>1, WriteFields
<1>3. PICK m \in Nat : m = Len(cached_writes)
  BY <1>1
<1>4. PICK f : f = [i \in k .. m |-> SectorsFor(cached_writes[i].length)]
  OBVIOUS
<1>5. f \in [k .. m -> Int] /\ k \in k .. m /\ IsFiniteSet(k .. m) /\ IsFiniteSet(k + 1 .. m)
  <2>1. k \in Int /\ k + 1 \in Int /\ m \in Int /\ k \in k .. m
    BY <1>3
  <2>2. IsFiniteSet(k .. m) /\ IsFiniteSet(k + 1 .. m)
    BY <2>1, FS_Interval
  <2>3. f \in [k .. m -> Int]
    BY <1>2, <1>3, <1>4
  <2> QED
    BY <2>1, <2>2, <2>3
<1>6. (k .. m) \ {k} = k + 1 .. m
  BY <1>3
<1>7. [i \in k + 1 .. m |-> f[i]] = [i \in k + 1 .. m |-> SectorsFor(cached_writes[i].length)]
  BY <1>4, <1>5
<1>8. SumFunction(f) = f[k] + SumFunction([i \in (k .. m) \ {k} |-> f[i]])
  <2>1. PICK S : S = k .. m
    OBVIOUS
  <2>2. IsFiniteSet(S) /\ f \in [S -> Int] /\ k \in S
    BY <1>5, <2>1
  <2>3. /\ SumFunction(f) \in Int
        /\ SumFunction([i \in S \ {k} |-> f[i]]) \in Int
        /\ SumFunction(f) = f[k] + SumFunction([i \in S \ {k} |-> f[i]])
    BY <2>2, SumWithout, ZenonT(30)
  <2> QED
    BY <2>1, <2>3
<1>9. Space(k) = SumFunction(f) /\ Space(k + 1) = SumFunction([i \in k + 1 .. m |-> f[i]])
  BY <1>3, <1>4, <1>7 DEF Space
<1>10. Space(k + 1) \in Nat
  <2>1. [i \in k + 1 .. m |-> f[i]] \in [k + 1 .. m -> Nat]
    BY <1>2, <1>3, <1>4
  <2> QED
    BY <1>5, <1>9, <2>1, SumOfNaturals
<1> QED
  BY <1>4, <1>5, <1>6, <1>8, <1>9, <1>10

\* Behind the last write there is none, and from the first on there is some number.
LEMMA SpaceEnds ==
  ASSUME IInv
  PROVE  Space(Len(cached_writes) + 1) = 0 /\ Space(1) \in Nat
<1>1. Len(cached_writes) \in Nat
  BY DEF IInv, TypeOK, HandleTypeOK
<1>2. Space(Len(cached_writes) + 1) = 0
  <2>1. Len(cached_writes) + 1 .. Len(cached_writes) = {}
    BY <1>1
  <2>2. \A f \in [{} -> Int] : SumFunction(f) = 0
    BY SumOfNothing
  <2> QED
    BY <2>1, <2>2 DEF Space
<1>3. Space(1) \in Nat
  <2>1. CASE Len(cached_writes) = 0
    BY <1>2, <2>1
  <2>2. CASE Len(cached_writes) # 0
    <3>1. 1 \in 1 .. Len(cached_writes)
      BY <1>1, <2>2
    <3>2. cached_writes[1] \in ChunkWrite
      BY <3>1 DEF IInv, TypeOK, HandleTypeOK
    <3>3. SectorsFor(cached_writes[1].length) \in Nat
      BY <3>2, WriteFields
    <3>4. Space(1 + 1) \in Nat /\ Space(1) = SectorsFor(cached_writes[1].length) + Space(1 + 1)
      BY <3>1, SpaceStep
    <3> QED
      BY <3>3, <3>4
  <2> QED
    BY <2>1, <2>2
<1> QED
  BY <1>2, <1>3

\* What the steps of this part leave alone: there are no ordered lists.
LEMMA NoLists ==
  ASSUME IInv, Layout, pc \in {"size", "place", "placeData"},
         pc' \in {"size", "place", "placeData", "finish"},
         UNCHANGED <<status, cached_writes, shrinks, grows>>, ragged' = ragged
  PROVE  /\ Careful' /\ Lists' /\ Sorting' /\ InShrinks' /\ Resizing' /\ InGrows'
         /\ \A k : Space(k)' = Space(k)
<1>1. shrinks = {} /\ grows = {}
  BY DEF IInv, Drawn
<1>2. Lists'
  BY <1>1 DEF Lists
<1>3. Careful' /\ \A k : Space(k)' = Space(k)
  BY StillCareful DEF Layout
<1> QED
  BY <1>2, <1>3, Quiet

\* The size of the file is added up.
LEMMA SizeWriteLayout ==
  ASSUME IInv, Layout, SizeWrite
  PROVE  Layout'
<1>1. /\ pc = "size" /\ cell <= Len(cached_writes) /\ cell' = cell + 1 /\ pc' = "size"
      /\ new_fsize' = new_fsize + SectorsFor(cached_writes[cell].length)
      /\ UNCHANGED <<fsize, ragged, locations, timestamps, cached_writes, shrinks, grows, status>>
  BY DEF SizeWrite, file, handle
<1>2. cell \in 1 .. Len(cached_writes) /\ cached_writes[cell] \in ChunkWrite
  BY <1>1, CellWrite
<1>3. /\ SectorsFor(cached_writes[cell].length) \in Nat /\ Space(cell + 1) \in Nat
      /\ Space(cell) = SectorsFor(cached_writes[cell].length) + Space(cell + 1)
  BY <1>2, SpaceStep, WriteFields
<1>4. new_fsize \in Int /\ new_fsize + Space(cell) = Space(1)
  BY <1>1 DEF IInv, TypeOK, FlushTypeOK, Layout, Placing
<1>5. \A k : Space(k)' = Space(k)
  BY <1>1, NoLists
<1>6. Placing'
  <2>1. (new_fsize + SectorsFor(cached_writes[cell].length)) + Space(cell + 1) = Space(1)
    BY <1>3, <1>4
  <2>2. cell + 1 <= Len(cached_writes) + 1
    BY <1>2
  <2>3. PICK k : k = cell + 1
    OBVIOUS
  <2>4. Space(k)' = Space(k) /\ Space(1)' = Space(1)
    BY <1>5
  <2>5. Space(cell)' = Space(k)
    BY <1>1, <2>3, <2>4 DEF Space
  <2> QED
    BY <1>1, <2>1, <2>2, <2>3, <2>4, <2>5 DEF Placing
<1>7. LayoutOK'
  BY <1>1, SameTables DEF Layout
<1> QED
  BY <1>1, <1>6, <1>7, NoLists DEF Layout

\* The file is given its size; its tables are empty.
LEMMA CreateFileLayout ==
  ASSUME IInv, Layout, CreateFile
  PROVE  Layout'
<1>1. /\ pc = "size" /\ cell > Len(cached_writes) /\ cell' = 1 /\ pc' = "place"
      /\ fsize' = HeaderSectors + new_fsize /\ write_head' = HeaderSectors
      /\ locations' = [c \in Chunk |-> NoLocation]
      /\ UNCHANGED <<ragged, cached_writes, shrinks, grows, status>>
  BY DEF CreateFile, plan
<1>2. cell = Len(cached_writes) + 1 /\ new_fsize + Space(cell) = Space(1)
      /\ Len(cached_writes) \in Nat /\ new_fsize \in Int
  BY <1>1 DEF IInv, TypeOK, HandleTypeOK, FlushTypeOK, Layout, Placing
<1>3. Space(1) = new_fsize /\ Space(1) \in Nat
  BY <1>2, SpaceEnds
<1>4. Live' = {}
  BY <1>1 DEF Live, ContainsChunk, NoLocation
<1>5. LayoutOK'
  BY <1>4 DEF LayoutOK
<1>6. Placing'
  <2>1. Space(1)' = Space(1)
    BY <1>1 DEF Space
  <2>2. Placed(write_head, cell)'
    BY <1>1, <1>3, <1>4, <2>1 DEF Placed, HeaderSectors, Space
  <2> QED
    BY <1>1, <1>2, <2>2 DEF Placing
<1> QED
  BY <1>1, <1>5, <1>6, NoLists DEF Layout

\* What the write that is placed next may count on.
LEMMA NextPlaced ==
  ASSUME IInv, Layout, pc = "place", cell <= Len(cached_writes),
         NEW h \in Int, h = write_head, NEW k, k = cell, NEW p, p = cached_writes[k].pos
  PROVE  /\ k \in 1 .. Len(cached_writes) /\ cached_writes[k] \in ChunkWrite /\ p \in Chunk
         /\ CarefulWrite(cached_writes[k])
         /\ h >= HeaderSectors /\ HeaderSectors \in Int /\ fsize \in Int
         /\ Space(k + 1) \in Nat
         /\ h + SectorsFor(cached_writes[k].length) + Space(k + 1) <= fsize
         /\ \A c \in Live : /\ EndOf(c) \in Int /\ EndOf(c) <= h
                            /\ \E i \in DOMAIN cached_writes :
                                  i < k + 1 /\ cached_writes[i].pos = c
<1>1. k \in 1 .. Len(cached_writes) /\ cached_writes[k] \in ChunkWrite
  BY CellWrite
<1>2. DOMAIN cached_writes = 1 .. Len(cached_writes) /\ fsize \in Int /\ HeaderSectors \in Int
  BY DEF IInv, TypeOK, HandleTypeOK, FileTypeOK, HeaderSectors
<1>3. CarefulWrite(cached_writes[k]) /\ p \in Chunk
      /\ SectorsFor(cached_writes[k].length) \in Nat
  BY <1>1, <1>2, WriteFields DEF Layout, Careful
<1>4. /\ Space(k + 1) \in Nat
      /\ Space(k) = SectorsFor(cached_writes[k].length) + Space(k + 1)
  BY <1>1, SpaceStep
<1>5. Placed(h, k)
  BY DEF Layout, Placing
<1>6. h >= HeaderSectors /\ h + SectorsFor(cached_writes[k].length) + Space(k + 1) <= fsize
  <2>1. h >= HeaderSectors /\ h + Space(k) <= fsize
    BY <1>5 DEF Placed
  <2> QED
    BY <1>3, <1>4, <2>1
<1>7. ASSUME NEW c \in Live
      PROVE  /\ EndOf(c) \in Int /\ EndOf(c) <= h
             /\ \E i \in DOMAIN cached_writes : i < k + 1 /\ cached_writes[i].pos = c
  <2>1. PICK i \in DOMAIN cached_writes : i < k /\ cached_writes[i].pos = c
    BY <1>5 DEF Placed
  <2>2. i < k + 1
    BY <1>1, <1>2, <2>1
  <2>3. EndOf(c) \in Int /\ EndOf(c) <= h
    BY <1>5, Extent DEF Placed, Live
  <2> QED
    BY <2>1, <2>2, <2>3
<1> QED
  BY <1>1, <1>2, <1>3, <1>4, <1>6, <1>7

\* The entry of a clear is cleared.
LEMMA PlaceClearLayout ==
  ASSUME IInv, Layout, PlaceClear
  PROVE  Layout'
<1>1. PICK k, p : k = cell /\ p = cached_writes[k].pos
  OBVIOUS
<1>2. PICK h \in Int : h = write_head
  BY DEF IInv, TypeOK, FlushTypeOK
<1>3. /\ pc = "place" /\ cell <= Len(cached_writes) /\ ClearEntry(p)
      /\ cell' = k + 1 /\ pc' = "place" /\ write_head' = h
      /\ UNCHANGED <<fsize, ragged, cached_writes, shrinks, grows, status>>
  BY <1>1, <1>2 DEF PlaceClear, handle, plan, heads
<1>4. /\ k \in 1 .. Len(cached_writes) /\ cached_writes[k] \in ChunkWrite /\ p \in Chunk
      /\ h >= HeaderSectors /\ HeaderSectors \in Int /\ fsize \in Int
      /\ Space(k + 1) \in Nat
      /\ h + SectorsFor(cached_writes[k].length) + Space(k + 1) <= fsize
      /\ \A c \in Live : /\ EndOf(c) \in Int /\ EndOf(c) <= h
                         /\ \E i \in DOMAIN cached_writes :
                               i < k + 1 /\ cached_writes[i].pos = c
  BY <1>1, <1>2, <1>3, NextPlaced
<1>5. /\ LayoutOK' /\ Live' = Live \ {p}
      /\ \A c \in Chunk \ {p} : EndOf(c)' = EndOf(c)
  BY <1>3, <1>4, ClearKeepsApart DEF Layout
<1>6. h + Space(k + 1) <= fsize
  BY <1>4, WriteFields
<1>7. \A j : Space(j)' = Space(j)
  BY <1>3, NoLists
<1>8. Placed(h, k + 1)'
  <2>1. \A c \in Live' : EndOf(c)' = EndOf(c) /\ c \in Live
    BY <1>5 DEF Live
  <2>2. Space(k + 1)' = Space(k + 1)
    BY <1>7
  <2> QED
    BY <1>3, <1>4, <1>6, <2>1, <2>2 DEF Placed
<1>9. Placing'
  <2>1. k + 1 <= Len(cached_writes) + 1
    BY <1>4
  <2>2. Placed(write_head, cell)'
    BY <1>3, <1>8 DEF Placed, Space
  <2> QED
    BY <1>3, <2>1, <2>2 DEF Placing
<1> QED
  BY <1>3, <1>5, <1>9, NoLists DEF Layout

\* The entry of a chunk is stored at the write head.
LEMMA PlaceEntryLayout ==
  ASSUME IInv, Layout, PlaceEntry
  PROVE  Layout'
<1>1. PICK k, p, n, t : /\ k = cell /\ p = cached_writes[k].pos
                        /\ n = CountFor(cached_writes[k].length)
                        /\ t = cached_writes[k].timestamp
  OBVIOUS
<1>2. PICK h \in Int : h = write_head
  BY DEF IInv, TypeOK, FlushTypeOK
<1>3. /\ pc = "place" /\ cell <= Len(cached_writes) /\ cached_writes[k].length # 0
      /\ SetEntry(p, h, n, t)
      /\ cell' = k /\ pc' = "placeData" /\ write_head' = h
      /\ UNCHANGED <<fsize, ragged, cached_writes, shrinks, grows, status>>
  BY <1>1, <1>2 DEF PlaceEntry, handle, plan, heads
<1>4. /\ k \in 1 .. Len(cached_writes) /\ cached_writes[k] \in ChunkWrite /\ p \in Chunk
      /\ CarefulWrite(cached_writes[k])
      /\ h >= HeaderSectors /\ HeaderSectors \in Int /\ fsize \in Int
      /\ Space(k + 1) \in Nat
      /\ h + SectorsFor(cached_writes[k].length) + Space(k + 1) <= fsize
      /\ \A c \in Live : /\ EndOf(c) \in Int /\ EndOf(c) <= h
                         /\ \E i \in DOMAIN cached_writes :
                               i < k + 1 /\ cached_writes[i].pos = c
  BY <1>1, <1>2, <1>3, NextPlaced
<1>5. /\ n = SectorsFor(cached_writes[k].length) /\ n \in Nat /\ n # 0
      /\ cached_writes[k].data # NoData /\ t \in Nat /\ t # 0
  <2>1. n \in 1 .. 255 /\ n = SectorsFor(cached_writes[k].length)
    BY <1>1, <1>4, CarefulFields
  <2>2. cached_writes[k].data # NoData /\ t # 0
    BY <1>1, <1>3, <1>4, CarefulFields
  <2>3. t \in Nat
    BY <1>1, <1>4, WriteFields
  <2> QED
    BY <2>1, <2>2, <2>3
<1>6. h + n <= fsize /\ (h + n) + Space(k + 1) <= fsize /\ h + n >= HeaderSectors
  BY <1>4, <1>5
<1>7. /\ LayoutOK' /\ Live' = Live \cup {p}
      /\ locations'[p] = [offset |-> h, sector_count |-> n] /\ EndOf(p)' = h + n
      /\ \A c \in Chunk \ {p} : EndOf(c)' = EndOf(c)
  <2>1. LayoutOK /\ p \in Chunk /\ h \in Int /\ n \in Nat /\ t \in Nat
    BY <1>2, <1>4, <1>5 DEF Layout
  <2>2. SetEntry(p, h, n, t) /\ fsize' = fsize
    BY <1>3
  <2>3. h >= HeaderSectors /\ n # 0 /\ t # 0 /\ h + n <= fsize
    BY <1>4, <1>5, <1>6
  <2>4. \A c \in Live \ {p} : EndOf(c) <= h \/ h + n <= locations[c].offset
    BY <1>4
  <2> QED
    BY <2>1, <2>2, <2>3, <2>4, EntryKeepsApart
<1>8. \A j : Space(j)' = Space(j)
  BY <1>3, NoLists
<1>9. Placed(h + n, k + 1)'
  <2>1. ASSUME NEW c \in Live'
        PROVE  /\ EndOf(c)' <= h + n
               /\ \E i \in DOMAIN cached_writes : i < k + 1 /\ cached_writes[i].pos = c
    <3>1. CASE c = p
      <4>1. k \in DOMAIN cached_writes /\ k < k + 1 /\ h + n <= h + n
        BY <1>4, <1>5 DEF IInv, TypeOK, HandleTypeOK
      <4> QED
        BY <1>1, <1>7, <3>1, <4>1
    <3>2. CASE c # p
      <4>1. c \in Live /\ EndOf(c)' = EndOf(c)
        BY <1>7, <3>2 DEF Live
      <4>2. EndOf(c) \in Int /\ EndOf(c) <= h
            /\ \E i \in DOMAIN cached_writes : i < k + 1 /\ cached_writes[i].pos = c
        BY <1>4, <4>1
      <4>3. EndOf(c) <= h + n
        BY <1>4, <1>5, <4>2
      <4> QED
        BY <4>1, <4>2, <4>3
    <3> QED
      BY <3>1, <3>2
  <2>2. Space(k + 1)' = Space(k + 1)
    BY <1>8
  <2> QED
    BY <1>3, <1>6, <2>1, <2>2 DEF Placed
<1>10. EntryAtHead(cached_writes[k])'
  BY <1>1, <1>3, <1>5, <1>7 DEF EntryAtHead
<1>11. Placing'
  <2>1. cached_writes'[cell'] = cached_writes[k] /\ CountFor(cached_writes'[cell'].length) = n
    BY <1>1, <1>3
  <2>2. EntryAtHead(cached_writes[cell])'
    BY <1>3, <1>10 DEF EntryAtHead
  <2>3. Placed(write_head + CountFor(cached_writes[cell].length), cell + 1)'
    BY <1>3, <1>9, <2>1 DEF Placed, Space
  <2> QED
    BY <1>3, <2>2, <2>3 DEF Placing
<1> QED
  BY <1>3, <1>7, <1>11, NoLists DEF Layout

\* A write with a length has data, so the header is not written alone (region.c:404).
LEMMA PlaceGoesOn == Layout /\ PlaceHeaderOnly => FALSE
  BY DEF Layout, Placing, EntryAtHead, PlaceHeaderOnly

\* The data of a chunk is stored, and the head passes over it.
LEMMA PlaceDataLayout ==
  ASSUME IInv, Layout, PlaceData
  PROVE  Layout'
<1>1. PICK k, h : k = cell /\ h = write_head + CountFor(cached_writes[k].length)
  OBVIOUS
<1>2. /\ pc = "placeData" /\ cell' = k + 1 /\ pc' = "place" /\ write_head' = h
      /\ UNCHANGED <<fsize, ragged, locations, timestamps, cached_writes, shrinks, grows, status>>
  BY <1>1 DEF PlaceData, handle, plan
<1>3. Placed(h, k + 1)
  BY <1>1, <1>2 DEF Layout, Placing
<1>4. \A j : Space(j)' = Space(j)
  BY <1>2, NoLists
<1>5. Placed(h, k + 1)'
  BY <1>2, <1>3, <1>4, SameTables DEF Placed
<1>6. k + 1 <= Len(cached_writes) + 1
  BY <1>1, <1>2 DEF IInv, TypeOK, HandleTypeOK, FlushTypeOK, Phases
<1>7. Placing'
  <2>1. Placed(write_head, cell)'
    BY <1>2, <1>5 DEF Placed, Space
  <2> QED
    BY <1>2, <1>6, <2>1 DEF Placing
<1>8. LayoutOK'
  BY <1>2, SameTables DEF Layout
<1> QED
  BY <1>2, <1>7, <1>8, NoLists DEF Layout

\* When all are placed the flush is done.
LEMMA PlacedAllLayout ==
  ASSUME IInv, Layout, PlacedAll
  PROVE  Layout'
<1>1. /\ pc = "place" /\ pc' = "finish"
      /\ UNCHANGED <<fsize, ragged, locations, timestamps, cached_writes, shrinks, grows, status>>
  BY DEF PlacedAll, file, handle, plan
<1>2. LayoutOK'
  BY <1>1, SameTables DEF Layout
<1> QED
  BY <1>1, <1>2, NoLists, Quiet DEF Layout

-----------------------------------------------------------------------------
(* Sorting the writes.  That a live chunk can be read, so that its header  *)
(* says how long it is, RegionContents shows.                              *)

NoneTorn == \A c \in Chunk : View(c) # Torn

\* The header of a chunk that can be read tells its length, and the table its sectors.
LEMMA HeaderTells ==
  ASSUME IInv, NoneTorn, NEW c \in Live
  PROVE  \E l \in Nat : /\ LengthsAt(locations[c].offset) = {l}
                        /\ locations[c].sector_count = SectorsFor(l)
<1>1. PICK o, head : o = locations[c].offset /\ head = sectors[o]
  OBVIOUS
<1>2. c \in Chunk /\ ContainsChunk(c) /\ View(c) # Torn
  BY DEF Live, NoneTorn
<1>3. locations[c].sector_count \in Nat /\ locations[c].sector_count # 0 /\ o \in Int
  BY <1>1, <1>2, Extent DEF ContainsChunk
<1>4. /\ o \in DOMAIN sectors /\ head.data # NoData
      /\ locations[c].sector_count = SectorsFor(PayloadLen[head.data])
      /\ \A k \in 0 .. locations[c].sector_count - 1 :
            o + k \in DOMAIN sectors /\ sectors[o + k] = [head EXCEPT !.part = k]
  BY <1>1, <1>2 DEF View
<1>5. head = [head EXCEPT !.part = 0]
  <2>1. 0 \in 0 .. locations[c].sector_count - 1 /\ o + 0 = o
    BY <1>3
  <2> QED
    BY <1>1, <1>4, <2>1
<1>6. head \in Sector
  BY <1>1, <1>4 DEF IInv, TypeOK, FileTypeOK
<1>7. head.part = 0 /\ head.data \in Payload
  <2>1. DOMAIN head = {"data", "part", "enc"} /\ head.data \in Payload
    BY <1>4, <1>6 DEF Sector
  <2>2. [head EXCEPT !.part = 0].part = 0
    BY <2>1
  <2> QED
    BY <1>5, <2>1, <2>2
<1>8. LengthsAt(o) = {PayloadLen[head.data]}
  BY <1>1, <1>4, <1>7 DEF LengthsAt, Blank
<1>9. PayloadLen[head.data] \in Nat
  BY <1>7, PayloadAssumption
<1> QED
  BY <1>1, <1>4, <1>8, <1>9

\* A longer payload takes no fewer sectors.
LEMMA SectorsMonotone ==
  ASSUME NEW l \in Nat, NEW m \in Nat, l <= m
  PROVE  SectorsFor(l) <= SectorsFor(m)
BY SMT DEF SectorsFor, SectorSize

\* What is added to a list adds what it frees to the sum.
LEMMA FreesWith ==
  ASSUME NEW S, IsFiniteSet(S), NEW x, x \notin S,
         \A g \in S \cup {x} : Frees(g.write) \in Int
  PROVE  FreesOf(S \cup {x}) = Frees(x.write) + FreesOf(S)
<1>1. PICK T, f : T = S \cup {x} /\ f = [g \in T |-> Frees(g.write)]
  OBVIOUS
<1>2. f \in [T -> Int]
  BY <1>1
<1>3. [g \in S |-> f[g]] = [g \in S |-> Frees(g.write)]
  BY <1>1
<1>4. SumFunction(f) = f[x] + SumFunction([g \in S |-> f[g]])
  BY <1>1, <1>2, SumWith
<1> QED
  BY <1>1, <1>3, <1>4 DEF FreesOf

\* So it is with what grows.
LEMMA GrowthWith ==
  ASSUME NEW S, IsFiniteSet(S), NEW x, x \notin S,
         \A g \in S \cup {x} : Growth(g.write) \in Int
  PROVE  GrowthOf(S \cup {x}) = Growth(x.write) + GrowthOf(S)
<1>1. PICK T, f : T = S \cup {x} /\ f = [g \in T |-> Growth(g.write)]
  OBVIOUS
<1>2. f \in [T -> Int]
  BY <1>1
<1>3. [g \in S |-> f[g]] = [g \in S |-> Growth(g.write)]
  BY <1>1
<1>4. SumFunction(f) = f[x] + SumFunction([g \in S |-> f[g]])
  BY <1>1, <1>2, SumWith
<1> QED
  BY <1>1, <1>3, <1>4 DEF GrowthOf

\* And with what the shrinks sorted in so far free.
LEMMA FreedWith ==
  ASSUME NEW I, IsFiniteSet(I), NEW x, x \notin I,
         \A i \in I \cup {x} : Frees(cached_writes[i]) \in Int
  PROVE  SumFunction([i \in I \cup {x} |-> Frees(cached_writes[i])])
            = Frees(cached_writes[x]) + SumFunction([i \in I |-> Frees(cached_writes[i])])
<1>1. PICK T, f : T = I \cup {x} /\ f = [i \in T |-> Frees(cached_writes[i])]
  OBVIOUS
<1>2. f \in [T -> Int]
  BY <1>1
<1>3. [i \in I |-> f[i]] = [i \in I |-> Frees(cached_writes[i])]
  BY <1>1
<1>4. SumFunction(f) = f[x] + SumFunction([i \in I |-> f[i]])
  BY <1>1, <1>2, SumWith
<1> QED
  BY <1>1, <1>3, <1>4

\* The writes of the list, what they free and grow by.
LEMMA CachedFields ==
  ASSUME IInv, Careful, NEW i \in 1 .. Len(cached_writes)
  PROVE  /\ cached_writes[i] \in ChunkWrite /\ cached_writes[i].pos \in Chunk
         /\ CarefulWrite(cached_writes[i])
         /\ CountFor(cached_writes[i].length) = SectorsFor(cached_writes[i].length)
         /\ CountFor(cached_writes[i].length) \in 1 .. 255
         /\ Frees(cached_writes[i]) \in Int /\ Growth(cached_writes[i]) \in Int
<1>1. cached_writes[i] \in ChunkWrite /\ CarefulWrite(cached_writes[i])
  BY DEF IInv, TypeOK, HandleTypeOK, Careful
<1>2. cached_writes[i].pos \in Chunk
  BY <1>1, WriteFields
<1>3. /\ CountFor(cached_writes[i].length) = SectorsFor(cached_writes[i].length)
      /\ CountFor(cached_writes[i].length) \in 1 .. 255
  BY <1>1, CarefulFields
<1>4. locations[cached_writes[i].pos].sector_count \in Nat
  BY <1>2, Extent
<1>5. Frees(cached_writes[i]) \in Int /\ Growth(cached_writes[i]) \in Int
  <2>1. PICK n : n = CountFor(cached_writes[i].length)
    OBVIOUS
  <2>2. n \in Int
    BY <1>3, <2>1
  <2> QED
    BY <1>4, <2>1, <2>2 DEF Frees, Growth
<1> QED
  BY <1>1, <1>2, <1>3, <1>5

\* What TailSurvives and the sums speak of, none of which the sorting changes.
LEMMA SameFile ==
  ASSUME UNCHANGED <<fsize, locations, timestamps, sectors, cached_writes>>
  PROVE  /\ ShrinkWrites' = ShrinkWrites /\ Freed' = Freed
         /\ TailSurvives' <=> TailSurvives
<1>1. /\ Live' = Live
      /\ \A c : EndOf(c)' = EndOf(c) /\ (ContainsChunk(c)' <=> ContainsChunk(c))
      /\ \A w : Frees(w)' = Frees(w)
  BY SameTables
<1>2. \A o : LengthsAt(o)' = LengthsAt(o)
  BY DEF LengthsAt
<1>3. ShrinkWrites' = ShrinkWrites
  BY <1>1, <1>2 DEF ShrinkWrites
<1>4. Freed' = Freed
  BY <1>1, <1>3 DEF Freed
<1> QED
  BY <1>1, <1>3, <1>4 DEF TailSurvives

\* The old chunk of a write lies inside the mapping.
LEMMA ClassifyInside ==
  ASSUME IInv, Layout, ClassifyFault
  PROVE  FALSE
<1>1. PICK c : c = cached_writes[cell].pos
  OBVIOUS
<1>2. ContainsChunk(c) /\ Outside(locations[c].offset)
      /\ pc = "classify" /\ cell <= Len(cached_writes)
  BY <1>1 DEF ClassifyFault, Classifying
<1>3. c \in Chunk /\ c \in Live
  <2>1. cached_writes[cell] \in ChunkWrite
    BY <1>2, CellWrite
  <2>2. c \in Chunk
    BY <1>1, <2>1, WriteFields
  <2> QED
    BY <1>2, <2>2 DEF Live
<1>4. /\ locations[c].offset >= HeaderSectors /\ EndOf(c) <= fsize
      /\ EndOf(c) > locations[c].offset /\ locations[c].offset \in Int /\ EndOf(c) \in Int
  BY <1>3, Extent DEF Layout, LayoutOK
<1>5. fsize \in Int
  BY DEF IInv, TypeOK, FileTypeOK
<1> QED
  BY <1>2, <1>4, <1>5 DEF Outside, HeaderSectors

\* The ranks sorted so far are numbers of writes; the next cell is none of them.
LEMMA SoFar ==
  ASSUME IInv, Layout, pc = "classify", cell <= Len(cached_writes)
  PROVE  /\ cell \in 1 .. Len(cached_writes) /\ cell \notin ShrinksSoFar
         /\ ShrinksSoFar \subseteq 1 .. Len(cached_writes) /\ IsFiniteSet(ShrinksSoFar)
         /\ {i \in ShrinkWrites : i < cell + 1}
               = IF cell \in ShrinkWrites THEN ShrinksSoFar \cup {cell} ELSE ShrinksSoFar
         /\ \A g \in shrinks \cup grows : g.rank # cell
<1>1. cell \in 1 .. Len(cached_writes)
  BY CellWrite
<1>2. Len(cached_writes) \in Nat /\ DOMAIN cached_writes = 1 .. Len(cached_writes)
  BY DEF IInv, TypeOK, HandleTypeOK
<1>3. ShrinkWrites \subseteq 1 .. Len(cached_writes)
  BY <1>2 DEF ShrinkWrites
<1>4. \A i \in 1 .. Len(cached_writes) : i < cell + 1 <=> (i < cell \/ i = cell)
  BY <1>1, <1>2
<1>5. cell \notin ShrinksSoFar /\ ShrinksSoFar \subseteq 1 .. Len(cached_writes)
  <2>1. ~(cell < cell)
    BY <1>1
  <2> QED
    BY <1>3, <2>1 DEF ShrinksSoFar
<1>6. IsFiniteSet(ShrinksSoFar)
  <2>1. IsFiniteSet(1 .. Len(cached_writes))
    BY <1>2, FS_Interval
  <2> QED
    BY <1>5, <2>1, FS_Subset
<1>7. {i \in ShrinkWrites : i < cell + 1}
         = IF cell \in ShrinkWrites THEN ShrinksSoFar \cup {cell} ELSE ShrinksSoFar
  BY <1>1, <1>3, <1>4 DEF ShrinksSoFar
<1>8. ASSUME NEW g \in shrinks \cup grows PROVE g.rank # cell
  <2>1. g.rank < cell /\ g.rank \in Int
    BY <1>2 DEF IInv, Drawn
  <2> QED
    BY <1>1, <2>1
<1> QED
  BY <1>1, <1>5, <1>6, <1>7, <1>8

\* What a step of the sorting leaves alone.
LEMMA StillSorting ==
  ASSUME IInv, Layout, pc = "classify", cell <= Len(cached_writes), cell' = cell + 1,
         UNCHANGED <<file, handle, pc, heads, status>>
  PROVE  /\ Careful' /\ LayoutOK' /\ Placing' /\ InShrinks' /\ Resizing' /\ InGrows'
         /\ cell' <= Len(cached_writes') + 1 /\ TailSurvives'
         /\ ShrinksSoFar' = IF cell \in ShrinkWrites THEN ShrinksSoFar \cup {cell} ELSE ShrinksSoFar
         /\ \A i : Frees(cached_writes[i])' = Frees(cached_writes[i])
         /\ read_head' = 0 /\ write_head' = 0
<1>1. UNCHANGED <<fsize, ragged, locations, timestamps, sectors, cached_writes, status,
                  read_head, write_head>>
  BY DEF file, handle, heads
<1>2. ShrinkWrites' = ShrinkWrites /\ (TailSurvives' <=> TailSurvives)
  BY <1>1, SameFile
<1>3. ShrinksSoFar' = {i \in ShrinkWrites : i < cell + 1}
  BY <1>2 DEF ShrinksSoFar
<1>4. cell' <= Len(cached_writes') + 1
  <2>1. cell \in Nat /\ Len(cached_writes) \in Nat
    BY DEF IInv, TypeOK, FlushTypeOK, HandleTypeOK
  <2> QED
    BY <1>1, <2>1
<1>5. read_head = 0 /\ write_head = 0 /\ TailSurvives
  BY DEF Layout, Lists, Sorting
<1>6. \A w : Frees(w)' = Frees(w)
  BY <1>1, SameTables
<1>7. Careful' /\ LayoutOK'
  BY <1>1, SameTables, StillCareful DEF Layout
<1>8. \A i : Frees(cached_writes[i])' = Frees(cached_writes[i])
  BY <1>1, <1>6 DEF Frees
<1> QED
  BY <1>1, <1>2, <1>3, <1>4, <1>5, <1>7, <1>8, SoFar, Quiet

\* A clear of what is not there is passed over.
LEMMA ClassifySkipLayout ==
  ASSUME IInv, Layout, ClassifySkip
  PROVE  Layout'
<1>1. /\ pc = "classify" /\ cell <= Len(cached_writes) /\ cell' = cell + 1
      /\ ~ContainsChunk(cached_writes[cell].pos)
      /\ UNCHANGED <<file, handle, pc, heads, status>>
      /\ UNCHANGED <<locations, timestamps, cached_writes, shrinks, grows, sectors_added>>
  BY DEF ClassifySkip, Classifying, file, handle, plan
<1>2. cell \notin ShrinkWrites
  BY <1>1 DEF ShrinkWrites
<1>3. /\ Careful' /\ LayoutOK' /\ Placing' /\ InShrinks' /\ Resizing' /\ InGrows'
      /\ cell' <= Len(cached_writes') + 1 /\ TailSurvives' /\ ShrinksSoFar' = ShrinksSoFar
      /\ \A i : Frees(cached_writes[i])' = Frees(cached_writes[i])
      /\ read_head' = 0 /\ write_head' = 0
  BY <1>1, <1>2, StillSorting
<1>4. Sorting /\ Lists
  BY DEF Layout
<1>5. Sorting'
  <2>1. [i \in ShrinksSoFar |-> Frees(cached_writes[i])]' = [i \in ShrinksSoFar |-> Frees(cached_writes[i])]
    BY <1>3
  <2>2. FreesOf(shrinks)' = FreesOf(shrinks) /\ (ShrinksFit(shrinks)' <=> ShrinksFit(shrinks))
        /\ Live' = Live
    BY <1>1, SameTables DEF FreesOf, ShrinksFit
  <2>3. /\ ShrinksFit(shrinks) /\ {g.rank : g \in shrinks} = ShrinksSoFar
        /\ \A g \in grows : g.write.pos \in Live => g.order = locations[g.write.pos].offset
        /\ FreesOf(shrinks) = SumFunction([i \in ShrinksSoFar |-> Frees(cached_writes[i])])
    BY <1>1, <1>4 DEF Sorting
  <2> QED
    BY <1>1, <1>3, <2>1, <2>2, <2>3 DEF Sorting
<1>6. Lists'
  <2>1. GrowthOf(grows)' = GrowthOf(grows) /\ (GrowsFit(grows)' <=> GrowsFit(grows))
    BY <1>1, SameTables DEF GrowthOf, GrowsFit
  <2> QED
    BY <1>1, <1>3, <1>4, <2>1 DEF Lists
<1> QED
  BY <1>3, <1>5, <1>6 DEF Layout

\* A write that goes to the shrinks frees sectors or none.
LEMMA ClassifyShrinkLayout ==
  ASSUME IInv, Layout, NoneTorn, ClassifyShrink
  PROVE  Layout'
<1>1. PICK w, x, p : w = cached_writes[cell] /\ x = Ordered(w) /\ p = w.pos
  OBVIOUS
<1>2. /\ pc = "classify" /\ cell <= Len(cached_writes) /\ cell' = cell + 1
      /\ ContainsChunk(p)
      /\ w.data = NoData \/ \E l \in LengthsAt(locations[p].offset) : w.length <= l
      /\ shrinks' = shrinks \cup {x}
      /\ UNCHANGED <<file, handle, pc, heads, status>>
      /\ UNCHANGED <<locations, timestamps, cached_writes, grows, sectors_added>>
  BY <1>1 DEF ClassifyShrink, Classifying, file, handle
<1>3. /\ cell \in 1 .. Len(cached_writes) /\ cell \notin ShrinksSoFar
      /\ ShrinksSoFar \subseteq 1 .. Len(cached_writes) /\ IsFiniteSet(ShrinksSoFar)
      /\ \A g \in shrinks \cup grows : g.rank # cell
  BY <1>2, SoFar
<1>4. cell \in ShrinkWrites
  <2>1. DOMAIN cached_writes = 1 .. Len(cached_writes)
    BY DEF IInv, TypeOK, HandleTypeOK
  <2> QED
    BY <1>1, <1>2, <1>3, <2>1 DEF ShrinkWrites
<1>5. /\ Careful' /\ LayoutOK' /\ Placing' /\ InShrinks' /\ Resizing' /\ InGrows'
      /\ cell' <= Len(cached_writes') + 1 /\ TailSurvives'
      /\ ShrinksSoFar' = ShrinksSoFar \cup {cell}
      /\ \A i : Frees(cached_writes[i])' = Frees(cached_writes[i])
      /\ read_head' = 0 /\ write_head' = 0
  BY <1>2, <1>4, StillSorting
<1>6. Sorting /\ Lists /\ Careful
  BY DEF Layout
<1>7. /\ w \in ChunkWrite /\ p \in Chunk /\ p \in Live
      /\ CountFor(w.length) = SectorsFor(w.length) /\ CountFor(w.length) \in 1 .. 255
      /\ Frees(w) \in Int
  BY <1>1, <1>2, <1>3, <1>6, CachedFields DEF Live
<1>8. x.write = w /\ x.order = locations[p].offset /\ x.rank = cell
  BY <1>1, <1>2 DEF Ordered
<1>9. Frees(w) >= 0
  <2>1. PICK old : old = locations[p].sector_count
    OBVIOUS
  <2>2. old \in Nat
    BY <1>7, <2>1, Extent
  <2>3. CASE w.data = NoData
    BY <1>1, <2>1, <2>2, <2>3 DEF Frees
  <2>4. CASE w.data # NoData
    <3>1. PICK l \in Nat : LengthsAt(locations[p].offset) = {l} /\ old = SectorsFor(l)
      BY <1>7, <2>1, HeaderTells
    <3>2. w.length <= l /\ w.length \in Nat
      BY <1>2, <1>7, <2>4, <3>1, WriteFields
    <3>3. CountFor(w.length) <= old
      BY <1>7, <3>1, <3>2, SectorsMonotone
    <3>4. PICK n : n = CountFor(w.length)
      OBVIOUS
    <3>5. n \in Int
      BY <1>7, <3>4
    <3> QED
      BY <1>1, <2>1, <2>2, <2>4, <3>3, <3>4, <3>5 DEF Frees
  <2> QED
    BY <2>3, <2>4
<1>10. PICK S : S = shrinks
  OBVIOUS
<1>11. /\ IsFiniteSet(S) /\ x \notin S /\ \A g \in S \cup {x} : Frees(g.write) \in Int
  <2>1. IsFiniteSet(S) /\ \A g \in S : Frees(g.write) \in Int
    BY <1>6, <1>10, ListsFinite, ListedFields
  <2> QED
    BY <1>3, <1>7, <1>8, <1>10, <2>1
<1>12. FreesOf(S \cup {x}) = Frees(w) + FreesOf(S)
  BY <1>8, <1>11, FreesWith
<1>13. SumFunction([i \in ShrinksSoFar \cup {cell} |-> Frees(cached_writes[i])])
          = Frees(w) + SumFunction([i \in ShrinksSoFar |-> Frees(cached_writes[i])])
  <2>1. \A i \in ShrinksSoFar \cup {cell} : Frees(cached_writes[i]) \in Int
    BY <1>3, <1>6, CachedFields
  <2> QED
    BY <1>1, <1>3, <2>1, FreedWith
<1>14. /\ ShrinksFit(S) /\ {g.rank : g \in S} = ShrinksSoFar
       /\ \A g \in grows : g.write.pos \in Live => g.order = locations[g.write.pos].offset
       /\ FreesOf(S) = SumFunction([i \in ShrinksSoFar |-> Frees(cached_writes[i])])
  BY <1>2, <1>6, <1>10 DEF Sorting
<1>15. ShrinksFit(S \cup {x})
  BY <1>1, <1>7, <1>8, <1>9, <1>14 DEF ShrinksFit
<1>16. {g.rank : g \in S \cup {x}} = ShrinksSoFar \cup {cell}
  BY <1>8, <1>14
<1>17. PICK T : T = S \cup {x}
  OBVIOUS
<1>18. /\ FreesOf(T)' = FreesOf(T) /\ (ShrinksFit(T)' <=> ShrinksFit(T)) /\ Live' = Live
       /\ shrinks' = T
  BY <1>2, <1>10, <1>17, SameTables
<1>19. Sorting'
  <2>1. [i \in ShrinksSoFar |-> Frees(cached_writes[i])]'
           = [i \in ShrinksSoFar \cup {cell} |-> Frees(cached_writes[i])]
    BY <1>5
  <2>2. FreesOf(T)' = SumFunction([i \in ShrinksSoFar |-> Frees(cached_writes[i])])'
    BY <1>12, <1>13, <1>14, <1>17, <1>18, <2>1
  <2>3. FreesOf(shrinks)' = FreesOf(T)' /\ (ShrinksFit(shrinks)' <=> ShrinksFit(T)')
    BY <1>18 DEF FreesOf, ShrinksFit
  <2>4. {g.rank : g \in shrinks}' = ShrinksSoFar'
    BY <1>5, <1>16, <1>17, <1>18
  <2> QED
    BY <1>2, <1>5, <1>14, <1>15, <1>17, <1>18, <2>2, <2>3, <2>4 DEF Sorting
<1>20. Lists'
  <2>1. GrowthOf(grows)' = GrowthOf(grows) /\ (GrowsFit(grows)' <=> GrowsFit(grows))
    BY <1>2, SameTables DEF GrowthOf, GrowsFit
  <2>2. T \cap grows = {}
    BY <1>3, <1>6, <1>8, <1>10, <1>17 DEF Lists
  <2> QED
    BY <1>2, <1>5, <1>6, <1>18, <2>1, <2>2 DEF Lists
<1> QED
  BY <1>5, <1>19, <1>20 DEF Layout

\* A write that goes to the grows needs sectors or none, and they are added up.
LEMMA ClassifyGrowLayout ==
  ASSUME IInv, Layout, NoneTorn, ClassifyGrow
  PROVE  Layout'
<1>1. PICK w, x, p : w = cached_writes[cell] /\ x = Ordered(w) /\ p = w.pos
  OBVIOUS
<1>2. /\ pc = "classify" /\ cell <= Len(cached_writes) /\ cell' = cell + 1
      /\ w.data # NoData
      /\ ContainsChunk(p) => \E len \in LengthsAt(locations[p].offset) : w.length > len
      /\ grows' = grows \cup {x}
      /\ sectors_added' = sectors_added + SectorsFor(w.length)
                           - (IF ContainsChunk(p) THEN locations[p].sector_count ELSE 0)
      /\ UNCHANGED <<file, handle, pc, heads, status>>
      /\ UNCHANGED <<locations, timestamps, cached_writes, shrinks>>
  BY <1>1 DEF ClassifyGrow, Classifying, file, handle
<1>3. /\ cell \in 1 .. Len(cached_writes)
      /\ \A g \in shrinks \cup grows : g.rank # cell
  BY <1>2, SoFar
<1>4. Sorting /\ Lists /\ Careful
  BY DEF Layout
<1>5. /\ w \in ChunkWrite /\ p \in Chunk
      /\ CountFor(w.length) = SectorsFor(w.length) /\ CountFor(w.length) \in 1 .. 255
      /\ Growth(w) \in Int
  BY <1>1, <1>3, <1>4, CachedFields
<1>6. PICK old, n : old = locations[p].sector_count /\ n = CountFor(w.length)
  OBVIOUS
<1>7. old \in Nat /\ n \in Nat /\ n = SectorsFor(w.length)
  BY <1>5, <1>6, Extent
<1>8. ContainsChunk(p) => /\ p \in Live
                          /\ \E l \in Nat : /\ LengthsAt(locations[p].offset) = {l}
                                            /\ old = SectorsFor(l) /\ l < w.length
  <2> SUFFICES ASSUME ContainsChunk(p)
               PROVE  /\ p \in Live
                      /\ \E l \in Nat : /\ LengthsAt(locations[p].offset) = {l}
                                        /\ old = SectorsFor(l) /\ l < w.length
    OBVIOUS
  <2>1. p \in Live
    BY <1>5 DEF Live
  <2>2. PICK l \in Nat : LengthsAt(locations[p].offset) = {l} /\ old = SectorsFor(l)
    BY <1>6, <2>1, HeaderTells
  <2>3. w.length > l
    BY <1>2, <2>2
  <2>4. l < w.length
    BY <1>5, <2>2, <2>3, WriteFields
  <2> QED
    BY <2>1, <2>2, <2>4
<1>9. Growth(w) >= 0
  <2>1. CASE ContainsChunk(p)
    <3>1. PICK l \in Nat : old = SectorsFor(l) /\ l < w.length
      BY <1>8, <2>1
    <3>2. w.length \in Nat /\ l <= w.length
      BY <1>5, <3>1, WriteFields
    <3>3. old <= n
      BY <1>7, <3>1, <3>2, SectorsMonotone
    <3> QED
      BY <1>1, <1>6, <1>7, <2>1, <3>3 DEF Growth
  <2>2. CASE ~ContainsChunk(p)
    BY <1>1, <1>6, <1>7, <2>2 DEF Growth
  <2> QED
    BY <2>1, <2>2
<1>10. cell \notin ShrinkWrites
  <2> SUFFICES ASSUME cell \in ShrinkWrites PROVE FALSE
    OBVIOUS
  <2>1. ContainsChunk(p) /\ \E l \in LengthsAt(locations[p].offset) : w.length <= l
    BY <1>1, <1>2 DEF ShrinkWrites
  <2>2. PICK l \in Nat : LengthsAt(locations[p].offset) = {l} /\ l < w.length
    BY <1>8, <2>1
  <2>3. w.length <= l /\ w.length \in Nat
    BY <1>5, <2>1, <2>2, WriteFields
  <2> QED
    BY <2>2, <2>3
<1>11. /\ Careful' /\ LayoutOK' /\ Placing' /\ InShrinks' /\ Resizing' /\ InGrows'
       /\ cell' <= Len(cached_writes') + 1 /\ TailSurvives'
       /\ ShrinksSoFar' = ShrinksSoFar
       /\ \A i : Frees(cached_writes[i])' = Frees(cached_writes[i])
       /\ read_head' = 0 /\ write_head' = 0
  BY <1>2, <1>10, StillSorting
<1>12. x.write = w /\ (p \in Live => x.order = locations[p].offset) /\ x.rank = cell
  BY <1>1 DEF Ordered, Live
<1>13. PICK S, T : S = grows /\ T = S \cup {x}
  OBVIOUS
<1>14. GrowthOf(T) = Growth(w) + GrowthOf(S) /\ GrowthOf(S) \in Int
  <2>1. IsFiniteSet(S) /\ \A g \in S : Growth(g.write) \in Int
    BY <1>4, <1>13, ListsFinite, ListedFields
  <2>2. x \notin S /\ \A g \in S \cup {x} : Growth(g.write) \in Int
    BY <1>3, <1>5, <1>12, <1>13, <2>1
  <2>3. GrowthOf(S \cup {x}) = Growth(x.write) + GrowthOf(S)
    BY <2>1, <2>2, GrowthWith
  <2>4. GrowthOf(S) \in Nat
    BY <1>2, <1>4, <1>13, GrowthBounds DEF Lists
  <2> QED
    BY <1>12, <1>13, <2>3, <2>4
<1>15. \A g \in T : g.write.pos \in Live => g.order = locations[g.write.pos].offset
  <2>1. \A g \in S : g.write.pos \in Live => g.order = locations[g.write.pos].offset
    BY <1>2, <1>4, <1>13 DEF Sorting
  <2> QED
    BY <1>1, <1>12, <1>13, <2>1
<1>16. GrowsFit(T)
  <2>1. \A g \in T : g.write.data # NoData /\ Growth(g.write) >= 0
    <3>1. \A g \in S : g.write.data # NoData /\ Growth(g.write) >= 0
      BY <1>2, <1>4, <1>13 DEF Lists, GrowsFit
    <3> QED
      BY <1>2, <1>9, <1>12, <1>13, <3>1
  <2> QED
    BY <1>15, <2>1 DEF GrowsFit
<1>17. sectors_added' = GrowthOf(T)
  <2>1. sectors_added = GrowthOf(S)
    BY <1>2, <1>4, <1>13 DEF Lists
  <2>2. sectors_added' = GrowthOf(S) + n - (IF ContainsChunk(p) THEN old ELSE 0)
    BY <1>2, <1>6, <1>7, <2>1
  <2>3. Growth(w) = n - (IF ContainsChunk(p) THEN old ELSE 0)
    BY <1>1, <1>6 DEF Growth
  <2> QED
    BY <1>7, <1>14, <2>2, <2>3
<1>18. /\ GrowthOf(T)' = GrowthOf(T) /\ (GrowsFit(T)' <=> GrowsFit(T)) /\ Live' = Live
       /\ grows' = T
       /\ FreesOf(shrinks)' = FreesOf(shrinks) /\ (ShrinksFit(shrinks)' <=> ShrinksFit(shrinks))
  BY <1>2, <1>13, SameTables DEF FreesOf, ShrinksFit
<1>19. Sorting'
  <2>1. [i \in ShrinksSoFar |-> Frees(cached_writes[i])]' = [i \in ShrinksSoFar |-> Frees(cached_writes[i])]
    BY <1>11
  <2>2. /\ ShrinksFit(shrinks) /\ {g.rank : g \in shrinks} = ShrinksSoFar
        /\ FreesOf(shrinks) = SumFunction([i \in ShrinksSoFar |-> Frees(cached_writes[i])])
    BY <1>2, <1>4 DEF Sorting
  <2> QED
    BY <1>2, <1>11, <1>15, <1>18, <2>1, <2>2 DEF Sorting
<1>20. Lists'
  <2>1. GrowthOf(grows)' = GrowthOf(T)' /\ (GrowsFit(grows)' <=> GrowsFit(T)')
    BY <1>18 DEF GrowthOf, GrowsFit
  <2>2. shrinks \cap T = {}
    BY <1>3, <1>4, <1>12, <1>13 DEF Lists
  <2> QED
    BY <1>2, <1>11, <1>16, <1>17, <1>18, <2>1, <2>2 DEF Lists
<1> QED
  BY <1>11, <1>19, <1>20 DEF Layout

\* When all are sorted the heads are set on the first chunk that shrinks, if any does.
LEMMA ClassifiedLayout ==
  ASSUME IInv, Layout, Classified
  PROVE  Layout'
<1>1. /\ pc = "classify" /\ cell > Len(cached_writes) /\ new_fsize' = fsize /\ pc' = "shrink"
      /\ shrinks = {} => read_head' = read_head /\ write_head' = write_head
      /\ shrinks # {} => \E g \in shrinks : /\ HeadsShrinks(g)
                                            /\ read_head' = locations[g.write.pos].offset
                                            /\ write_head' = read_head'
      /\ UNCHANGED <<fsize, ragged, locations, timestamps, cached_writes, shrinks, grows,
                     sectors_added, status>>
  BY DEF Classified, file, handle, heads
<1>2. /\ Careful /\ LayoutOK /\ Lists /\ TailSurvives /\ ShrinksFit(shrinks)
      /\ {g.rank : g \in shrinks} = ShrinksSoFar
      /\ FreesOf(shrinks) = SumFunction([i \in ShrinksSoFar |-> Frees(cached_writes[i])])
  BY <1>1 DEF Layout, Sorting
<1>3. ShrinksSoFar = ShrinkWrites
  <2>1. DOMAIN cached_writes = 1 .. Len(cached_writes) /\ Len(cached_writes) \in Nat
        /\ cell \in Nat
    BY DEF IInv, TypeOK, HandleTypeOK, FlushTypeOK
  <2>2. \A i \in ShrinkWrites : i < cell
    BY <1>1, <2>1 DEF ShrinkWrites
  <2> QED
    BY <2>2 DEF ShrinksSoFar
<1>4. FreesOf(shrinks) = Freed
  BY <1>2, <1>3 DEF Freed
<1>5. fsize \in Nat /\ HeaderSectors \in Nat
  BY DEF IInv, TypeOK, FileTypeOK, HeaderSectors
<1>6. ASSUME NEW c \in Live, \A g \in shrinks : g.order < locations[c].offset
      PROVE  EndOf(c) <= fsize - FreesOf(shrinks)
  <2>1. ASSUME NEW i \in ShrinkWrites
        PROVE  locations[cached_writes[i].pos].offset < locations[c].offset
    <3>1. PICK g \in shrinks : g.rank = i
      BY <1>2, <1>3
    <3>2. g.write = cached_writes[i]
      BY <3>1, ListedWrite
    <3>3. g.order = locations[g.write.pos].offset
      BY <1>2 DEF ShrinksFit
    <3> QED
      BY <1>6, <3>2, <3>3
  <2> QED
    BY <1>2, <1>4, <2>1 DEF TailSurvives
<1>7. PICK r : r = read_head'
  OBVIOUS
<1>8. /\ write_head' = r /\ r \in Int /\ r <= fsize
      /\ shrinks # {} => r >= HeaderSectors
      /\ \A c \in Live : EndOf(c) <= r \/ locations[c].offset >= r
      /\ \A g \in shrinks : g.order >= r
  <2>1. CASE shrinks = {}
    <3>1. r = 0 /\ write_head' = 0
      BY <1>1, <1>2, <1>7, <2>1 DEF Lists
    <3>2. \A c \in Live : locations[c].offset >= 0
      <4>1. ASSUME NEW c \in Live PROVE locations[c].offset >= 0
        <5>1. locations[c].offset >= HeaderSectors /\ locations[c].offset \in Int
          BY <1>2, Extent DEF LayoutOK, Live
        <5> QED
          BY <5>1 DEF HeaderSectors
      <4> QED
        BY <4>1
    <3> QED
      BY <1>5, <2>1, <3>1, <3>2
  <2>2. CASE shrinks # {}
    <3>1. PICK g \in shrinks : HeadsShrinks(g) /\ r = locations[g.write.pos].offset
                               /\ write_head' = r
      BY <1>1, <1>7, <2>2
    <3>2. PICK p : p = g.write.pos
      OBVIOUS
    <3>3. p \in Live /\ p \in Chunk /\ r = locations[p].offset /\ g.order = r
      BY <1>2, <3>1, <3>2 DEF ShrinksFit, Live
    <3>4. /\ r \in Int /\ EndOf(p) \in Int /\ EndOf(p) > r /\ r >= HeaderSectors
          /\ EndOf(p) <= fsize
      BY <1>2, <3>3, Extent DEF LayoutOK
    <3>5. ASSUME NEW c \in Live PROVE EndOf(c) <= r \/ locations[c].offset >= r
      <4>1. CASE c = p
        BY <3>3, <3>4, <4>1
      <4>2. CASE c # p
        <5>1. EndOf(c) <= r \/ EndOf(p) <= locations[c].offset
          BY <1>2, <3>3, <4>2 DEF LayoutOK
        <5>2. locations[c].offset \in Int
          BY Extent DEF Live
        <5> QED
          BY <3>4, <5>1, <5>2
      <4> QED
        BY <4>1, <4>2
    <3>6. ASSUME NEW h \in shrinks PROVE h.order >= r
      <4>1. h.order \in Int
        BY <1>2, ListedFields
      <4>2. g.order < h.order \/ g.order = h.order
        BY <3>1 DEF HeadsShrinks
      <4> QED
        BY <3>3, <3>4, <4>1, <4>2
    <3> QED
      BY <1>5, <3>1, <3>4, <3>5, <3>6
  <2> QED
    BY <2>1, <2>2
<1>9. /\ FreesOf(shrinks)' = FreesOf(shrinks) /\ (ShrinksFit(shrinks)' <=> ShrinksFit(shrinks))
      /\ GrowthOf(grows)' = GrowthOf(grows) /\ (GrowsFit(grows)' <=> GrowsFit(grows))
      /\ Live' = Live /\ (\A c : EndOf(c)' = EndOf(c)) /\ LayoutOK'
  BY <1>1, <1>2, SameTables DEF FreesOf, ShrinksFit, GrowthOf, GrowsFit
<1>10. ShrinkLayout(shrinks, r, r)'
  <2>1. r <= r /\ r - r = fsize - fsize
    BY <1>5, <1>8
  <2> QED
    BY <1>1, <1>2, <1>6, <1>8, <1>9, <2>1 DEF ShrinkLayout
<1>11. InShrinks'
  BY <1>1, <1>7, <1>8, <1>10 DEF InShrinks, ShrinkLayout, FreesOf, ShrinksFit
<1>12. Lists'
  BY <1>1, <1>2, <1>9 DEF Lists
<1>13. Careful'
  BY <1>1, <1>2, StillCareful
<1> QED
  BY <1>1, <1>9, <1>11, <1>12, <1>13, Quiet DEF Layout

-----------------------------------------------------------------------------
(* Between flushes.                                                        *)

\* A step to or at rest that leaves the file alone keeps the layout.
LEMMA AtRest ==
  ASSUME Layout, IInv', pc' = "idle", Careful', sectors_added' = 0, read_head' = 0,
         write_head' = 0,
         UNCHANGED <<fsize, locations, timestamps>>
  PROVE  Layout'
<1>1. shrinks' = {} /\ grows' = {}
  BY DEF IInv, Drawn
<1>2. Lists'
  BY <1>1 DEF Lists
<1>3. LayoutOK'
  BY SameTables DEF Layout
<1> QED
  BY <1>2, <1>3, Quiet DEF Layout

\* The file of a careful client is laid out well from the start.
LEMMA InitLayout == CarefulInit => Layout
<1> SUFFICES ASSUME CarefulInit PROVE Layout
  OBVIOUS
<1>1. /\ ~ragged /\ LayoutOK /\ cached_writes = <<>> /\ status = "ok" /\ pc = "idle"
      /\ shrinks = {} /\ grows = {} /\ sectors_added = 0 /\ read_head = 0 /\ write_head = 0
  BY DEF CarefulInit, HistoryInit, Sound, Init, NoFlush
<1>2. Careful
  BY <1>1 DEF Careful
<1>3. Lists
  BY <1>1 DEF Lists
<1>4. Placing /\ Sorting /\ InShrinks /\ Resizing /\ InGrows
  BY <1>1 DEF Placing, Sorting, InShrinks, Resizing, InGrows
<1> QED
  BY <1>1, <1>2, <1>3, <1>4 DEF Layout

\* Opening, closing and dying leave the file and drop what was under way.
LEMMA RestLayout ==
  ASSUME IInv, IInv', Layout,
         \/ pc = "idle" /\ \E m \in {"ro", "rw"} : Open(m)
         \/ CloseClean \/ Finish \/ Crash
  PROVE  Layout'
<1>1. Careful
  BY DEF Layout
<1>2. CASE pc = "idle" /\ \E m \in {"ro", "rw"} : Open(m)
  <2>1. UNCHANGED <<file, cached_writes, pc, plan, heads, status>>
    BY <1>2 DEF Open
  <2>2. Careful'
    BY <1>1, <2>1, StillCareful DEF file
  <2>3. sectors_added = 0 /\ read_head = 0 /\ write_head = 0
    BY <1>2 DEF Layout, Lists
  <2> QED
    BY <1>2, <2>1, <2>2, <2>3, AtRest DEF file, plan, heads
<1>3. CASE CloseClean
  <2>1. UNCHANGED <<file, cached_writes, pc, plan, heads, status>> /\ pc = "idle"
    BY <1>3 DEF CloseClean, Idle
  <2>2. Careful'
    BY <1>1, <2>1, StillCareful DEF file
  <2>3. sectors_added = 0 /\ read_head = 0 /\ write_head = 0
    BY <2>1 DEF Layout, Lists
  <2> QED
    BY <2>1, <2>2, <2>3, AtRest DEF file, plan, heads
<1>4. CASE Finish \/ Crash
  <2>1. /\ cached_writes' = <<>> /\ pc' = "idle" /\ sectors_added' = 0
        /\ read_head' = 0 /\ write_head' = 0 /\ status' \in {"ok", status}
        /\ UNCHANGED <<fsize, ragged, locations, timestamps>>
    BY <1>4 DEF Finish, Crash, file
  <2>2. Careful'
    BY <1>1, <2>1 DEF Careful
  <2> QED
    BY <2>1, <2>2, AtRest
<1> QED
  BY <1>2, <1>3, <1>4

\* The list without the write of a chunk is of the same writes.
LEMMA WithoutWriteIn ==
  ASSUME IInv, NEW S, cached_writes \in Seq(S), NEW c \in Chunk
  PROVE  WithoutWrite(c) \in Seq(S)
<1> DEFINE found == {i \in DOMAIN cached_writes : cached_writes[i].pos = c}
           first == CHOOSE i \in found : \A j \in found : i <= j
<1>1. CASE found = {}
  BY <1>1 DEF WithoutWrite
<1>2. CASE found # {}
  <2>1. PICK k \in found : TRUE
    BY <1>2
  <2>2. k \in 1 .. Len(cached_writes) /\ \A j \in found : j = k
    BY <2>1 DEF IInv, TypeOK, HandleTypeOK, OneWritePerChunk
  <2>3. first = k
    BY <2>1, <2>2
  <2>4. WithoutWrite(c) = WithoutCell(cached_writes, k)
    BY <1>2, <2>3 DEF WithoutWrite
  <2> HIDE DEF found, first
  <2> QED
    BY <2>2, <2>4, WithoutCellType
<1> QED
  BY <1>1, <1>2

\* Taking a cell out of a list of careful writes leaves careful writes.
LEMMA WithoutStillCareful ==
  ASSUME IInv, Careful, NEW c \in Chunk
  PROVE  \A i \in 1 .. Len(WithoutWrite(c)) : CarefulWrite(WithoutWrite(c)[i])
<1> DEFINE good == {w \in ChunkWrite : CarefulWrite(w)}
<1>1. cached_writes \in Seq(good)
  <2>1. cached_writes \in Seq(ChunkWrite)
    BY DEF IInv, TypeOK, HandleTypeOK
  <2>2. \A i \in 1 .. Len(cached_writes) : cached_writes[i] \in good
    BY <2>1 DEF Careful
  <2> HIDE DEF good
  <2> QED
    BY <2>1, <2>2
<1> HIDE DEF good
<1>2. WithoutWrite(c) \in Seq(good)
  BY <1>1, WithoutWriteIn
<1>3. \A i \in 1 .. Len(WithoutWrite(c)) : WithoutWrite(c)[i] \in good
  BY <1>2
<1> QED
  BY <1>3 DEF good

\* A careful write is remembered.
LEMMA SetLayout ==
  ASSUME IInv, IInv', Layout, NEW c \in Chunk, NEW data, NEW len, NEW enc, NEW t,
         SetChunkDataFull(c, data, len, enc, t), CarefulWrite(cached_writes'[1])
  PROVE  Layout'
<1>1. /\ pc = "idle" /\ Careful /\ sectors_added = 0 /\ read_head = 0 /\ write_head = 0
      /\ UNCHANGED <<file, pc, plan, heads, status>>
  BY DEF SetChunkDataFull, Idle, Layout, Lists
<1>2. PICK job : cached_writes' = <<job>> \o WithoutWrite(c)
  BY DEF SetChunkDataFull
<1>3. WithoutWrite(c) \in Seq(ChunkWrite)
  BY WithoutWriteProperties DEF IInv, TypeOK, HandleTypeOK
<1> HIDE DEF WithoutWrite
<1>4. /\ DOMAIN cached_writes' = 1 .. Len(WithoutWrite(c)) + 1
      /\ Len(WithoutWrite(c)) \in Nat
      /\ \A i \in 2 .. Len(WithoutWrite(c)) + 1 : cached_writes'[i] = WithoutWrite(c)[i - 1]
  BY <1>2, <1>3
<1>5. \A i \in 2 .. Len(WithoutWrite(c)) + 1 : CarefulWrite(cached_writes'[i])
  <2>1. ASSUME NEW i \in 2 .. Len(WithoutWrite(c)) + 1 PROVE CarefulWrite(cached_writes'[i])
    <3>1. i - 1 \in 1 .. Len(WithoutWrite(c))
      BY <1>4
    <3> QED
      BY <1>1, <1>4, <3>1, WithoutStillCareful
  <2> QED
    BY <2>1
<1>6. \A i \in DOMAIN cached_writes' : CarefulWrite(cached_writes'[i])
  <2>1. \A i \in DOMAIN cached_writes' : i = 1 \/ i \in 2 .. Len(WithoutWrite(c)) + 1
    BY <1>4
  <2> QED
    BY <1>5, <2>1
<1>7. Careful'
  BY <1>1, <1>6 DEF Careful, CarefulWrite, file
<1> QED
  BY <1>1, <1>7, AtRest DEF file, plan, heads

\* So it is with every write the rules allow, and with every clear.
LEMMA ClientLayout ==
  ASSUME IInv, IInv', Layout, NEW c \in Chunk, CarefulSet(c) \/ ClearChunk(c)
  PROVE  Layout'
<1>1. CASE CarefulSet(c)
  BY <1>1, SetLayout DEF CarefulSet, SetChunk
<1>2. CASE ClearChunk(c)
  <2>1. SetChunkDataFull(c, NoData, 0, "unknown", 0)
    BY <1>2 DEF ClearChunk
  <2>2. PICK w : w = cached_writes'[1] /\ w.data = NoData /\ w.length = 0
    <3>1. PICK job : job = [pos |-> c, data |-> NoData, length |-> 0,
                            encoding |-> "unknown", timestamp |-> 0]
      OBVIOUS
    <3>2. cached_writes' = <<job>> \o WithoutWrite(c)
      BY <2>1, <3>1 DEF SetChunkDataFull
    <3>3. WithoutWrite(c) \in Seq(ChunkWrite)
      BY WithoutWriteProperties DEF IInv, TypeOK, HandleTypeOK
    <3> HIDE DEF WithoutWrite
    <3>4. cached_writes'[1] = job
      BY <3>2, <3>3
    <3> QED
      BY <3>1, <3>4
  <2>3. SectorsFor(0) < CountMod
    BY SMT DEF SectorsFor, SectorSize, CountMod
  <2>4. CarefulWrite(w)
    BY <2>2, <2>3 DEF CarefulWrite
  <2> QED
    BY <2>1, <2>2, <2>4, SetLayout
<1> QED
  BY <1>1, <1>2

\* A flush starts where its client knows that it may.
LEMMA StartLayout ==
  ASSUME IInv, IInv', Layout, NEW b \in BOOLEAN, CarefulFlush(b)
  PROVE  Layout'
<1>1. /\ pc = "idle" /\ pc' = (IF mapped THEN "classify" ELSE "size") /\ cell' = 1
      /\ mapped => TailSurvives
      /\ UNCHANGED <<fsize, ragged, locations, timestamps, sectors, cached_writes, shrinks,
                     grows, sectors_added, new_fsize, read_head, write_head, status>>
  BY DEF CarefulFlush, StartFlush, Idle, file, handle, plan, heads
<1>2. /\ shrinks = {} /\ grows = {} /\ new_fsize = 0
      /\ sectors_added = 0 /\ read_head = 0 /\ write_head = 0
  BY <1>1 DEF Layout, Lists, IInv, Drawn, Phases
<1>3. Careful' /\ LayoutOK' /\ \A k : Space(k)' = Space(k)
  BY <1>1, SameTables, StillCareful DEF Layout
<1>4. Len(cached_writes) \in Nat /\ 1 <= Len(cached_writes) + 1
  BY DEF IInv, TypeOK, HandleTypeOK
<1>5. CASE mapped
  <2>1. ShrinksSoFar' = {}
    <3>1. DOMAIN cached_writes = 1 .. Len(cached_writes)
      BY DEF IInv, TypeOK, HandleTypeOK
    <3>2. \A i \in DOMAIN cached_writes : ~(i < 1)
      BY <1>4, <3>1
    <3> QED
      BY <1>1, <3>2 DEF ShrinksSoFar, ShrinkWrites
  <2>2. /\ FreesOf({})' = 0 /\ GrowthOf({})' = 0
        /\ SumFunction([i \in {} |-> Frees(cached_writes[i])])' = 0
    <3>1. \A f \in [{} -> Int] : SumFunction(f) = 0
      BY SumOfNothing
    <3>2. /\ [g \in {} |-> Frees(g.write)'] \in [{} -> Int]
          /\ [g \in {} |-> Growth(g.write)'] \in [{} -> Int]
          /\ [i \in {} |-> Frees(cached_writes[i])'] \in [{} -> Int]
      OBVIOUS
    <3> QED
      BY <3>1, <3>2 DEF FreesOf, GrowthOf
  <2>3. TailSurvives'
    BY <1>1, <1>5, SameFile
  <2>4. Sorting'
    BY <1>1, <1>2, <1>4, <2>1, <2>2, <2>3 DEF Sorting, ShrinksFit, FreesOf
  <2>5. Lists'
    BY <1>1, <1>2, <1>5, <2>2 DEF Lists, GrowsFit, GrowthOf
  <2> QED
    BY <1>1, <1>3, <1>5, <2>4, <2>5, Quiet DEF Layout
<1>6. CASE ~mapped
  <2>1. Space(1) \in Nat
    BY SpaceEnds
  <2>2. Placing'
    BY <1>1, <1>2, <1>3, <1>4, <1>6, <2>1 DEF Placing, Space
  <2>3. Lists'
    BY <1>1, <1>2, <1>6 DEF Lists
  <2> QED
    BY <1>1, <1>3, <1>6, <2>2, <2>3, Quiet DEF Layout
<1> QED
  BY <1>5, <1>6

-----------------------------------------------------------------------------
(* Every step.                                                             *)

\* Nothing happens.
LEMMA StutterLayout ==
  ASSUME Layout, UNCHANGED hvars
  PROVE  Layout'
<1>1. UNCHANGED <<fsize, ragged, locations, timestamps, sectors, cached_writes, pc, cell,
                  shrinks, grows, sectors_added, new_fsize, read_head, write_head, status>>
  BY DEF hvars, vars, file, handle, plan, heads
<1>2. Careful' /\ LayoutOK' /\ \A k : Space(k)' = Space(k)
  BY <1>1, StillCareful, SameTables DEF Layout
<1>3. \A w : EntryAtHead(w)' <=> EntryAtHead(w)
  BY <1>1, SameTables DEF EntryAtHead
<1>4. \A h, k : Placed(h, k)' <=> Placed(h, k)
  BY <1>1, <1>2, SameTables DEF Placed
<1>5. Placing'
  BY <1>1, <1>2, <1>3, <1>4 DEF Layout, Placing
<1>6. Lists'
  BY <1>1, SameTables DEF Layout, Lists
<1>7. ShrinksSoFar' = ShrinksSoFar /\ (TailSurvives' <=> TailSurvives)
  BY <1>1, SameFile DEF ShrinksSoFar
<1>8. /\ \A S : FreesOf(S)' = FreesOf(S) /\ (ShrinksFit(S)' <=> ShrinksFit(S))
      /\ Live' = Live /\ \A w : Frees(w)' = Frees(w)
      /\ \A S, r, w : ShrinkLayout(S, r, w)' <=> ShrinkLayout(S, r, w)
      /\ \A S, r, w : GrowLayout(S, r, w)' <=> GrowLayout(S, r, w)
      /\ \A c : EndOf(c)' = EndOf(c)
  BY <1>1, SameTables
<1>9. Sorting'
  BY <1>1, <1>7, <1>8 DEF Layout, Sorting
<1>10. \A g : /\ ShrinkGap(g)' = ShrinkGap(g) /\ GrowGap(g)' = GrowGap(g)
              /\ GrowEnd(g)' = GrowEnd(g)
              /\ HeadsShrinks(g)' <=> HeadsShrinks(g)
              /\ HeadsGrows(g)' <=> HeadsGrows(g)
  BY <1>1 DEF ShrinkGap, GrowGap, GrowEnd, HeadsShrinks, HeadsGrows
<1>11. \A g : (ShiftedDown(g)' <=> ShiftedDown(g)) /\ (ShiftedUp(g)' <=> ShiftedUp(g))
  BY <1>1, <1>8, <1>10 DEF ShiftedDown, ShiftedUp
<1>12. InShrinks'
  BY <1>1, <1>3, <1>8, <1>10, <1>11 DEF Layout, InShrinks
<1>13. InGrows'
  BY <1>1, <1>3, <1>8, <1>10, <1>11 DEF Layout, InGrows
<1>14. Resizing'
  BY <1>1, <1>8 DEF Layout, Resizing
<1> QED
  BY <1>2, <1>5, <1>6, <1>9, <1>12, <1>13, <1>14 DEF Layout

\* Each step of a flush that has found no chunk torn keeps the layout.
LEMMA FlushLayout ==
  ASSUME IInv, IInv', Layout, pc = "classify" => NoneTorn, FlushStep
  PROVE  Layout'
<1>1. CASE \E g \in shrinks :
             \/ ShrinkAbort(g) \/ ShrinkShift(g) \/ ShrinkMoveFault(g) \/ ShrinkMove(g)
             \/ ShrinkDelete(g) \/ ShrinkEntry(g) \/ ShrinkDataFault(g) \/ ShrinkData(g)
  BY <1>1, ShrinkGoesOn, ShrinkShiftLayout, ShrinkMoveInside, ShrinkMoveLayout,
           ShrinkDeleteLayout, ShrinkEntryLayout, ShrinkDataInside, ShrinkDataLayout
<1>2. CASE \E g \in grows :
             \/ GrowAbort(g) \/ GrowShift(g) \/ GrowMove(g) \/ GrowEntry(g) \/ GrowAdd(g)
             \/ GrowDataFault(g) \/ GrowData(g)
  BY <1>2, GrowGoesOn, GrowShiftLayout, GrowMoveLayout, GrowEntryLayout, GrowAddLayout,
           GrowDataInside, GrowDataLayout
<1>3. CASE \/ SizeWrite \/ CreateFile \/ PlaceClear \/ PlaceEntry
           \/ PlaceHeaderOnly \/ PlaceData \/ PlacedAll
  BY <1>3, SizeWriteLayout, CreateFileLayout, PlaceClearLayout, PlaceEntryLayout,
           PlaceGoesOn, PlaceDataLayout, PlacedAllLayout
<1>4. CASE \/ ClassifyFault \/ ClassifySkip \/ ClassifyShrink \/ ClassifyGrow
           \/ Classified
  <2>1. ClassifyShrink \/ ClassifyGrow => NoneTorn
    BY DEF ClassifyShrink, ClassifyGrow, Classifying
  <2> QED
    BY <1>4, <2>1, ClassifyInside, ClassifySkipLayout, ClassifyShrinkLayout,
             ClassifyGrowLayout, ClassifiedLayout
<1>5. CASE Shrunk \/ ResizeAbort \/ Resize \/ Grown \/ Finish
  BY <1>5, ShrunkLayout, ResizeGoesOn, ResizeLayout, GrownLayout, RestLayout
<1> QED
  BY <1>1, <1>2, <1>3, <1>4, <1>5 DEF FlushStep

\* So does each step of a careful client.
LEMMA StepLayout ==
  ASSUME IInv, IInv', Layout, pc = "classify" => NoneTorn, CarefulStep
  PROVE  Layout'
<1>1. CASE \E m \in {"ro", "rw"} : CarefulOpen(m)
  <2>1. \E m \in {"ro", "rw"} : Open(m)
    BY <1>1 DEF CarefulOpen
  <2>2. pc = "idle"
    BY <2>1 DEF Open, IInv, Phases
  <2> QED
    BY <2>1, <2>2, RestLayout
<1>2. CASE \E c \in Chunk : CarefulSet(c) \/ ClearChunk(c)
  BY <1>2, ClientLayout
<1>3. CASE \E b \in BOOLEAN : CarefulFlush(b)
  BY <1>3, StartLayout
<1>4. CASE CloseClean \/ Crash
  BY <1>4, RestLayout
<1>5. CASE FlushStep
  BY <1>5, FlushLayout
<1> QED
  BY <1>1, <1>2, <1>3, <1>4, <1>5 DEF CarefulStep
=============================================================================
