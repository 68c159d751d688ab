------------------------------ MODULE MCRegion ------------------------------
(* Instances of Region for TLC: payloads of one and of two sectors, or one   *)
(* too large for the location table, and the files to start from.           *)
EXTENDS Region, TLC

CONSTANTS c1, c2, c3, small, big, oversize

MCPayloadLen == (small :> 10) @@ (big :> 5000)
MCGuess == (small :> "gzip") @@ (big :> "zlib")
MCOversizeLen == (oversize :> 1048577)
MCOversizeGuess == (oversize :> "zlib")

MCStrayLocations == {[offset |-> 1, sector_count |-> 3]}

\* The file that holds a sequence of chunks <<chunk, payload>> back to back;
\* <<>> in their place is a hole of one sector.
FileOf(slots) ==
    LET len(i) == IF slots[i] = <<>> THEN 1 ELSE SectorsFor(PayloadLen[slots[i][2]])
        start[i \in 1 .. Len(slots) + 1] ==
            IF i = 1 THEN HeaderSectors ELSE start[i - 1] + len(i - 1)
        slotOf(c) == {i \in DOMAIN slots : slots[i] # <<>> /\ slots[i][1] = c}
        at(c) == CHOOSE i \in slotOf(c) : TRUE
        holding(s) == CHOOSE i \in DOMAIN slots : s \in start[i] .. start[i + 1] - 1
        end == start[Len(slots) + 1]
    IN  [fsize |-> end,
         ragged |-> FALSE,
         locations |-> [c \in Chunk |->
             IF slotOf(c) = {} THEN NoLocation
             ELSE [offset |-> start[at(c)], sector_count |-> len(at(c))]],
         timestamps |-> [c \in Chunk |-> IF slotOf(c) = {} THEN 0 ELSE 1],
         sectors |-> [s \in HeaderSectors .. end - 1 |->
             LET i == holding(s)
             IN  IF slots[i] = <<>> THEN Blank
                 ELSE [data |-> slots[i][2], part |-> s - start[i], enc |-> 2]]]

EmptyFile ==
    [fsize |-> 0, ragged |-> FALSE,
     locations |-> [c \in Chunk |-> NoLocation],
     timestamps |-> [c \in Chunk |-> 0],
     sectors |-> [s \in HeaderSectors .. -1 |-> Blank]]

MCFiles ==
    {EmptyFile,
     FileOf(<< <<c1, big>>, <<c2, small>> >>),
     FileOf(<< <<c2, small>>, <<>>, <<c1, big>> >>)}

FromEmpty == {EmptyFile}
FromTwo == {FileOf(<< <<c1, big>>, <<c2, small>> >>)}

\* A file whose entries may be wrong: c1 is said to lie at l1, c2 at l2, and the
\* sectors hold nothing that can be told.
Bent(size, l1, l2) ==
    [fsize |-> size, ragged |-> FALSE,
     locations |-> [c \in Chunk |-> IF c = c1 THEN l1 ELSE l2],
     timestamps |-> [c \in Chunk |-> IF c = c1 \/ l2 # NoLocation THEN 1 ELSE 0],
     sectors |-> [s \in HeaderSectors .. size - 1 |-> Garbage]]

At(o, n) == [offset |-> o, sector_count |-> n]

FromRagged == {[Bent(3, At(2, 1), NoLocation) EXCEPT !.ragged = TRUE]}
\* One that ends where its only chunk should begin: what a flush leaves of one
\* chunk and a hole when it loses the tail.
FromCut == {Bent(3, At(3, 1), NoLocation)}
\* Ones with a chunk in the tables, and one that is longer than its file.
FromWrong == {Bent(4, At(1, 1), At(3, 1)), Bent(4, At(2, 4), At(3, 1))}
FromAny == FromEmpty \cup FromRagged \cup FromCut \cup FromWrong

ChunkSymmetry == Permutations(Chunk)
=============================================================================
