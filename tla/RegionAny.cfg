SPECIFICATION Spec
CONSTANTS
    c1 = c1
    c2 = c2
    c3 = c3
    small = small
    big = big
    oversize = oversize
    NoData = NoData
    Chunk = {c1, c2}
    Payload = {oversize}
    PayloadLen <- MCOversizeLen
    Guess <- MCOversizeGuess
    Encodings = {"zlib", "unknown"}
    Times = {1}
    NullLens = {7}
    MaxFile = 260
    StrayLocations <- MCStrayLocations
    StrayTimes = {0, 1}
    InitialFiles <- FromAny
INVARIANTS
    TypeOK
    OneWritePerChunk
    CachedOnlyIfWritable
    NoDuplicateOrderedWrites
PROPERTIES
    FlushTouchesOnlyWritten
