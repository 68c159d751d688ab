SPECIFICATION FairCarefulSpec
CONSTANTS
    c1 = c1
    c2 = c2
    c3 = c3
    small = small
    big = big
    oversize = oversize
    NoData = NoData
    Absent = Absent
    Torn = Torn
    Nothing = Nothing
    Chunk = {c1, c2}
    Payload = {small, big}
    PayloadLen <- MCPayloadLen
    Guess <- MCGuess
    Encodings = {"zlib"}
    Times = {1}
    NullLens = {0}
    MaxFile = 6
    StrayLocations = {}
    StrayTimes = {}
    InitialFiles <- MCFiles
PROPERTIES
    StoreSpec
    FlushTerminates
\* A region whose chunks a crash has torn is not opened again.
CHECK_DEADLOCK FALSE
