SPECIFICATION FairStoreSpec
CONSTANTS
    Large = 4
    Small = 3
    MaxLen = 13
    Doc = {2, 5}
    MaxFds = 2
    NULL = NULL
    Absent = Absent
    Torn = Torn
    Nothing = Nothing
INVARIANTS
    StoreTypeOK
    DecompressesWhole
    CompressesWhole
    LoadedWasSaved
    TrueIsWhole
PROPERTIES
    FileTouchedLast
    CallsReturn
