SPECIFICATION FairSpec
CONSTANTS
    NULL = NULL
    Cell = {a1, a2, a3}
    Tag = {t1, t2}
    Key = {k1, k2, k3}
    Table = {c, own}
INVARIANTS
    TypeOK
    WellLinked
    CellsExact
    OneAllocator
    NoStaleRead
    EachOnce
PROPERTIES
    ListSpec
    LoopsEnd
\* A process that read freed memory has stopped.
CHECK_DEADLOCK FALSE
