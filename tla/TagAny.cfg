SPECIFICATION Spec
CONSTANTS
    Nil = Nil
    Tag = {t1, t2, t3}
    Key = {k1, k2}
    MaxItems = 2
    MaxOwned = 1
    MaxCount = 2
INVARIANTS
    TypeOK
    NoDangling
    ListsHomogeneous
    KeysUnique
    CountExact
    OnlyLostLeaks
SYMMETRY TagKeySymmetry
\* A client that inserts behind the end of an empty list has crashed.
CHECK_DEADLOCK FALSE
