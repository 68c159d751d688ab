SPECIFICATION Spec
CONSTANTS
    Nil = Nil
    Tag = {t1, t2}
    Key = {k1}
    MaxItems = 2
    MaxOwned = 1
    MaxCount = 3
INVARIANTS
    NothingLeaks
