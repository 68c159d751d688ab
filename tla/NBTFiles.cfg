SPECIFICATION EditSpec
CONSTANTS
    Nil = Nil
    Names <- MCNames
    Values <- MCValues
    Tags <- MCTags
    Trees <- MCTrees
    Cuts <- MCCuts
    Extra = {0, 1, 97}
    Alien = {0, 12, 255}
INVARIANTS
    TypeOK
    WrittenIsReadable
    BufferFilled
    DamageNoticed
    FindsEveryKey
