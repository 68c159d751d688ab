SPECIFICATION EditSpec
CONSTANTS
    Nil = Nil
    Names <- MCNames
    Values <- MCValues
    Tags <- FewTrees
    Trees <- FewTrees
    Cuts <- MCCuts
    Extra = {0}
    Alien = {}
INVARIANTS
    TooLittleIsFailure
