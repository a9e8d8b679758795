SPECIFICATION FairSpec
CONSTANTS
    NumWorkers = 2
    Indices = {1}
    Tables = {1, 2, 3, 4, 5, 6}
    NULL = NULL
    EMPTY = EMPTY
    MAX_RETIRED = 2
    GRACE = 3
    MAX_FRAME = 1
    MAX_CALL = 1
    MAX_SWAPS = 3
INVARIANTS
    NoUseAfterFree
    EveryTableHasOneOwner
    RetiredCountExact
PROPERTIES
    GenerationAdvances
    RetiredAreFreed
