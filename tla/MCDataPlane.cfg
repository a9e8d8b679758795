SPECIFICATION DPSpec
CONSTANTS
    n1 = n1
    n2 = n2
    id1 = id1
    id2 = id2
    ValidNames = {n1, n2}
    SET_MAX = 2
    KEYS_BUDGET = 2
    Rules <- MCRules
    Ids = {id1, id2}
    ZERO_ID = ZERO_ID
    NumWorkers = 2
    NumTables = 6
    FREE = FREE
    NULL = NULL
    MAX_RETIRED = 1
    DEFAULT_MAX_KEYS = 1
    MAX_FRAMES = 2
    MAX_PACKETS = 4
    MAX_ADDS = 3
SYMMETRY Interchangeable
INVARIANTS
    CountsConserved
    PublishedTablesMatchRules
    NoMatchVanishes
    UpdatesReachLiveTables
PROPERTIES
    RetiredTablesImmutable
CHECK_DEADLOCK FALSE
