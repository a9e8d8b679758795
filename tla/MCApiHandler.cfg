SPECIFICATION Spec
CONSTANTS
    n1 = n1
    n2 = n2
    n3 = n3
    bad = bad
    id1 = id1
    id2 = id2
    id3 = id3
    ValidNames = {n1, n2, n3}
    SET_MAX = 3
    KEYS_BUDGET = 6
    Rules <- MCRules
    Ids = {id1, id2, id3}
    ZERO_ID = ZERO_ID
    NumWorkers = 2
    NumTables = 8
    FREE = FREE
    NULL = NULL
    MAX_RETIRED = 1
INVARIANTS
    BudgetExact
    TablesFollowRules
    TablesOwnedOnce
PROPERTIES
    FailureChangesNothing
    IdBindingStable
