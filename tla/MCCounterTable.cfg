SPECIFICATION Spec
CONSTANTS
    a = a
    b = b
    c = c
    d = d
    e = e
    f = f
    Keys = {a, b, c, d, e, f}
    Hash <- MCHash
    NO_KEY = NO_KEY
    MAX_KEYS = 4
    KEY_WIDTH = 4
    KEY_LEN = 3
    EVICT_WINDOW = 3
    MAX_UPDATES = 7
    MAX_TICK = 2
INVARIANTS
    OneSlotPerKey
    PacketsConserved
PROPERTIES
    EvictionIsLastResort
CHECK_DEADLOCK FALSE
