SPECIFICATION Spec
CONSTANTS
    Rules = {r1, r2}
    Keys <- MCKeys
    WORKERS = 2
    MAX_PACKETS = 3
    MAX_TICKS = 2
INVARIANTS
    CountsConserved
CHECK_DEADLOCK FALSE
