SPECIFICATION Spec
CONSTANTS
    EXPORTERS = 2
    MAX_COMMANDS = 3
    MAX_FAULTS = 2
PROPERTIES
    InstallCompletes
    FailedStartEnds
    StopsWhenTold
CHECK_DEADLOCK FALSE
