SPECIFICATION Spec
CONSTANTS
    EXPORTERS = 2
    MAX_COMMANDS = 3
    MAX_FAULTS = 2
PROPERTY ShippedServiceStarts
CHECK_DEADLOCK FALSE
