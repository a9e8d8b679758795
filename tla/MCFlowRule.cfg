SPECIFICATION ConfigSpec
CONSTANTS
    name = name
    name2 = name2
    name3 = name3
    badname = badname
    ValidNames = {name, name2, name3}
    SET_MAX = 2
    KEYS_BUDGET = 4
    MAX_QUEUE_DEPTH = 3
    WORD = 512
    Names <- MCNames
    Specs <- MCSpecs
    Candidates <- MCCandidates
    Configs <- MCConfigs
    NoSpec <- MCNoSpec
    Default <- MCDefault
INVARIANTS
    DecodeInvertsEncode
    ValidatorsAgree
    SetsAgree
    AcceptedConfigStarts
CHECK_DEADLOCK FALSE
