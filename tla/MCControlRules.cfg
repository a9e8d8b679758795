SPECIFICATION Spec
CONSTANTS
    web = web
    dns = dns
    ValidNames = {web, dns}
    SET_MAX = 2
    KEYS_BUDGET = 3
    DEFAULT_MAX_KEYS = 1
    Clients = {c1, c2}
    Rules <- MCRules
    Configured <- NoRules
    MAX_COMMANDS = 3
    MAX_FAULTS = 1
INVARIANTS
    IdsNameTheirRule
    ListFollowsBackend
PROPERTIES
    NothingLeftBehind
    IsRegistry
    RequestsAreHandled
CHECK_DEADLOCK FALSE
