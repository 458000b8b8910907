SPECIFICATION Spec
CONSTANTS
    BATCH = 2
    MAX_FORWARD = 2
    ARCHIVED_MAX = 1
    MAX_COUNTER = 3
    Sessions = {s1, s2}
    OneTime = {s1}
    OwnSession = own
    MaxChains = 3
INVARIANTS
    BridgeInv
    BridgeKeysUnused
    RowReloads
    OnlyOpenedSessions
PROPERTIES
    PrekeyAfterSession
CONSTRAINT
    FewSent
