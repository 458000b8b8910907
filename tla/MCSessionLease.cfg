SPECIFICATION Spec
CONSTANTS
    BATCH = 2
    MAX_FORWARD = 2
    ARCHIVED_MAX = 1
    MAX_COUNTER = 3
    MaxChains = 3
INVARIANTS
    TypeOK
    NextKeyUnused
    CrashSafe
    ReloadAccepts
    LeaseInv
CONSTRAINT FewSent
