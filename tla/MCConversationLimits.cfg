SPECIFICATION Spec
CONSTANTS
    MAX_FORWARD_JUMPS = 2
    MAX_MESSAGE_KEYS = 0
    PRUNE_THRESHOLD = 0
    MAX_RECEIVER_CHAINS = 1
    ARCHIVED_MAX = 1
    Bundles = {"otp", "plain"}
    RemovalFails = FALSE
    MaxKeys = 7
    MaxSessions = 3
    MaxCounter = 2
INVARIANTS
    TypeOK
    DeliveredOnceEvicting
    SendKeyUnused
CHECK_DEADLOCK FALSE
