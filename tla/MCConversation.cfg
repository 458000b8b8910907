SPECIFICATION Spec
CONSTANTS
    MAX_FORWARD_JUMPS = 2
    MAX_MESSAGE_KEYS = 2
    PRUNE_THRESHOLD = 0
    MAX_RECEIVER_CHAINS = 5
    ARCHIVED_MAX = 2
    Bundles = {"otp"}
    RemovalFails = TRUE
    MaxKeys = 7
    MaxSessions = 2
    MaxCounter = 2
INVARIANTS
    DeliveredOnce
    AlwaysDeliverable
    SendKeyUnused
CHECK_DEADLOCK FALSE
