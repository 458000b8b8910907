SPECIFICATION Spec
CONSTANTS
    MAX_FORWARD_JUMPS = 2
    MAX_MESSAGE_KEYS = 2
    PRUNE_THRESHOLD = 0
    MAX_RECEIVER_CHAINS = 5
    ARCHIVED_MAX = 2
    Bundles = {"otp"}
    RemovalFails = FALSE
    MaxKeys = 4
    MaxSessions = 1
    MaxCounter = 6
INVARIANTS
    DuplicateIsReplay
CHECK_DEADLOCK FALSE
