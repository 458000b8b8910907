SPECIFICATION Spec
CONSTANTS
    BASE = 2
    LENGTH_SIZE = 2
    COUNTER_MOD = 2
    Sizes = {1, 2}
    MayNotDecode = FALSE
    MaxFrames = 3
    MaxRefused = 0
INVARIANTS
    NonceUsedOnce
CHECK_DEADLOCK FALSE
