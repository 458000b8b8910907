SPECIFICATION ConnSpec
CONSTANTS
    BASE = 2
    LENGTH_SIZE = 2
    COUNTER_MOD = 2
    Sizes = {1, 2, 4}
    MayNotDecode = TRUE
    MaxFrames = 4
    MaxRefused = 1
    Statics = {"s1", "s2", "s3"}
    Trusted = {"s1", "s2"}
    MaxBuilds = 2
INVARIANTS
    TypeOK
    InStep
    InOrder
    KeysAgree
    ServerIsTrusted
    SealedOnce
PROPERTIES
    EveryFrameArrives
    Connects
CHECK_DEADLOCK FALSE
