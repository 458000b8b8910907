SPECIFICATION Spec
CONSTANTS
    MAX_FORWARD_JUMPS = 2
    MAX_MESSAGE_KEYS = 3
    PRUNE_THRESHOLD = 0
    MAX_SENDER_KEY_STATES = 2
    BATCH = 2
    MAX_FORWARD = 2
    MAX_ITERATION = 3
    Slots = {1}
    MaxChains = 2
INVARIANTS
    TypeOK
    IterationUnused
    SkdmCoversLater
    
    DeliveredOnce

    
CONSTRAINT
    FewAfterRotation
