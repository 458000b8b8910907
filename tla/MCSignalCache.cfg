SPECIFICATION Spec
CONSTANTS
    BATCH = 2
    MAX_FORWARD = 2
    ARCHIVED_MAX = 1
    MAX_COUNTER = 1
    Tasks = {t1, t2}
    NoTask = NoTask
    PreKeys = {k1}
    NoKey = NoKey
    MaxChains = 2
    MaxLosses = 1
INVARIANTS
    StoreInv
    KeysUnused
    PrekeyNeverOutruns
    CheckoutReturns
    GateCovered
PROPERTIES
    ImplementsSessionStore
SYMMETRY TaskSymmetry
CONSTRAINT FewBusy
