CONSTANTS
    k1 = k1
    k2 = k2
    peer = peer
    double = double
    friend = friend
    alias = alias
    Absent = absent
    Cold = cold
    Keys <- MCKeys
    Users <- MCUsers
    Peer <- peer
    Fingerprint <- MCFingerprint
    Aliases <- MCAliases
    CAPACITY = 3
    MAX_GENERATION = 5
SYMMETRY Symmetry
CONSTRAINT QuietWhenSaturated
SPECIFICATION Spec
INVARIANTS
    IdentityInv
    IdentityUnchanged
    
PROPERTIES
    ChangesJournaled
