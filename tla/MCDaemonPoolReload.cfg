SPECIFICATION Spec
CONSTANTS
    Requests = {r1, r2, r3}
    Keys = {k1, k2}
    HTTPKeys = {k1}
    OAuthKeys = {}
    None = None
    MaxGeneration = 1
    MaxLogins = 0
SYMMETRY RequestSymmetry
INVARIANTS
    TypeOK
    LeaseCount
    LeaseSafety
    ServesOwnGeneration
    OneOfferedSession
    NoLostSession
    NoOrphanAtExit
    RetiringAccounted
PROPERTY ImplementsLease
