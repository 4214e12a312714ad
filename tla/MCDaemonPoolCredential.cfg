SPECIFICATION Spec
CONSTANTS
    Requests = {r1, r2}
    Keys = {k1}
    HTTPKeys = {k1}
    OAuthKeys = {k1}
    None = None
    MaxGeneration = 0
    MaxLogins = 2
SYMMETRY RequestSymmetry
INVARIANTS
    CredentialFresh
