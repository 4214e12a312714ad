SPECIFICATION FairSpec
CONSTANTS
    Requests = {r1, r2}
    Keys = {k1}
    HTTPKeys = {k1}
    OAuthKeys = {k1}
    None = None
    MaxGeneration = 1
    MaxLogins = 0
PROPERTIES
    ShutdownCompletes
    RetiredIsClosed
    EveryRequestAnswered
