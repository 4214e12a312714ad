SPECIFICATION SceneSpec
CONSTANTS
    Runtimes = {d1, f1}
    InDaemon = {d1}
    Interactive = {d1, f1}
    Forced = {f1}
    None = None
    MaxAuthorizations = 2
    MaxRefreshes = 1
    MaxGenerations = 2
    Scenes = {"runtimes", "store"}
    Procs = {p1, p2}
    Identities = {i1}
    MaxGen = 2
    MaxCrashes = 1
    NoProc = NoProc
    NoKey = NoKey
    Absent = Absent
SYMMETRY Interchangeable
INVARIANTS
    TypeOK
    LogoutNoticed
    OneBrowserFlow
    FlowsRegistered
    RecordsWhole
    OneAuthorization
PROPERTIES
    GenerationNeverReturns
    ImplementsAtomicStore
CHECK_DEADLOCK FALSE
