SPECIFICATION SceneSpec
CONSTANTS
    Runtimes = {d1}
    InDaemon = {d1}
    Interactive = {d1}
    Forced = {}
    None = None
    MaxAuthorizations = 1
    MaxRefreshes = 2
    MaxGenerations = 2
    Scenes = {"store"}
    Procs = {p1, p2}
    Identities = {i1}
    MaxGen = 2
    MaxCrashes = 0
    NoProc = NoProc
    NoKey = NoKey
    Absent = Absent
INVARIANT ReplacedAtomically
CHECK_DEADLOCK FALSE
