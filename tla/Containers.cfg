SPECIFICATION Spec
CONSTANTS
    c1 = c1
    c2 = c2
    p1 = p1
    p2 = p2
    web = web
    Callers <- AllCallers
    Names <- NameSet
    Pids <- PidSet
    NoPid = NoPid
    Env <- FullEnv
    MaxCalls = 3
    MaxReboots = 1
CHECK_DEADLOCK FALSE
SYMMETRY Symmetry
VIEW View
INVARIANTS NoRugPull ProcsAreRecorded EphemeralLeavesNothing
