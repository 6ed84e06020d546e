SPECIFICATION Spec
CONSTANTS
    c1 = c1
    c2 = c2
    p1 = p1
    p2 = p2
    web = web
    Callers <- OneCaller
    Names <- NameSet
    Pids <- PidSet
    NoPid = NoPid
    Env <- SystemdEnv
    MaxCalls = 3
    MaxReboots = 0
CHECK_DEADLOCK FALSE
PROPERTIES StopIsClean
