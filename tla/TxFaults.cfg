SPECIFICATION FairSpec
CONSTANTS
    p1 = p1
    p2 = p2
    NoLock = NoLock
    Procs <- TwoProcs
    Servers <- OneServer
    Ops <- FaultOps
    MaxGen = 2
    MaxOps = 2
    MaxKills = 1
    MaxReboots = 0
    MaxFailures = 1
    MaxRepairs = 0
    MaxQuarantines = 1
CHECK_DEADLOCK FALSE
INVARIANTS MutualExclusion LeakNeedsFailure
PROPERTIES OperationsEnd LockComesBack
