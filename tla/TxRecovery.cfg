SPECIFICATION Spec
CONSTANTS
    p1 = p1
    p2 = p2
    NoLock = NoLock
    Procs <- TwoProcs
    Servers <- NoProcs
    Ops <- CrashOps
    MaxGen = 3
    MaxOps = 2
    MaxKills = 0
    MaxReboots = 2
    MaxFailures = 1
    MaxRepairs = 1
    MaxQuarantines = 1
CHECK_DEADLOCK FALSE
SYMMETRY Symmetry
PROPERTIES RecoveryLeavesNothingDangling RecoveryRollbackIsReal
