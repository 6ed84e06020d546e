SPECIFICATION Spec
CONSTANTS
    p1 = p1
    p2 = p2
    NoLock = NoLock
    Procs <- OneProc
    Servers <- NoProcs
    Ops <- UpdateOnly
    MaxGen = 2
    MaxOps = 1
    MaxKills = 0
    MaxReboots = 0
    MaxFailures = 0
    MaxRepairs = 0
    MaxQuarantines = 0
CHECK_DEADLOCK FALSE
PROPERTIES AutoRollbackRestores
