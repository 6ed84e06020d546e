SPECIFICATION Spec
CONSTANTS
    p1 = p1
    p2 = p2
    NoLock = NoLock
    Procs <- TwoProcs
    Servers <- NoProcs
    Ops <- ProfileOnly
    MaxGen = 3
    MaxOps = 3
    MaxKills = 0
    MaxReboots = 1
    MaxFailures = 0
    MaxRepairs = 0
    MaxQuarantines = 0
CHECK_DEADLOCK FALSE
SYMMETRY Symmetry
INVARIANTS TypeOK JournalExplainsProfile
PROPERTIES MovesUnderLock MovesAreAnnounced TerminalIsFinal
