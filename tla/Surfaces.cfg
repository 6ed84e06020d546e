SPECIFICATION Spec
CONSTANTS
    Brokers = {"b1", "b2", "u"}
    Unit = {"u"}
    Clients = {"c1"}
    MaxStarts = 3
    MaxSent = 2
    MaxFaults = 1
    MaxMoves = 2
    MaxPresses = 3
    MaxWindows = 2
CHECK_DEADLOCK FALSE
INVARIANTS LinesAreAnsweredOnce PathLeadsHome OneOperation
PROPERTIES StopSticksOnClientsOnly WindowRecovers
