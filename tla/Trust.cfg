SPECIFICATION Spec
CONSTANTS
    l1 = l1
    l2 = l2
    Users = {"root", "user"}
    Requests <- RequestSet
    Builds <- BuildSet
    Failures = {2, 3}
    Assertions = 400
    StaleAfter = 0
    MaxClock = 1
    MaxCalls = 2
    MaxChanges = 2
    MaxEdits = 1
    Procs = {"p1", "p2"}
    Versions = {1, 2}
    MaxFaults = 1
    MaxSteps = 5
    Disks = {"sda"}
    Layouts <- LayoutSet
    Signers <- SignerSet
    Arguments <- ArgumentSet
    MaxTime = 1
    MaxSigned = 1
    MaxAsked = 2
    MaxMoves = 2
CHECK_DEADLOCK FALSE
SYMMETRY Symmetry
INVARIANTS TrustedMeansLive  TrustedProofsVerify CommitNeedsHealth
    SecretsStayGated NothingStrewn FlagsTellTruth 
