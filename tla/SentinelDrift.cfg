SPECIFICATION Spec
CONSTANTS
    Env <- StageWithDrift
    MaxGen = 2
    MaxChanges = 1
    MaxRestarts = 1
CHECK_DEADLOCK FALSE
INVARIANTS LkgIsProven
