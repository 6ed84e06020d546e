SPECIFICATION FairSpec
CONSTANTS
    Env <- WithConfirm
    MaxGen = 3
    MaxChanges = 2
    MaxRestarts = 2
CHECK_DEADLOCK FALSE
PROPERTIES FallbackLandsSafely ConfirmsProven Settles
