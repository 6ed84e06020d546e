SPECIFICATION Spec
CONSTANTS
    c1 = c1
    c2 = c2
    Callers <- CallerSet
    Submits <- SubmissionsOf
    Movable <- MovableSet
    Kvm = FALSE
    MaxCalls = 2
    MaxRoot = 1
    MaxEvents = 1
CHECK_DEADLOCK FALSE
INVARIANTS ProviderFitsRequest MutationsAreEntitled ReceiptsTellTheTruth
PROPERTIES CallsEnd ImplementsContract
