SPECIFICATION Spec
CONSTANTS
    Client = {c1, c2}
    Mode = {"all", "read"}
    MaxTtl = 1
    MaxLen = 1
    MaxRetry = 2
    RaiseOnSingleKey = TRUE
    Free = Free
    Dead = Dead
SYMMETRY Symmetric
INVARIANTS
    TypeOK
    PairInSync
    LocksMatchProgress
    OneWriter
    NoHoldAndWait
    CleanWatch
PROPERTIES
    InitMakesBoth
    ChangedOnlyUnderLock
    ImplementsPair
