SPECIFICATION FairSpec
CONSTANTS
    Client = {c1, c2}
    Mode = {"write", "read"}
    MaxTtl = 0
    MaxLen = 0
    MaxRetry = 2
    RaiseOnSingleKey = FALSE
    Free = Free
    Dead = Dead
INVARIANT NeedsNobody
PROPERTY CallEnds
