SPECIFICATION Spec
CONSTANTS
    e1 = e1
    e2 = e2
    Endpoint <- MCEndpoint
    Kind <- MCKind
    MaxMessages = 3
    MaxJobs = 1
INVARIANTS
    TypeOK
    ListsMatch
    NobodyHeldUp
PROPERTIES
    EndpointEnds
    NoTaskLeft
CHECK_DEADLOCK FALSE
