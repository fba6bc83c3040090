SPECIFICATION FairSpec
CONSTANTS
    t1 = t1
    t2 = t2
    Task <- MCTask
    Counts = {1, 2}
    Given = {0}
    MaxEntries = 3
    MaxBinds = 2
    MaxGiven = 1
INVARIANTS
    TypeOK
    NothingSkipped
    WaitersHaveAll
PROPERTIES
    SavedReadsFollow
    KeepsGround
    EveryEntryArrives
