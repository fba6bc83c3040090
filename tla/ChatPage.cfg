SPECIFICATION Spec
CONSTANTS
    t1 = t1
    t2 = t2
    h1 = h1
    h2 = h2
    anna = anna
    NoUser = NoUser
    Tab <- MCTab
    Handler <- MCHandler
    User <- MCUser
    MaxTokens = 2
SYMMETRY MCSym
INVARIANTS
    TypeOK
    ScreenMatches
    OnlyRefusedRemoved
CHECK_DEADLOCK FALSE
