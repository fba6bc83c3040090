SPECIFICATION Spec
CONSTANTS
    c1 = c1
    c2 = c2
    Client <- MCClient
    Duration = 2
    MaxTokens = 3
    MaxUsers = 2
    MaxTime = 4
SYMMETRY MCSym
INVARIANTS
    TypeOK
    OneUnlessOverlapping
    LastIsValid
    TokensHaveUser
