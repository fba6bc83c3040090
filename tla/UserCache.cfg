SPECIFICATION Spec
CONSTANTS
    Page = {p1, p2}
    ExpireSeconds = 2
    MaxTokens = 3
SYMMETRY Symmetric
INVARIANTS
    TypeOK
    TokenLivesWithDocument
PROPERTY ImplementsTokens
