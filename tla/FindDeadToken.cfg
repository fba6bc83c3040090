SPECIFICATION Spec
CONSTANTS
    Page = {p1, p2}
    ExpireSeconds = 2
    MaxTokens = 2
SYMMETRY Symmetric
PROPERTY GetReturnsLiveToken
