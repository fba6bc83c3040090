SPECIFICATION Spec
CONSTANTS
    Client = {c1}
    Mode = {"read"}
    MaxTtl = 1
    MaxLen = 0
    MaxRetry = 3
    RaiseOnSingleKey = TRUE
    Free = Free
    Dead = Dead
PROPERTY NewStreamsFollowUser
