SPECIFICATION Spec
CONSTANTS
    Client = {c1, c2, c3}
    Kinds = {"chat_summary", "message"}
    Limit = 1
    Asked = {1, 2}
    MaxEntries = 4
SYMMETRY Symmetric
INVARIANTS
    TypeOK
    NewestAreKept
    ExcessIsHandled
    ConfirmFailsIfOvertaken
PROPERTY ImplementsRecent
