SPECIFICATION Spec
CONSTANTS
    Client = {c1}
    Kinds = {"message"}
    Limit = 1
    Asked = {}
    MaxEntries = 3
INVARIANT QuietMeansBounded
