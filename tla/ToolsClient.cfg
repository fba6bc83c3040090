SPECIFICATION Spec
CONSTANTS
    c1 = c1
    c2 = c2
    c3 = c3
    math = math
    search = search
    NoConn = NoConn
    Ctx <- MCCtx
    App <- MCApp
    Wishes <- MCWishes
INVARIANTS
    TypeOK
    NothingLeft
    AloneGetsItsOwn
SYMMETRY MCSym
