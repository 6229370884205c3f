SPECIFICATION Spec
CONSTANTS
    Tenant = {a, b}
    Event = {login, grant}
    Writer = {w1, w2, w3}
    MaxId = 4
    MaxClock = 1
    None = None
    Genesis = Genesis
SYMMETRY Symmetry
INVARIANTS
    TypeOK
    ChainVerifies
    TimeFollowsOrder
    TamperEvident
PROPERTIES
    RefinesLog
