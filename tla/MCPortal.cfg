SPECIFICATION Spec
CONSTANTS
    u1 = u1
    u2 = u2
    User = {u1, u2}
    Tenant = {1, 2}
    Tab = {x1, x2}
    Sites = {"portal", "panel"}
    Homes <- StartHomes
    Temps <- StartTemps
    Staff <- StartStaff
    None = None
    MaxLoads = 2
    MaxTurns = 4
INVARIANTS
    TypeOK
    ShellNamesSession
    BlockedIsClosed
    NothingSpins
PROPERTIES
    NoLoop
    ComesToRest
CHECK_DEADLOCK FALSE
