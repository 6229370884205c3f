SPECIFICATION Spec
CONSTANTS
    a = a
    b = b
    k2 = k2
    a1 = a1
    a2 = a2
    Core = Core
    None = None
    Process = {q1, q2}
    Tenant = {t1}
    App = {a, b}
    Perm = {k2, a1, a2}
    Owner <- MCOwner
    Since <- MCSince
    Default <- MCDefault
    Order <- MCOrder
    MaxRelease = 2
SYMMETRY Symmetry
CONSTRAINT Bound
INVARIANTS
    TypeOK
    SteadyIsGranted
    HandEditsKept
    VersionIsKnown
