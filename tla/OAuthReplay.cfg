SPECIFICATION Spec
CONSTANTS
    Client = {c1, c2}
    Confidential = {c2}
    User = {u1}
    Code = {k1}
    Token = {t1, t2, t3, t4}
    Family = {f1, f2}
    Request = {r1, r2}
    None = None
SYMMETRY Symmetry
CONSTRAINT Bound
INVARIANT
    ReplayRevokesFamily
