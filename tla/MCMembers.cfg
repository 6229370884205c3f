SPECIFICATION Spec
CONSTANTS
    Member = {m1, m2, m3}
    Founder = m1
    Request = {r1, r2}
    Managing = {"admin", "manager"}
    Asks = {{"manager"}, {"admin"}}
    None = None
CHECK_DEADLOCK FALSE
SYMMETRY Symmetry
INVARIANTS
    TypeOK
    RolesOfMembers
PROPERTIES
    AdminKept
    ChangeReplaces
    NothingBeyondOwnGrants
    AddKeepsMembers
