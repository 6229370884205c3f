SPECIFICATION Spec
CONSTANTS
    p1 = p1
    p2 = p2
    Process = {p1, p2}
    Session = {s1}
    Request = {r1}
    Home <- MCHome
    Admin = {a1}
    Ttl = 2
    Timeout = 1
    Grace = 2
    None = None
INVARIANT
    ScheduledIsClosed
