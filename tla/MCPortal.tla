------------------------------ MODULE MCPortal ------------------------------
EXTENDS Portal

CONSTANTS u1, u2

\* A user of two tenants and an administrator in one of them, or nobody is a
\* member of anything yet.
StartHomes == {[u \in User |-> IF u = u1 THEN {1, 2} ELSE {2}], [u \in User |-> {}]}
StartTemps == {{}, {u1}}
StartStaff == {u2}
=============================================================================
