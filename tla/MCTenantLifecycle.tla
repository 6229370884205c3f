-------------------------- MODULE MCTenantLifecycle --------------------------
EXTENDS TenantLifecycle

CONSTANTS p1, p2

\* The requests meet in one process, the admin's calls in it or in another.
MCHome == [r \in Request |-> p1]
=============================================================================
