---------------------------- MODULE MCAuditChain ----------------------------
EXTENDS AuditChain, TLC

Symmetry == Permutations(Writer) \cup Permutations(Tenant) \cup Permutations(Event)
=============================================================================
