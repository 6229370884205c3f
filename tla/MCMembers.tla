------------------------------ MODULE MCMembers ------------------------------
EXTENDS Members, TLC

Symmetry == Permutations(Request) \cup Permutations(Member \ {Founder})
=============================================================================
