------------------------------ MODULE MCPages ------------------------------
EXTENDS Pages

\* Every page of the front ends.
AllPages == Pages

\* A search starts with an answer about the empty text, a lookup with none.
OneMoreText == [query |-> 1, address |-> 2]
=============================================================================
