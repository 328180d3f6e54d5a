----------------------------- MODULE MCSessions ------------------------------
EXTENDS Sessions, TLC
\* Connections, clients and codes are interchangeable.
Symmetry == Permutations(Conns) \cup Permutations(Keys) \cup Permutations(Codes)
==============================================================================
