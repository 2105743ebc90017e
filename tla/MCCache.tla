------------------------------ MODULE MCCache ------------------------------
EXTENDS Cache, TLC

Symmetry == Permutations(Tasks) \cup Permutations(Keys)
=============================================================================
