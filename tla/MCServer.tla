------------------------------ MODULE MCServer ------------------------------
EXTENDS Server, TLC

\* Connections, document ids and index names are interchangeable: no property is
\* about what must eventually happen.
Symmetry == Permutations(Conns) \cup Permutations(Ids) \cup Permutations(IndexNames)
=============================================================================
