------------------------------- MODULE MCRegistry ------------------------------
EXTENDS Registry, TLC

\* The specification does not tell clients apart.
Symmetry == Permutations(Clients)

\* A segment with a unit of data, two segments and a counter in front, and a ring larger
\* than the memory with headers where others have theirs.
MixedShapes == {[lead |-> 0, count |-> 1, size |-> 2],
                [lead |-> 1, count |-> 2, size |-> 1],
                [lead |-> 0, count |-> 3, size |-> 2]}
================================================================================
