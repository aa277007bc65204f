-------------------------- MODULE SharedNumbersMC --------------------------
\* Three processes; the third takes one value from a counter in memory.
EXTENDS SharedNumbers
CONSTANTS p1, p2, p3

Loops == [p \in Procs |-> IF p = p3 THEN 1 ELSE 2]
=============================================================================
