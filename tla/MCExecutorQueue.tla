-------------------------- MODULE MCExecutorQueue --------------------------
EXTENDS ExecutorQueue

CONSTANTS c1, c2, c3, c4, k1, k2

\* Three calls contend for one key, a fourth has a key of its own.
MCKeyOf == [c \in {c1, c2, c3, c4} |-> IF c = c4 THEN k2 ELSE k1]

=============================================================================
