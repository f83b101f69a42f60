-------------------------- MODULE MCDirectMessage --------------------------
EXTENDS DirectMessage

CONSTANTS q1, q2, q3

\* The two users ask in turn: the first and the third request are of one user.
MCUserOf == [q \in Requests |-> IF q \in {q1, q3} THEN Low ELSE High]

=============================================================================
