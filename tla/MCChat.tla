------------------------------- MODULE MCChat -------------------------------
EXTENDS Chat

CONSTANTS s1, s2, s3

\* Three users with a socket each.
MCUserOf == [s \in Sockets |-> CASE s = s1 -> 1 [] s = s2 -> 2 [] OTHER -> 3]

\* A call, and direct conversations of each of the three users with the first
\* two, one with themselves among them, and an invalid target.
MCPayloads == {<<"call", 1>>, <<"dm", 1>>, <<"dm", 2>>, <<"dm", 0>>}

=============================================================================
