------------------------------ MODULE MCCalls ------------------------------
EXTENDS Calls

CONSTANTS u1, u2, s1, s2, s3, r1, r2

\* One user has two sockets (two tabs, or a reconnect), another has one.
MCOwner == [s \in Sockets |-> IF s = s3 THEN u2 ELSE u1]

\* Everybody has joined every call in Core before.
MCMembers == [r \in Rooms |-> Users]

Joins == {[kind |-> "join", user |-> MCOwner[s], socket |-> s, room |-> r] :
            s \in Sockets, r \in Rooms}
Leaves == {[op EXCEPT !.kind = "leave"] : op \in Joins}
Rest == [kind : RestKinds, user : Users, socket : {NoSocket}, room : Rooms]

AllRequests == Joins \cup Leaves \cup Rest

=============================================================================
