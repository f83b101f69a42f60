---------------------------- MODULE MCProducers ----------------------------
EXTENDS Producers, TLC

CONSTANTS s1, s2

SocketsAlike == Permutations(Sockets)

=============================================================================
