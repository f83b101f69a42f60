------------------------------- MODULE MCSfu -------------------------------
EXTENDS Sfu, TLC

CONSTANTS p1, p2

PeersAlike == Permutations(Peers)

=============================================================================
