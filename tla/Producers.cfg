SPECIFICATION Spec
CONSTANTS
  s1 = s1
  s2 = s2
  Sockets = {s1, s2}
  MaxMade = 2
SYMMETRY SocketsAlike
INVARIANTS
  NobodyMissed
CHECK_DEADLOCK FALSE
