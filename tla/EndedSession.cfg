SPECIFICATION Spec
CONSTANTS
  r1 = r1
  r2 = r2
  i1 = i1
  i2 = i2
  i3 = i3
  NoSession = NoSession
  Rooms = {r1, r2}
  SessionIds = {i1, i2, i3}
INVARIANTS
  NothingFromAnEndedSession
CHECK_DEADLOCK FALSE
