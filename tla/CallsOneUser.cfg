SPECIFICATION Spec
CONSTANTS
  u1 = u1
  u2 = u2
  s1 = s1
  s2 = s2
  s3 = s3
  r1 = r1
  r2 = r2
  NoSocket = NoSocket
  NoRoom = NoRoom
  Users = {u1}
  Sockets = {s1, s2}
  Rooms = {r1, r2}
  Owner <- MCOwner
  InitialMembers <- MCMembers
  Requests <- AllRequests
  DeletableRooms = {r1}
  Faults = {"core", "createRouter"}
  MaxRequests = 3
  MaxRouterCloses = 0
INVARIANTS
  NoOrphanMedia
  BroadcastsReachParticipants
  SessionHasMembership
PROPERTIES
  ReplacementSurvives
CHECK_DEADLOCK FALSE
