SPECIFICATION FairSpec
CONSTANTS
  u1 = u1
  u2 = u2
  s1 = s1
  s2 = s2
  s3 = s3
  r1 = r1
  r2 = r2
  NoSocket = NoSocket
  NoRoom = NoRoom
  Users = {u1, u2}
  Sockets = {s1, s2, s3}
  Rooms = {r1}
  Owner <- MCOwner
  InitialMembers <- MCMembers
  Requests <- Joins
  DeletableRooms = {r1}
  Faults = {"core", "createRouter", "routerClose"}
  MaxRequests = 3
  MaxRouterCloses = 1
INVARIANTS
  SessionsConsistent
  ParticipantHasMedia
PROPERTIES
  DeletedRoomNotRevived
  DeletionCompletes
CHECK_DEADLOCK FALSE
