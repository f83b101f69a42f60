SPECIFICATION Spec
CONSTANTS
  u1 = u1
  u2 = u2
  s1 = s1
  s2 = s2
  s3 = s3
  r1 = r1
  r2 = r2
  NoSocket = NoSocket
  NoRoom = NoRoom
  Users = {u1}
  Sockets = {s1}
  Rooms = {r1}
  Owner <- MCOwner
  InitialMembers <- MCMembers
  Requests <- Joins
  DeletableRooms = {}
  Faults = {"routerClose"}
  MaxRequests = 2
  MaxRouterCloses = 1
INVARIANTS
  DisconnectedHoldsNoMedia
CHECK_DEADLOCK FALSE
