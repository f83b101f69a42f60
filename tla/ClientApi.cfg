SPECIFICATION ApiSpec
CONSTANTS
  s1 = s1
  s2 = s2
  s3 = s3
  Sockets = {s1, s2, s3}
  UserOf <- MCUserOf
  Payloads <- MCPayloads
  v = v
  w = w
  n = n
  Users = {v, w}
  a = a
  b = b
  c = c
  p = p
  Streams = {a, b, c}
  NoStream = NoStream
  Owner <- MCOwner
  Pushes = {p}
  CoreFails = TRUE
  MaxList = 2
  Callers <- MCCallers
  Ids <- MCIds
  Types <- MCTypes
  Requests <- MCRequests
INVARIANTS
  OnlyVerifiedHear
  EntriesFollowStreams
  CoreActsForRequester
  AnswerTellsOutcome
  SideEffectsJustified
  BodiesSound
PROPERTIES
  RelayExact
  PushReachesStream
CHECK_DEADLOCK FALSE
