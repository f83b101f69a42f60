SPECIFICATION Spec
CONSTANTS
  p1 = p1
  p2 = p2
  Peers = {p1, p2}
  Tags = {"audio"}
  Late = {"router", "transport"}
  MaxRequests = 7
  MaxQueue = 2
  MaxFaults = 1
SYMMETRY PeersAlike
INVARIANTS
  NothingLeaks
  OnOwnTransport
  NoDuplicates
PROPERTIES
  NotifiedOfLossOnly
  ImplementsMediaRoom
CHECK_DEADLOCK FALSE
