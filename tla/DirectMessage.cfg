SPECIFICATION FairSpec
CONSTANTS
  q1 = q1
  q2 = q2
  q3 = q3
  Low = Low
  High = High
  None = None
  Requests = {q1, q2, q3}
  UserOf <- MCUserOf
  Faults = {"crash", "slow", "core", "redis"}
  MaxFaults = 2
  MaxPolls = 2
INVARIANTS
  CreatorsExclusive
  RoomsPaidFor
  StoredRoomIsShared
PROPERTIES
  LockFreed
  EveryRequestEnds
CHECK_DEADLOCK FALSE
