SPECIFICATION FairSpec
CONSTANTS
  Count = 3
  MaxFaults = 4
INVARIANTS
  PoolConserved
  NothingSurvives
PROPERTIES
  PoolRefilled
CHECK_DEADLOCK FALSE
