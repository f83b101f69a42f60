SPECIFICATION HFairSpec
CONSTANTS
  c1 = c1
  c2 = c2
  c3 = c3
  c4 = c4
  k1 = k1
  k2 = k2
  NoCall = NoCall
  Calls = {c1, c2, c3, c4}
  Keys = {k1, k2}
  KeyOf <- MCKeyOf
INVARIANTS
  MutualExclusion
  CallOrder
  NoStaleTail
PROPERTIES
  EveryCallReturns
  ImplementsSerialQueue
CHECK_DEADLOCK FALSE
