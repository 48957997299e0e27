SPECIFICATION FairSpec
CONSTANTS
  Publisher = {p1, p2}
  Handler = {h1, h2}
  Stopper = {k1, k2}
  Capacity = 1
  MaxEvents = 3
INVARIANTS
  DeliveredInOrder
  NothingLostAtStop
PROPERTIES
  StopReturns
CHECK_DEADLOCK FALSE
