SPECIFICATION FairSpec
CONSTANTS
  c1 = c1
  c2 = c2
  Callers <- TwoCallers
  MaxCalls <- TwiceAndOnce
  PoolSize = 2
  ServiceMayThrow = TRUE
  MaxDisconnects = 1
CHECK_DEADLOCK FALSE
INVARIANTS
  TypeOK
  OwnResult
  WaiterIsRegistered
  TableHoldsUnanswered
PROPERTIES
  CallsReturn
