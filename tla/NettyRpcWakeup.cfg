SPECIFICATION Spec
CONSTANTS
  c1 = c1
  c2 = c2
  Callers <- TwoCallers
  MaxCalls <- OnceEach
  PoolSize = 2
  ServiceMayThrow = FALSE
  MaxDisconnects = 0
CHECK_DEADLOCK FALSE
INVARIANTS
  WokenWhenAnswered
