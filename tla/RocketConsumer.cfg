SPECIFICATION Spec
CONSTANTS
  t1 = t1
  t2 = t2
  Threads = {t1, t2}
  Batch = 2
  Prefetch = 1
  MaxReconsume = 1
  Undecodable = {2}
  MaxSent <- FourOrThree
  MaxFailures = 2
  MaxCrashes = 2
CHECK_DEADLOCK FALSE
INVARIANTS TypeOK AtLeastOnce InOrder LossBounded
PROPERTIES AllConsumed
