SPECIFICATION FairSpec
CONSTANTS
  c1 = c1
  c2 = c2
  Clients = {c1, c2}
  Expire = 4
  Rounds = 2
  RoundMax = 1
  AttemptMax = 1
  HoldMax = 1
  MaxCrashes = 1
  MaxOverruns = 1
  MaxClock = 13
CHECK_DEADLOCK FALSE
INVARIANTS
  TypeOK
  MutualExclusion
  OwnerKeepsKey
  BoundedLease
PROPERTIES
  GhostIsRecovered
