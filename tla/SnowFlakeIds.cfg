SPECIFICATION FairSpec
CONSTANTS
  Nodes <- MCNodes
  WorkerId <- MCWorkerId
  DatacenterId <- MCDatacenterId
  WorkerSpan = 2
  DatacenterSpan = 2
  SeqSpan = 2
  TimeHalf = 8
  Restarting = {"a"}
  Adjusted = {"b"}
  MaxBack = 1
  MaxClock = 3
CHECK_DEADLOCK FALSE
INVARIANTS
  TypeOK
  UniqueIds
  IncreasingIds
PROPERTIES
  SpinEnds
