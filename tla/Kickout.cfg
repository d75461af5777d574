SPECIFICATION Spec
CONSTANTS
  n1 = n1
  n2 = n2
  s1 = s1
  s2 = s2
  s3 = s3
  t1 = t1
  t2 = t2
  Nodes <- TwoNodes
  Sessions <- ThreeSessions
  Threads <- TwoThreads
  TimeToLive = 0
  MaxSessions = {1, 2}
CONSTRAINT Bound
SYMMETRY Symmetry
INVARIANTS
  TypeOK
  DequeWellFormed
  AtMostMaxSession
PROPERTIES
  KickedInOrder
  NoOverstay
