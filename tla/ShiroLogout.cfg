SPECIFICATION Spec
CONSTANTS
  n1 = n1
  n2 = n2
  r1 = r1
  r2 = r2
  Nodes <- TwoNodes
  Requests <- TwoRequests
  Attributes <- NoAttribute
  TimeToLive = 0
INVARIANT TypeOK
PROPERTY GoneForGood
VIEW CodeState
SYMMETRY Symmetry
