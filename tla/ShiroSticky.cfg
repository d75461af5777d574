SPECIFICATION Spec
CONSTANTS
  n1 = n1
  n2 = n2
  r1 = r1
  r2 = r2
  Nodes <- TwoNodes
  Requests <- TwoRequests
  Attributes <- OneAttribute
  TimeToLive = 1
CONSTRAINT Undisturbed
INVARIANT Durable
PROPERTY BoundedStaleness
SYMMETRY Symmetry
