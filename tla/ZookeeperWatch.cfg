SPECIFICATION Spec
CONSTANTS
  c1 = c1
  c2 = c2
  s1 = s1
  s2 = s2
  a1 = a1
  a2 = a2
  None = None
  Callers = {c1, c2}
  Services = {s1, s2}
  Addresses = {a1, a2}
  MaxNodes = 3
CHECK_DEADLOCK FALSE
INVARIANTS TypeOK NoUpdateMissed
PROPERTIES ServesAddressMap
