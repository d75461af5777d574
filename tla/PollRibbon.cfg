SPECIFICATION RibbonSpec
CONSTANTS
  c1 = c1
  c2 = c2
  Nobody = Nobody
  Clients = {c1, c2}
  MaxKeys = 3
  MaxPos = 4
INVARIANTS RibbonTypeOK LoneCallSucceeds
