SPECIFICATION FairSpec
CONSTANTS
  x = x
  y = y
  z = z
  q = q
  Runtime = {x, y, z, q}
  Catalogue <- Catalogues
  NetworkMax = 1
  Deadline = 3
  HoldCap = 1
  MaxRevisions = 1
  Horizon = 3
  MaxCycle = 1
  MaxTrouble = 1
  NoRt = NoRt
  Unnamed = Unnamed
PROPERTIES NoWayBack LeavesRouting HeldIsRetried
CHECK_DEADLOCK FALSE
