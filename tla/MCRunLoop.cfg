SPECIFICATION FairSpec
CONSTANTS
  a = a
  b = b
  w = w
  j = j
  Node = {a, b}
  Runtime = {w, j}
  Contract <- Layouts
  MaxLife <- Lives
  MaxRoute <- Hops
  NoRt = NoRt
  NoNode = NoNode
INVARIANTS StopsClean RunCeiling BlockedForGood OneRetryARecord
PROPERTIES RunEnds
CHECK_DEADLOCK FALSE
