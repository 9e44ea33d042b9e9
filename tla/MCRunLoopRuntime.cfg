SPECIFICATION Spec
CONSTANTS
  a = a
  b = b
  w = w
  j = j
  Node = {a, b}
  Runtime = {w, j}
  Contract <- Crossed
  MaxLife <- Once
  MaxRoute <- NoHops
  NoRt = NoRt
  NoNode = NoNode
INVARIANTS RuntimeCeiling
CHECK_DEADLOCK FALSE
