SPECIFICATION Spec
CONSTANTS
  a = a
  b = b
  Node = {a, b}
  MaxAttempt = 2
  MaxMove = 1
  MaxCrash = 1
SYMMETRY Nodes
INVARIANTS AcceptedWasVerified DoneIsIntegrated DoneHasEvent
PROPERTIES RefFastForwards ImplementsRunRef
CHECK_DEADLOCK FALSE
