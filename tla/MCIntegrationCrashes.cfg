SPECIFICATION FairSpec
CONSTANTS
  a = a
  b = b
  Node = {a}
  MaxAttempt = 2
  MaxMove = 2
  MaxCrash = 3
PROPERTIES DoneIsFinal AcceptedBecomesDone
CHECK_DEADLOCK FALSE
