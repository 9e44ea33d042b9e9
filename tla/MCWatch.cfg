SPECIFICATION FairSpec
CONSTANTS
  Watcher = {w1}
  MaxTime = 2
  MaxMove = 3
  MaxStart = 2
  MaxCrash = 1
INVARIANTS AnnouncedOnce
PROPERTIES RestartNotBlocked DecisionReachesOperator ProgressCatchesUp
CHECK_DEADLOCK FALSE
