SPECIFICATION FairSpec
CONSTANTS
  MaxCall = 2
  MaxCrash = 2
  MaxOperator = 1
  Policies = {"safe"}
INVARIANTS TypeOK OneWorker SpendSettles
PROPERTIES ResolvedStaysResolved NoBlindReplay CallEnds
CHECK_DEADLOCK FALSE
