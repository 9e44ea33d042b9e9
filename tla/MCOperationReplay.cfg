SPECIFICATION Spec
CONSTANTS
  MaxCall = 2
  MaxCrash = 2
  MaxOperator = 1
  Policies = {"safe", "never"}
PROPERTY PolicyDecides
CHECK_DEADLOCK FALSE
