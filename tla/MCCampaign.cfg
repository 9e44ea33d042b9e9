SPECIFICATION FairSpec
CONSTANTS
  k1 = k1
  k2 = k2
  a = a
  z = z
  Coord = {k1, k2}
  Contract = {a, z}
  Manifest <- MCManifest
  MaxRecovery = 1
  MaxProgress = 1
  MaxCrash = 1
  MaxOperator = 1
  Nobody = Nobody
INVARIANTS TypeOK RecordedHasLanded
PROPERTIES LaunchesInOrder CoordinatorEnds
CHECK_DEADLOCK FALSE
