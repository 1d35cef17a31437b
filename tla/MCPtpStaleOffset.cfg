SPECIFICATION Spec
CONSTANTS
  Samples = 2
  Launches = 2
INVARIANTS
  OffsetIsOfThisLaunch
CHECK_DEADLOCK FALSE
