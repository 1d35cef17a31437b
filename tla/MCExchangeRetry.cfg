SPECIFICATION Spec
CONSTANTS
  Ranks = 2
  Kinds <- MCKinds
  Exchanges = {"files"}
  Directories = {"fresh"}
  MaxSleeps = 1
  MaxAttempts = 2
INVARIANTS
  SameAllocation
CHECK_DEADLOCK FALSE
