SPECIFICATION FairSpec
CONSTANTS
  Steps = 3
  Launches = 2
  Depth = 2
  MaxPolls = 4
  RunIds = 3
INVARIANTS
  IInv
  TimestampWindow
  ValidOnlyIfAwaited
PROPERTIES
  RunCompletes
\* The last launch of the model ends.
CHECK_DEADLOCK FALSE
