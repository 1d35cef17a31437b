SPECIFICATION Spec
CONSTANTS
  Shapes <- MCTwoLaunches
  Slices = 1
  Capacity = 2
  WordRange = 5
  BinNs = 2
INVARIANTS
  PeakWasReached
\* The launches of the model end.
CHECK_DEADLOCK FALSE
