SPECIFICATION FairSpec
CONSTANTS
  Samples = 2
  Launches = 2
INVARIANTS
  CleanSampleIsCurrent
PROPERTIES
  NoLostMessage
  CalibrationEnds
\* The hosts may stop launching.
CHECK_DEADLOCK FALSE
