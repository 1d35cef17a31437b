SPECIFICATION Spec
CONSTANTS
  Func = {"f", "g", "h"}
  Id <- MCId
  Probes <- MCProbes
  Kernels <- MCKernels
  NoFunc = NoFunc
  NoId = NoId
  NoModule = NoModule
  MaxRuns = 2
INVARIANTS
  NoFunctionIsLost
  WhatIsCalledIsCounted
  StatusIsTrue
PROPERTIES
  SecondStageIsIdempotent
\* The runs of the model end.
CHECK_DEADLOCK FALSE
