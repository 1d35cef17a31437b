SPECIFICATION Spec
CONSTANTS
  f1 = f1
  f2 = f2
  Follower <- MCFollower
  Skew <- MCSkew
  Delay = 2
  LatencyRange = 16
  Horizon = 4
INVARIANTS
  IInv
  OffsetWithinDelay
  LatencyWithinDelay
  ReportsAgree
  HooksWithinTwiceDelay
\* Time stops at the horizon.
CHECK_DEADLOCK FALSE
