SPECIFICATION FairSpec
CONSTANTS
  Cta = {c1, c2, c3}
  Rooms <- MCRooms
  MaxPolls = 2
  Launches = 2
INVARIANTS
  IInv
  PassedAfterAll
  NoLostWakeup
  CleanAfterLaunch
PROPERTIES
  LaunchFinishes
  ImplementsBarrier
\* The last launch of the model ends.
CHECK_DEADLOCK FALSE
