SPECIFICATION PluginSpec
CONSTANTS
  Nobody = Nobody
  NoContext = NoContext
  Thread = {t1, t2}
  Context = {x1, x2}
  Launches = 3
  Kinds <- MCKinds
  Scratch <- MCScratch
  Ranks = 3
  Me = 2
  MaxAttempts = 3
INVARIANTS
  LockMatchesSession
  RowIsOfItsLaunch
  ObjectsAreOwned
  ReferencesLive
  OnlyFailedLeak
PROPERTIES
  LockReleased
\* The launches of the model end.
CHECK_DEADLOCK FALSE
