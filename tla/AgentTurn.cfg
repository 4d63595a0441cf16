SPECIFICATION TurnSpec
CONSTANTS
  Names <- MCNames
  Level <- MCLevel
  Asking <- MCAsking
  MaxIterations = 2
  MaxUses = 2
  MaxResumes = 1
  VpnToken = TRUE
  SearchKey = FALSE
  Paths = {"/etc/a/app.conf", "/etc/b/app.conf"}
  FileName <- MCFileName
  Existing = {"/etc/a/app.conf"}
  MaxVersions = 2
  MaxSecond = 1
CHECK_DEADLOCK FALSE
INVARIANTS
  WellPaired
  NothingRunsTwice
  LossNeedsCollision
  EffectsArePressed
PROPERTIES
  LoopStops
