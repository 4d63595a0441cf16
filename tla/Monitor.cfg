SPECIFICATION Spec
CONSTANTS
  MaxId = 2
  Durations = {0, 1}
  Cooldown = 3
  Interval = 1
  MaxGap = 2
  MaxTime = 4
  MaxEvents <- Busy
CHECK_DEADLOCK FALSE
INVARIANTS
  AlertIsSustained
  RepeatNeedsLostCommit
  NoSilentBreach
