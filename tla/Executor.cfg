SPECIFICATION FairSpec
CONSTANTS
  Limit = 2
  MaxOutput = 3
CHECK_DEADLOCK FALSE
INVARIANTS
  TypeOK
  OutputIsWhole
  NothingKeepsRunning
PROPERTIES
  EndsOnceReleased
