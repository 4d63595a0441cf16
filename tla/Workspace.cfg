SPECIFICATION Spec
CONSTANTS
  Turns = {t1, t2}
  MaxEdits = 2
  Retries = 2
  Rooted = TRUE
  MaxStarts = 3
SYMMETRY TurnSymmetry
INVARIANTS
  TypeOK
  CommitReportIsRight
  
  SurvivorNeedsFailedRemoval
  DeployedIsServed
PROPERTIES
  CommitsOnlyAdd
  ProgressIsKept
CHECK_DEADLOCK FALSE
