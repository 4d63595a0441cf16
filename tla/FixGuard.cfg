SPECIFICATION Spec
CONSTANTS
  Projects = {p}
  Turns = {t1, t2}
  Limit = 2
  TTL = 2
  NoProject = NoProject
  MaxTime = 5
  MaxChanges = 3
SYMMETRY TurnSymmetry
INVARIANTS
  LimitRespected
  ChargedOnce
  UndercountNeedsOverlap
