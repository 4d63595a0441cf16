SPECIFICATION Spec
CONSTANTS
  Actions = {a1, a2}
  Users = {u1, u2}
  Presses = {p1, p2}
  TTL = 2
  MaxTime = 4
  MaxCrashes = 1
  NoUser = NoUser
  NoPress = NoPress
  NoRequest = NoRequest
CHECK_DEADLOCK FALSE
SYMMETRY Symmetry
INVARIANTS
  TypeOK
  AtMostOnce
  AuditTellsTheTruth
PROPERTIES
  LapseOnlyAfterTTL
  ImplementsOneShot
