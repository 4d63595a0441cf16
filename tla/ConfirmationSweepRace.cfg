SPECIFICATION Spec
CONSTANTS
  Actions = {a1}
  Users = {u1}
  Presses = {p1, p2}
  TTL = 1
  MaxTime = 2
  MaxCrashes = 0
  NoUser = NoUser
  NoPress = NoPress
  NoRequest = NoRequest
CHECK_DEADLOCK FALSE
PROPERTY DecisionIsFinal
