SPECIFICATION FairSpec
CONSTANTS
  Actions = {a1, a2}
  Users = {u1}
  Presses = {p1, p2}
  TTL = 1
  MaxTime = 2
  MaxCrashes = 1
  NoUser = NoUser
  NoPress = NoPress
  NoRequest = NoRequest
CHECK_DEADLOCK FALSE
PROPERTIES
  EveryRequestCloses
  FinishedToolIsAudited
