SPECIFICATION Spec
CONSTANTS
  Keys <- MCKeys
  MaxCalls <- MCMaxCalls
  Window <- MCWindow
  PruneAge = 6
  Second = 2
  MaxTime = 10
  MaxAccepts = 4
INVARIANTS
  TypeOK
  WindowRespected
  ForgetsOnlyTheOld
  RetryFindsRoom
