SPECIFICATION IntakeSpec
CONSTANTS
  Keys <- MCKeys
  MaxCalls <- MCMaxCalls
  Window <- MCWindow
  PruneAge = 1
  Second = 1
  MaxTime = 1
  MaxAccepts = 3
  Updates = {u1, u2, u3}
  Limit = 3
  Chunk = 2
  Letters <- MCLetters
  Answers <- MCAnswers
SYMMETRY UpdateSymmetry
CHECK_DEADLOCK FALSE
INVARIANTS
  SilenceIsExplained
  RunsAreCharged
  SettingIsAsSaid
  ShownAsRemembered
