SPECIFICATION Spec
CONSTANTS
  Chats = {c, d}
  Turns = {t1, t2}
  Kinds = {"text", "photo"}
  KeepRecents = {1, 2}
  Budget = 1
  HistoryMax = 3
  Fits = {1, 2}
  MaxMessages = 4
  MaxClears = 1
SYMMETRY Interchangeable
CHECK_DEADLOCK FALSE
INVARIANTS
  SummaryIsComplete
  ContextIsExact
  ChatsAreSeparate
