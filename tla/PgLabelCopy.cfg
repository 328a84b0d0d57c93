CONSTANTS
  NumStmts = 2
  MaxStreak = 2
  MaxReconnects = 3
  Faults = {"transport"}
SPECIFICATION Spec
INVARIANTS ValidIsParsed
CHECK_DEADLOCK FALSE
