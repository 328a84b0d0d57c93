CONSTANTS
  NumStmts = 4
  MaxStreak = 3
  Faults = {"transport", "server"}
SPECIFICATION Spec
INVARIANTS VerdictsExact
PROPERTIES LostConnectionAborts ImplementsLabelling
CHECK_DEADLOCK FALSE
