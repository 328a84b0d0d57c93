CONSTANTS
  NumStmts = 3
  MaxStreak = 2
  MaxReconnects = 3
  Faults = {"transport", "server"}
SPECIFICATION Spec
INVARIANTS VerdictsSound InnocentInvalidEarned ReconnectBudget
PROPERTIES ImplementsLabelling
CHECK_DEADLOCK FALSE
