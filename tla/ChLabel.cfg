CONSTANTS
  NumStmts = 3
  MaxAttempts = 2
  MaxStreak = 2
  MaxRestarts = 3
  Faults = {"engine", "server"}
SPECIFICATION Spec
INVARIANTS VerdictsAccounted PoisonedInOrder FaultFreeExact
PROPERTIES ImplementsLabelling
CHECK_DEADLOCK FALSE
