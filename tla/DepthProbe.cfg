CONSTANTS
  Ceil = 7
  NumParsers = 2
SPECIFICATION Spec
INVARIANTS CrashIsBoundary LimitIsBoundary MeansWhatItSays
PROPERTIES Terminates
CHECK_DEADLOCK FALSE
