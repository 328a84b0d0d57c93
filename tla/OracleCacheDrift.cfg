CONSTANTS
  DialectAll <- MCDialectAll
  Implemented <- MCImplemented
  Stmts <- MCStmts
  Corpora <- MCCorpora
  ArgLists <- MCArgLists
  Workers = 1
  MaxRuns = 1
  MaxEdits = 1
SPECIFICATION Spec
INVARIANTS DriftDetected
CHECK_DEADLOCK FALSE
