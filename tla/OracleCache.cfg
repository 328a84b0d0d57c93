CONSTANTS
  DialectAll <- MCDialectAll
  Implemented <- MCImplemented
  Stmts <- MCStmts
  Corpora <- MCCorpora
  ArgLists <- MCArgLists
  Workers = 1
  MaxRuns = 2
  MaxEdits = 1
SPECIFICATION Spec
INVARIANTS GradedByOneLabelling OneMode
PROPERTIES AbortKeepsCaches BenchEnds
CHECK_DEADLOCK FALSE
