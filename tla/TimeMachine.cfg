CONSTANTS
  Families <- MCFamilies
  NumVersions = 3
  Dialects <- MCDialects
  Supports <- MCSupports
  PanicSets <- MCPanics
  MaxRuns = 3
  MaxKills = 1
  MaxWriteErrors = 1
SPECIFICATION Spec
INVARIANTS MergedMemoryIsCurrent FullTimesAreFull HistoryComplete RefreshIsFullRerun
PROPERTIES ResumeKeepsWork
CHECK_DEADLOCK FALSE
