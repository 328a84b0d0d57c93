CONSTANTS
  Families <- MCFamilies
  NumVersions = 2
  Dialects <- MCDialects
  Supports <- MCSupports
  PanicSets <- MCPanics
  MaxRuns = 3
  MaxKills = 1
  MaxWriteErrors = 0
SPECIFICATION Spec
INVARIANTS MemoryPassCompletes
CHECK_DEADLOCK FALSE
