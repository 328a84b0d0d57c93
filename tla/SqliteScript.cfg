CONSTANTS
  Corpora <- MCCorpora
  CliCrashes = TRUE
SPECIFICATION Spec
INVARIANTS LabelsExact
CHECK_DEADLOCK FALSE
