CONSTANTS
  Corpora <- MCCommentPairs
  CliCrashes = FALSE
SPECIFICATION Spec
INVARIANTS RejectedIsInvalid
CHECK_DEADLOCK FALSE
