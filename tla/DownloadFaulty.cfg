SPECIFICATION Spec
CONSTANTS
  f1 = f1
  f2 = f2
  NoFile = NoFile
  Files <- MCFiles
  RetryLimit = 1
  Budget <- AnyFault
SYMMETRY Symmetry
INVARIANTS TypeOK AttemptsAreBounded QueuedJobsAreInQueue RowsAgree
PROPERTIES CancelStopsRetries
CHECK_DEADLOCK FALSE
