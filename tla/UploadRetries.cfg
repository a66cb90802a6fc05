SPECIFICATION Spec
CONSTANTS
  f1 = f1
  f2 = f2
  NoFile = NoFile
  Files <- MCFiles
  SizeKnown <- MCSizeKnown
  RetryLimit = 1
  Budget <- NoStaleTap
INVARIANTS CopyIsKept ReadyHasWorker
PROPERTIES TerminalIsFinal DrainsBeforeExit PromiseKept
CHECK_DEADLOCK FALSE
