SPECIFICATION FairSpec
CONSTANTS
  f1 = f1
  f2 = f2
  NoFile = NoFile
  Files <- MCFiles
  SizeKnown <- MCSizeKnown
  RetryLimit = 1
  Budget <- OneCrash
PROPERTIES StoredIsCompleted CancelledIsCleaned ReadyIsServed
CHECK_DEADLOCK FALSE
