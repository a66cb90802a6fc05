SPECIFICATION Spec
CONSTANTS
  f1 = f1
  f2 = f2
  NoFile = NoFile
  Files <- MCFiles
  SizeKnown <- MCSizeKnown
  RetryLimit = 1
  Budget <- OneCrash
PROPERTIES RecoveryFollowsPolicy
CHECK_DEADLOCK FALSE
