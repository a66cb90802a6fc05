SPECIFICATION FairSpec
CONSTANTS
  f1 = f1
  f2 = f2
  NoFile = NoFile
  Files <- MCFiles
  RetryLimit = 1
  Budget <- AnyFault
PROPERTIES DownloadsSettle AwaitingIsPrompted
CHECK_DEADLOCK FALSE
