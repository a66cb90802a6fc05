SPECIFICATION FairSpec
CONSTANTS
  MaxUpdates = 4
  MaxReady = 3
  MaxStruck = 3
  Strikes <- EveryFault
INVARIANTS TypeOK DatabaseOutlivesItsUsers FailedStartupLeavesNothing ShutdownWaitsForUploads
PROPERTIES ShutdownCompletes
CHECK_DEADLOCK FALSE
