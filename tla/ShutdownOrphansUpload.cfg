SPECIFICATION FairSpec
CONSTANTS
  MaxUpdates = 3
  MaxReady = 2
  MaxStruck = 1
  Strikes <- OneLateUpdate
INVARIANTS EveryUploadIsRecorded
CHECK_DEADLOCK FALSE
