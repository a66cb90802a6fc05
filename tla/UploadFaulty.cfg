SPECIFICATION Spec
CONSTANTS
  f1 = f1
  f2 = f2
  NoFile = NoFile
  Files <- MCFiles
  SizeKnown <- MCSizeKnown
  RetryLimit = 1
  Budget <- Faulty
INVARIANTS TypeOK RecordedIsVerified CompletedIsDone RetriesAreBounded UploadingIsCurrent
PROPERTIES RecordedIdIsFinal DeletesAreJustified
CHECK_DEADLOCK FALSE
