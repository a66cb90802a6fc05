SPECIFICATION Spec
CONSTANTS
  f1 = f1
  f2 = f2
  my = my
  sub = sub
  NoFile = NoFile
  NoFolder = NoFolder
  Search = Search
  Files <- MCFiles
  Folders <- MCFolders
  Root = my
  SharedDrive = sub
  Contents <- MCContents
  RecentLimit = 1
  MaxDepth = 1
  MaxStruck = 1
  Strikes <- EveryFault
  Once <- Failures
SYMMETRY Symmetry
INVARIANTS TypeOK SelectionMatchesButton AwaitingIsAnswerable TextReachesItsQuestion
CHECK_DEADLOCK FALSE
