SPECIFICATION FairSpec
CONSTANTS
  Lists <- MCLists
  Searches <- MCSearches
  Drives <- MCDrives
  Places <- MCPlaces
  Place <- MCPlace
  Prefix <- MCPrefix
  TTL = 2
  MaxChanges = 1
  MaxErrors = 1
INVARIANTS TypeOK QuietDriveIsShown RefreshIsNotUndone
PROPERTIES StaleViewsEnd
