SPECIFICATION Spec
CONSTANTS
  f1 = f1
  f2 = f2
  NoFile = NoFile
  Cut = Cut
  NoPath = NoPath
  Files <- MCFiles
  Names <- MCNames
  OrigName <- MCOrigName
  TempOf <- MCTempOf
  MaxSuffix = 2
  MaxStruck = 1
  BotApi <- MCBotApi
  Sized <- MCSized
  Strikes <- OneClash
PROPERTIES MoveNeverOverwrites
CHECK_DEADLOCK FALSE
