SPECIFICATION Spec
CONSTANTS
  Columns = 16
  CellWidth = 5
  CellHeight = 8
  Step = 3
  StartX = 39
  StartY = 7
  MaxX = 73
  MaxY = 14
  EnemyFrames = 10
  SpawnFrames = 40
  CountLimit = 2
INVARIANT TypeOK
PROPERTIES
  TeleportIsSurvived
  EnemiesPassOnlyBy
