SPECIFICATION OperatedFairSpec
CONSTANTS
  Jobs = {j1}
  Tileset = t
  Tilesets <- MCTilesets
  Target <- MCTarget
  Workers = {w1}
  Dispatchers = {d1}
  NoJob = NoJob
  NoEvent = NoEvent
  ActiveJobLimit = 2
  MAX_ATTEMPTS = 2
  BatchSize = 1
  QueueAttempts = 2
  MaxStalledCount = 1
  MaxRetries = 1
  MaxCleanups = 2
  AttemptCap = 2
  MaxFaults = 0
PROPERTY BuildsSettle
CHECK_DEADLOCK FALSE
