SPECIFICATION OverlappingFairSpec
CONSTANTS
  Jobs = {j1}
  Tileset = t
  Tilesets <- MCTilesets
  Target <- MCTarget
  Workers = {w1, w2}
  Dispatchers = {d1}
  NoJob = NoJob
  NoEvent = NoEvent
  ActiveJobLimit = 2
  MAX_ATTEMPTS = 2
  BatchSize = 1
  QueueAttempts = 2
  MaxStalledCount = 1
  MaxRetries = 0
  MaxCleanups = 2
  AttemptCap = 2
  MaxFaults = 1
INVARIANTS OneVersionPerBuild NoBuildJobLeftBehind
PROPERTIES CancellationIsFinal BuildsSettle UnretriedTilesetSettles
CHECK_DEADLOCK FALSE
