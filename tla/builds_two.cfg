SPECIFICATION ConsoleSpec
CONSTANTS
  Jobs = {j1, j2}
  Tileset = t
  Tilesets <- MCTilesets
  Target <- MCTarget
  Workers = {w1}
  Dispatchers = {d1}
  NoJob = NoJob
  NoEvent = NoEvent
  ActiveJobLimit = 2
  MAX_ATTEMPTS = 2
  BatchSize = 1
  QueueAttempts = 2
  MaxStalledCount = 0
  MaxRetries = 0
  MaxCleanups = 1
  AttemptCap = 1
  MaxFaults = 1
SYMMETRY Symmetry
INVARIANTS TypeOK OneActiveBuild
PROPERTY ImplementsTilesetBuilds
CHECK_DEADLOCK FALSE
