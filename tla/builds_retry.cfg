SPECIFICATION ConsoleSpec
CONSTANTS
  Jobs = {j1}
  Tileset = t
  Tilesets <- MCTilesets
  Target <- MCTarget
  Workers = {w1}
  Dispatchers = {d1, d2}
  NoJob = NoJob
  NoEvent = NoEvent
  ActiveJobLimit = 2
  MAX_ATTEMPTS = 2
  BatchSize = 2
  QueueAttempts = 2
  MaxStalledCount = 1
  MaxRetries = 1
  MaxCleanups = 1
  AttemptCap = 2
  MaxFaults = 1
SYMMETRY Symmetry
INVARIANT VersionArtifactServed
CHECK_DEADLOCK FALSE
