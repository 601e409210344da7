SPECIFICATION FairSpec
CONSTANTS
  Imports = {i1, i2}
  Dispatchers = {d1}
  NoEvent = NoEvent
  MAX_ATTEMPTS = 2
  BatchSize = 1
  AttemptCap = 2
  MaxVersions = 2
  MaxUpsets = 2
PROPERTIES ImportsSettle EndedImportLeavesNothing
CHECK_DEADLOCK FALSE
