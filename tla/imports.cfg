SPECIFICATION Spec
CONSTANTS
  Imports = {i1, i2}
  Dispatchers = {d1, d2}
  NoEvent = NoEvent
  MAX_ATTEMPTS = 2
  BatchSize = 1
  AttemptCap = 2
  MaxVersions = 3
  MaxUpsets = 1
SYMMETRY Symmetry
INVARIANTS ImportTypeOK CurrentVersionServed DatasetStatusTrue OutcomeShown
PROPERTY VersionsAdvance
CHECK_DEADLOCK FALSE
