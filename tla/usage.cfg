SPECIFICATION Spec
CONSTANTS
  Requests = {r1, r2, r3}
  Cost <- MCCost
  Limit = 5
  BATCH_SIZE = 2
  NoRequest = NoRequest
  MaxFaults = 1
  Users = {u1, u2}
  Runs = {n1, n2}
  NoRun = NoRun
  NoUser = NoUser
  MAX_DELIVERY_ATTEMPTS = 2
SYMMETRY Symmetry
INVARIANTS NoticesTypeOK WithinQuota WarningRequested NoticesTrue
PROPERTY RefusalIsJust
CHECK_DEADLOCK FALSE
