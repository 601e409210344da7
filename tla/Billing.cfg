SPECIFICATION Spec
CONSTANTS
  Keys = {k1, k2}
  Plans = {pro}
  Handlers = {h1, h2}
  s1 = s1
  p1 = p1
  Subscriptions = {s1}
  Ledger = {p1}
  Events <- MCEvents
  Runners = {r1, r2}
  NoKey = NoKey
  NoEvent = NoEvent
  NoRunner = NoRunner
  MaxWork = 3
  MAX_ATTEMPTS = 2
  MaxFaults = 1
INVARIANTS BillingTypeOK OutcomeIsTrue RowIsLatest
PROPERTIES MutationsDoNotOverlap ProcessedIsFinal
SYMMETRY Symmetry
CHECK_DEADLOCK FALSE
