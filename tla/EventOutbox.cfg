SPECIFICATION FairOutboxSpec
CONSTANTS
  Events = {e1, e2}
  Dispatchers = {d1, d2}
  NoEvent = NoEvent
  MAX_ATTEMPTS = 2
  BatchSize = 2
  AttemptCap = 3
INVARIANTS OutboxTypeOK ClaimsAreFenced FailedIsExhausted
PROPERTIES CompletedReopensOnlyIfHeld EventsSettle
CHECK_DEADLOCK FALSE
