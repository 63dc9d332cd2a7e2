\* Two drains at a time, clients that queue and retry by hand; a push job that falls back.
\* The queue may fall silent: clients owe it no further request.
SPECIFICATION Spec
CONSTANTS
  Drains = {d1, d2}
  Limit = 2
  RetryBase = 1
  RetryMax = 1
  Requests <- MCOverlapRequests
  MaxSubmitted = 2
  MaxManualRetries = 1
SYMMETRY MCSymmetry
CHECK_DEADLOCK FALSE
INVARIANTS
  FallbackPerFailure
  AttemptsNumberedOnce
  EveryAttemptAccountedFor
  ProcessingIsInFlight
  BudgetOverrunBounded
PROPERTIES
  WorkRunsOut
