\* One drain at a time, called again and again; clients that queue and retry by hand.
\* The queue falls silent once everything is settled: clients owe it no further request.
SPECIFICATION FairSpec
CONSTANTS
  Drains = {d1}
  Limit = 2
  RetryBase = 1
  RetryMax = 2
  Requests <- MCMixedRequests
  MaxSubmitted = 2
  MaxManualRetries = 1
CHECK_DEADLOCK FALSE
INVARIANTS
  NoStrandedJob
PROPERTIES
  BackoffRespected
  ImplementsContract
  EventuallySettled
