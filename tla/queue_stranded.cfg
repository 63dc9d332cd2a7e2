\* Two drains overlap: a job is left retrying for ever.
\* The queue may fall silent: clients owe it no further request.
SPECIFICATION FairSpec
CONSTANTS
  Drains = {d1, d2}
  Limit = 2
  RetryBase = 1
  RetryMax = 1
  Requests <- MCOverlapRequests
  MaxSubmitted = 2
  MaxManualRetries = 0
CHECK_DEADLOCK FALSE
PROPERTIES
  EventuallySettled
