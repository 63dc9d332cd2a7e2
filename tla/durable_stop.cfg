\* What open requests record after the last flush is lost by a graceful stop.
\* The queue may fall silent: clients owe it no further request.
SPECIFICATION DurableSpec
CONSTANTS
  Drains = {d1}
  Limit = 1
  RetryBase = 1
  RetryMax = 1
  Requests <- MCEmailRequest
  MaxSubmitted = 1
  MaxManualRetries = 0
  MaxRestarts = 1
CHECK_DEADLOCK FALSE
PROPERTIES
  GracefulStopLosesNothing
