\* Two drains that may overlap, up to two crashes or stops.
\* The queue may fall silent: clients owe it no further request.
SPECIFICATION DurableSpec
CONSTANTS
  Drains = {d1, d2}
  Limit = 2
  RetryBase = 1
  RetryMax = 1
  Requests <- MCDurableRequests
  MaxSubmitted = 1
  MaxManualRetries = 2
  MaxRestarts = 2
CHECK_DEADLOCK FALSE
INVARIANTS
  AuditIsExtended
  DispatchesBounded
  OrphansAreFrozen
