\* Up to three accruals and corrections, two batches, up to two crashes.
\* The ledger may stay as it is: nobody owes it a request.
SPECIFICATION DurableSpec
CONSTANTS
  Users = {u1}
  Sources = {s1}
  Keys = {}
  None = None
  Rules <- MCRules
  Tokens <- MCTokens
  Batches = {b1, b2}
  Hashes = {h1}
  ManualAmounts <- MCAmounts
  DayLength = 86400
  Lags = {0}
  Instants = {}
  MaxEntries = 3
  MaxRestarts = 2
CHECK_DEADLOCK FALSE
INVARIANTS
  HandedOutOncePerRun
  SettlementsFollowExports
  ExportedBatchIsKnown
