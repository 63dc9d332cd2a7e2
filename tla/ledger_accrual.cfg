\* Two users with one source and one key, around midnight, with exports and payments.
\* The ledger may stay as it is: nobody owes it a request.
SPECIFICATION Spec
CONSTANTS
  Users = {u1, u2}
  Sources = {s1}
  Keys = {k1}
  None = None
  Rules <- MCRules
  Tokens <- MCTokens
  Batches = {b1}
  Hashes = {h1}
  ManualAmounts <- MCAmounts
  DayLength = 86400
  Lags = {1}
  Instants <- MCInstants
  MaxEntries = 3
SYMMETRY MCSymmetry
CHECK_DEADLOCK FALSE
INVARIANTS
  AccruedOnce
  CooldownKept
  DailyCapKept
PROPERTIES
  PayoutOnlyAdvances
  CreditsKeepContract
