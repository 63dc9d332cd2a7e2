\* Four records in the ten collections: two businesses, what they refer to, moves and deletions.
\* Nobody owes the records a change: they may stay as they are.
SPECIFICATION Spec
CONSTANTS
  KeyValues = {k1, k2}
  None = None
  MaxRecords = 4
SYMMETRY MCSymmetry
CHECK_DEADLOCK FALSE
INVARIANTS
  BusinessesOwnTheirRecords
  KeysAreUnique
  BrokenReferencesCanBeCleared
  RulesPriceTheirOwnItem
