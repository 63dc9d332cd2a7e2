\* Quotes for one item at every instant and quantity while the catalogue is edited.
\* Nobody owes the catalogue a change: it may stay as it is.
SPECIFICATION Spec
CONSTANTS
  Items <- MCItems
  RuleRecords <- MCRuleRecords
  OfferRecords <- MCOfferRecords
  Statuses <- MCStatuses
  Instants <- MCInstants
  Overrides <- MCOverrides
  LostCents <- MCLostCents
  RuleIds = {1, 2}
  OfferIds = {1}
  Quantities = {1, 2, 3}
  None = None
CHECK_DEADLOCK FALSE
INVARIANTS
  QuoteExplainsItself
  ClearanceDeepens
  RoundingGivesAtMostACent
PROPERTIES
  ScarcityNeverRaisesPrice
