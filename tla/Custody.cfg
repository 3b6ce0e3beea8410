\* Two units on up to two deliveries, outcomes recorded twice, two returns.
CONSTANTS
  Deliveries = {d1, d2}
  Returns = {r1, r2}
  Picked = 2
  Versions = 2
SPECIFICATION CustodySpec
SYMMETRY Symmetries
CHECK_DEADLOCK FALSE
INVARIANTS
  CustodyTypeOK
  CustodyMatchesCases
  ValuationMatches
  ReturnsWithinDelivered
  ConversionsSettle
PROPERTIES
  KeepsCustody
