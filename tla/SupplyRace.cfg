\* The instance of Supply.cfg; opening stock of one warehouse and a receipt into
\* it are enough to fail.
CONSTANTS
  Lines = {l1}
  Orders = {o1, o2}
  Jobs = {j1, j2}
  Quantity = 2
  Delivered = 2
  Revisions = 1
  Warehouses = {w1, w2}
  Transfers = {t1, t2}
  Adjustments = {a}
  Arrivals = {j1, j2}
  Incoming = 2
SPECIFICATION SupplySpec
SYMMETRY Symmetries
CHECK_DEADLOCK FALSE
INVARIANT ValuationAlwaysMatches
