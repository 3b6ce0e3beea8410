\* A request of one line for up to two units, two orders, two requests at a time;
\* two units entering two warehouses by up to two receipts at a time, two
\* transfers, one adjustment.
CONSTANTS
  Lines = {l1}
  Orders = {o1, o2}
  Jobs = {j1, j2}
  Quantity = 2
  Delivered = 2
  Revisions = 1
  Warehouses = {w1, w2}
  Transfers = {t1, t2}
  Adjustments = {a}
  Arrivals = {j1, j2}
  Incoming = 2
SPECIFICATION SupplySpec
SYMMETRY Symmetries
CHECK_DEADLOCK FALSE
INVARIANTS
  ConvertedWithinRequest
  ReceiptsReconcile
  TransitMatchesTransfers
  ValuedAreThere
