CONSTANTS
  o1 = o1
  o2 = o2
  s1 = s1
  r1 = r1
  p1 = p1
  p2 = p2
  p3 = p3
  NoOrder = NoOrder
  Orders = {o1, o2}
  Skus = {s1}
  Receipts = {}
  Picks = {p1, p2}
  Policies = {"on_account"}
  MaxApprovals = 2
  MaxFulfillments = 2
  MaxQty = 2
  MaxAmount = 2
  MaxStock = 2
SYMMETRY FullSymmetry
SPECIFICATION QuietSpec
CHECK_DEADLOCK FALSE
INVARIANTS PickingTypeOK CustodyBalances FulfillmentPicked
