CONSTANTS
  o1 = o1
  o2 = o2
  s1 = s1
  s2 = s2
  r1 = r1
  r2 = r2
  NoOrder = NoOrder
  Orders = {o1}
  Skus = {s1, s2}
  Receipts = {r1, r2}
  Policies = {"prepaid"}
  MaxApprovals = 1
  MaxFulfillments = 2
  MaxQty = 1
  MaxAmount = 1
  MaxStock = 1
SYMMETRY LineSymmetry
SPECIFICATION Spec
INVARIANTS CommitmentsBacked CoverageReconciles ReleasedStaysPaid
PROPERTIES ExpiredStaysExpired
CHECK_DEADLOCK FALSE
