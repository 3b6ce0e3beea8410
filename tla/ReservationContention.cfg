CONSTANTS
  o1 = o1
  o2 = o2
  s1 = s1
  s2 = s2
  r1 = r1
  r2 = r2
  NoOrder = NoOrder
  Orders = {o1, o2}
  Skus = {s1}
  Receipts = {}
  Policies = {"prepaid", "on_account"}
  MaxApprovals = 2
  MaxFulfillments = 3
  MaxQty = 2
  MaxAmount = 1
  MaxStock = 1
SYMMETRY OrderSymmetry
SPECIFICATION Spec
INVARIANTS TypeOK ReservedMatchesLedger HeldHasHold
PROPERTIES PromisesOnlyAvailable
CHECK_DEADLOCK FALSE
