CONSTANTS
  l1 = l1
  l2 = l2
  Lines = {l1, l2}
  Dispatched = 1
  MaxCorrections = 1
SPECIFICATION DraftSpec
CHECK_DEADLOCK FALSE
PROPERTIES DeliveriesInvoiced
