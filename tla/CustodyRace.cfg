\* One delivery of two units; commands on its exceptions commit between the
\* checks and the posting of a correction.
CONSTANTS
  Deliveries = {d1, d2}
  Returns = {r1}
  Picked = 2
  Versions = 2
SPECIFICATION CustodySpec
CHECK_DEADLOCK FALSE
INVARIANT CorrectsOnlyUntouched
