CONSTANTS
  j1 = j1
  j2 = j2
  Events = 2
  Confirmed = {1}
  Documented = {1}
  Unreachable = {1}
  Jobs = {j1, j2}
  Limit = 2
  MaxFaults = 2
SPECIFICATION OutboxSpec
CHECK_DEADLOCK FALSE
INVARIANTS OutboxTypeOK InsertsNeverCollide
PROPERTIES HandlesEvents
