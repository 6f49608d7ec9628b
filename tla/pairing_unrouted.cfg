SPECIFICATION Spec
CONSTANTS
  p1 = p1
  p2 = p2
  Phone = {p1}
  Direct = FALSE
  MaxDialog = 1
  MaxOpen = 1
  MaxFault = 0
  Faults = {}
INVARIANTS
  ClosedIsSettled
CHECK_DEADLOCK FALSE
