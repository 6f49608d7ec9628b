SPECIFICATION Spec
CONSTANTS
  p1 = p1
  p2 = p2
  Phone = {p1, p2}
  Direct = TRUE
  MaxDialog = 3
  MaxOpen = 2
  MaxFault = 2
  Faults = {"call", "list", "room", "ask", "lost", "left"}
SYMMETRY Symmetry
INVARIANTS
  TypeOK
  DeviceStaysIn
  AbandonedOpensNothing
PROPERTIES
  OneKeyAtRest
CHECK_DEADLOCK FALSE
