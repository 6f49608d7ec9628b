SPECIFICATION Spec
CONSTANTS
  None = None
  Incoming = {a, b}
  File = {f}
  First = d
  Kept = {f}
  Patient = FALSE
  MaxTyped = 2
  MaxCalls = 5
  MaxFault = 1
INVARIANTS
  WrittenIsKept
CHECK_DEADLOCK FALSE
