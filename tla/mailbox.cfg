SPECIFICATION Spec
CONSTANTS
  m1 = m1
  m2 = m2
  w1 = w1
  w2 = w2
  a = a
  b = b
  Machine = {m1, m2}
  Worker = {w1, w2}
  Message = {a, b}
  Old = a
  RuleHits = {a}
  GiveUpAfter = 2
  AllowDelete = TRUE
  MaxSaves = 2
  MaxOp = 3
  MaxFault = 2
  Faults = {"list", "get", "copy", "delete", "put", "crash"}
INVARIANTS
  TypeOK
  MessageKept
  MarksKept
  FiledOnce
PROPERTIES
  IndexTrue
SYMMETRY Symmetry
CHECK_DEADLOCK FALSE
