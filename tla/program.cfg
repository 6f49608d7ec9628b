SPECIFICATION Spec
CONSTANTS
  Start = {s1, s2}
  Tab = {t1, t2}
  Id = {a, b}
  MaxSaves = 2
  MaxFault = 1
  Faults = {"crash", "access", "address"}
INVARIANTS
  TypeOK
  OthersKept
  SetUpIsServed
SYMMETRY Symmetry
CHECK_DEADLOCK FALSE
