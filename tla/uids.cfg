SPECIFICATION Spec
CONSTANTS
  m1 = m1
  m2 = m2
  x1 = x1
  x2 = x2
  Machine = {m1, m2}
  Mid = {x1, x2}
  MaxOps = 4
  CompactAfter = 2
  Faults = {"put", "crash"}
INVARIANTS
  TypeOK
  OneMessagePerNumber
  NumberNeverReused
  Converged
SYMMETRY Symmetry
