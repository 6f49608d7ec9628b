SPECIFICATION Spec
CONSTANTS
  m1 = m1
  m2 = m2
  t1 = t1
  t2 = t2
  c1 = c1
  c2 = c2
  Machine = {m1, m2}
  Thread = {t1, t2}
  Host <- TwoMachines
  Change = {c1, c2}
  Msg <- Messages
  MsgOf <- SameMessage
  MaxName = 3
  CompactAfter = 1
  MaxFault = 1
  Faults = {"put", "get", "list", "delete", "clock", "crash"}
INVARIANTS
  TypeOK
  AckedDurable
PROPERTIES
  ImplementsLedger
  SnapshotGrows
SYMMETRY Symmetry
