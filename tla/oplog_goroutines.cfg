SPECIFICATION Spec
CONSTANTS
  m1 = m1
  m2 = m2
  t1 = t1
  t2 = t2
  c1 = c1
  c2 = c2
  Machine = {m1}
  Thread = {t1, t2}
  Host <- OneMachine
  Change = {c1, c2}
  Msg <- Messages
  MsgOf <- SameMessage
  MaxName = 3
  CompactAfter = 2
  MaxFault = 2
  Faults = {"put", "get", "list", "delete"}
INVARIANT
  NothingLost
PROPERTY
  DeletedIsMerged
SYMMETRY TwoGoroutines
