SPECIFICATION Spec
CONSTANTS
  s1 = s1
  s2 = s2
  Server = {s1, s2}
  MaxAttempt = 2
  MaxFault = 2
  Faults = {"crash", "marker", "ses", "mark", "copy", "recopy", "drop", "clear", "list", "hasty", "elsewhere", "rearm"}
INVARIANTS
  TypeOK
  NoDoubleSend
  OnlyAfterSending
PROPERTIES
  MarkerOutlivesWork
