SPECIFICATION LiveSpec
CONSTANTS
  s1 = s1
  s2 = s2
  Server = {s1}
  MaxAttempt = 2
  MaxFault = 3
  Faults = {"crash", "marker", "ses", "mark", "copy", "recopy", "drop", "clear", "list", "hasty", "elsewhere", "rearm"}
PROPERTIES
  SentIsFiled
  Settles
