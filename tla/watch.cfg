SPECIFICATION NewsLiveSpec
CONSTANTS
  MaxMail = 2
  MaxArmed = 2
  Buffer = 2
  Minute = 2
  MaxTrouble = 2
  Troubles = {"receive", "delete", "refresh", "elsewhere", "stream", "hidden", "button", "rearm", "other"}
INVARIANTS
  NewsTypeOK
  NothingUntold
PROPERTIES
  NewsIsShown
CHECK_DEADLOCK FALSE
