SPECIFICATION AsyncSpec
CONSTANTS
  Rec = {h1}
  SilentRunner = FALSE
  PidReuse = FALSE
  MaxCrashes = 0
  MaxAnnounced = 1
CHECK_DEADLOCK FALSE
PROPERTIES
  ResultPreserved
