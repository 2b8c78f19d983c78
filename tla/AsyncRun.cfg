SPECIFICATION FairAsyncSpec
CONSTANTS
  Rec = {h1, h2}
  SilentRunner = TRUE
  PidReuse = TRUE
  MaxCrashes = 2
  MaxAnnounced = 2
CHECK_DEADLOCK FALSE
INVARIANTS RunIsTrue
PROPERTIES RunConcludes
