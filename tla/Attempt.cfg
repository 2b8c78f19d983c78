SPECIFICATION AttemptSpec
CONSTANTS
  big = big
  alias = alias
  small = small
  Wanted <- MCWanted
  Qualify <- MCQualify
  Detachable = TRUE
  Explicits <- MCExplicits
  Inferred = {"attested", "checked", "reviewed"}
  Reports <- MCReports
  None = None
INVARIANTS OneChildAtATime Verdict
PROPERTIES RunsEnd
CHECK_DEADLOCK FALSE
