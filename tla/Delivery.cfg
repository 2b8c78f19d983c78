SPECIFICATION FairSpec
CONSTANTS
  r1 = r1
  r2 = r2
  s1 = s1
  s2 = s2
  None = None
  Unscoped = Unscoped
  Run = {r1, r2}
  Session = {s1, s2}
  Owner <- WithUnscoped
  Target = {r1}
  Faults = {"limit", "error", "enrich", "unlink"}
  Ends = {"shutdown", "exit"}
  MaxWrites = 2
  MaxLoads = 2
  MaxFailures = 1
CHECK_DEADLOCK FALSE
INVARIANTS ResultsHold
PROPERTIES ResultsArrive
