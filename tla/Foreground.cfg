SPECIFICATION Spec
CONSTANTS
  f = f
  g = g
  Run = {f, g}
  Job = {a}
  Slash = {f}
  Prompt = {g}
  Tasks <- MCTasks
  Concurrency = 2
  Clarified = {g}
  Isolated = {f}
  Bridge = TRUE
  RememberLimit = 1
  Watched <- MCWatched
  Ends <- MCEnds
  None = None
INVARIANTS Answered ReviveOnlyAfterExit SoleChildNoticed
CHECK_DEADLOCK FALSE
