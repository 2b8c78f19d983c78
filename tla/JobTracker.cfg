SPECIFICATION FairSpec
CONSTANTS
  Job = {"a"}
  MaxLines = 3
  MaxLoads = 2
CHECK_DEADLOCK FALSE
INVARIANTS JobsHold
PROPERTIES JobsLeave
