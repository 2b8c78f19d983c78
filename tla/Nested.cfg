SPECIFICATION NestedSpec
CONSTANTS
  n1 = n1
  n2 = n2
  o1 = o1
  o2 = o2
  Root = root
  Run = {n1, n2}
  Parent <- MCParent
  Owner <- MCOwner
  Foreground = {n1}
  Reader = {o1}
  MaxClock = 2
  Ends = {"complete"}
  Mortal = {o1, n2}
  KeepNames = 2
INVARIANTS Shown
PROPERTIES EndsShown
CHECK_DEADLOCK FALSE
