SPECIFICATION Spec
CONSTANTS
  a = a
  b = b
  g = g
  h = h
  c1 = c1
  c2 = c2
  c3 = c3
  Agent = {a, b}
  Bad = Bad
  None = None
  Torn = Torn
  Call = {c1, c2, c3}
  Host = {g, h}
  HostOf <- MCHostOf
  Message <- MCMessage
  Team = {a}
  Raw <- MCRaw
  Charter = {b}
  Task <- MCTask
  Known = FALSE
  Executes = {g, h}
  Used = {100, 180000, 200000}
  Plan <- MCPlan
  MaxClock = 1
INVARIANTS PromptsKept Settled RegistryKept
CHECK_DEADLOCK FALSE
