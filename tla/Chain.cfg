SPECIFICATION ChainSpec
CONSTANTS
  x = x
  y = y
  z = z
  p = p
  q = q
  Plan <- MCPlan
  Value <- MCValue
  IdOf <- MCIdOf
  Default <- MCDefault
  Edits <- MCEdits
  Items <- MCItems
  Concurrency = 2
  Nil = Nil
INVARIANTS TextsHold Ending NumbersAgree
PROPERTY ChainEnds
CHECK_DEADLOCK FALSE
