SPECIFICATION FairSpec
CONSTANTS
  Plan <- ChainPlan
  MaxWidth = 3
  MaxAttempts = 2
CHECK_DEADLOCK FALSE
INVARIANTS RunnerHolds StepsInOrder
PROPERTIES ImplementsLifecycle RunEnds
