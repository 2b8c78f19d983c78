SPECIFICATION FairSpec
CONSTANTS
  Step = {1, 2}
  Groups = 2
  GroupOf <- Chain
  Dynamic = {2}
  Threshold = 2
  NotifyOn <- BothRemarks
  Editing = {1}
  Paths = {"f"}
  MaxRetell = 2
CHECK_DEADLOCK FALSE
INVARIANTS RemarksHold
PROPERTIES AttentionRises
