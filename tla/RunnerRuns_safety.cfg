SPECIFICATION Spec
CONSTANTS
  k1 = k1
  k2 = k2
  g1 = g1
  NumRuns = 1
  Runners = {k1, k2}
  Groups = {g1}
  NoGroup = NoGroup
  Nobody = Nobody
  GroupOf <- OneGroup
  Faults = {"offline", "lost", "crash", "restart", "remove"}
SYMMETRY Symmetric
INVARIANT TypeOK
INVARIANT ExecutedByAssignee
PROPERTY ResultNotDropped
PROPERTY OverForGood
CHECK_DEADLOCK FALSE
