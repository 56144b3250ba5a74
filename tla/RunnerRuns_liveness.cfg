SPECIFICATION FairSpec
CONSTANTS
  k1 = k1
  k2 = k2
  g1 = g1
  NumRuns = 2
  Runners = {k1}
  Groups = {g1}
  NoGroup = NoGroup
  Nobody = Nobody
  GroupOf <- OneGroup
  Faults = {"offline"}
PROPERTY CancelledRunsEnd
PROPERTY ClaimedRunsEnd
CHECK_DEADLOCK FALSE
