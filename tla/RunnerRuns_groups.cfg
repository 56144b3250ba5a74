SPECIFICATION Spec
CONSTANTS
  k1 = k1
  k2 = k2
  g1 = g1
  NumRuns = 2
  Runners = {k1, k2}
  Groups = {g1}
  NoGroup = NoGroup
  Nobody = Nobody
  GroupOf <- OneGroup
  Faults = {}
INVARIANT ClaimsRespectGroups
CHECK_DEADLOCK FALSE
