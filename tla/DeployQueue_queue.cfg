SPECIFICATION FairSpec
CONSTANTS
  p1 = p1
  g1 = g1
  g2 = g2
  g3 = g3
  Partitions = {p1}
  Groups = {g1, g2, g3}
  Settings = {1, 2}
  QueriesFail = TRUE
  Capacity = 2
  MaxJobs = 4
  MaxDrains = 2
INVARIANT TypeOK
INVARIANT WithinCapacity
INVARIANT WorkConserving
PROPERTY ImplementsExecutor
PROPERTY EveryJobServed
