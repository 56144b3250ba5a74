SPECIFICATION FairSpec
CONSTANTS
  x1 = x1
  Services = {x1}
  Attempts = {1, 2, 3}
  Direct = {3}
  ServiceOf <- MCServiceOf
  Keep = 1
  Faults = {"db", "prune", "side", "user", "odd", "crash", "gap"}
  MaxFaults = 2
  MaxCrashes = 1
INVARIANT TypeOK
INVARIANT RunningIsExecuted
INVARIANT StatusTells
PROPERTY StatusSettles
CHECK_DEADLOCK FALSE
