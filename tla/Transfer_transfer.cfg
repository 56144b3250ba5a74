SPECIFICATION FairSpec
CONSTANTS
  x1 = x1
  old = old
  new = new
  t1 = t1
  t2 = t2
  Services = {x1}
  Servers = {old, new}
  Home = old
  MaxFaults = 2
  Sagas = {t1, t2}
  Subject <- OneSubject
  Target <- MCTarget
  Faults = {"stop", "copy", "db", "deploy", "partial", "health", "remove", "start", "logs", "clean", "build", "crash"}
INVARIANT TypeOK
INVARIANT StatefulRunsOnce
INVARIANT NoWriteLost
INVARIANT SourceServes
PROPERTY RollbackRestores
PROPERTY CommitMoves
PROPERTY EveryTransferEnds
CHECK_DEADLOCK FALSE
