SPECIFICATION Spec
CONSTANTS
  r1 = r1
  r2 = r2
  s1 = s1
  s2 = s2
  g1 = g1
  Runs = {r1, r2}
  Servers = {s1, s2}
  Groups = {g1}
  NoServer = NoServer
  NoGroup = NoGroup
  User = User
  ServerOf <- Apart
  GroupOf <- SameGroup
  CancelsOthers = {r1, r2}
  UserCancels = {r1}
  Faults = {"link", "timeout", "db", "remove"}
  MaxMishaps = 2
  MaxRestarts = 1
INVARIANT TypeOK
INVARIANT ActiveRunsCompatible
INVARIANT QueuedIsTracked
INVARIANT InProgressIsExecuted
CHECK_DEADLOCK FALSE
