SPECIFICATION FairSpec
CONSTANTS
  r1 = r1
  r2 = r2
  s1 = s1
  s2 = s2
  g1 = g1
  Runs = {r1, r2}
  Servers = {s1}
  Groups = {g1}
  NoServer = NoServer
  NoGroup = NoGroup
  User = User
  ServerOf <- Together
  GroupOf <- OneGroup
  CancelsOthers = {}
  UserCancels = {r2}
  Faults = {"link", "timeout", "db", "remove"}
  MaxMishaps = 1
  MaxRestarts = 1
INVARIANT WaitingIsBlocked
INVARIANT OneScriptPerServer
PROPERTY EveryRunEnds
CHECK_DEADLOCK FALSE
