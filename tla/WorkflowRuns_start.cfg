SPECIFICATION Spec
CONSTANTS
  r1 = r1
  r2 = r2
  s1 = s1
  s2 = s2
  g1 = g1
  Runs = {r1, r2}
  Servers = {s1}
  Groups = {g1}
  NoServer = NoServer
  NoGroup = NoGroup
  User = User
  ServerOf <- Together
  GroupOf <- SameGroup
  CancelsOthers = {}
  UserCancels = {r1}
  Faults = {}
  MaxMishaps = 0
  MaxRestarts = 0
PROPERTY StartsOnlyQueued
CHECK_DEADLOCK FALSE
