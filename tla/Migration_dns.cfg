SPECIFICATION MCSpec
CONSTANTS
  old = old
  new = new
  third = third
  web = web
  db = db
  api = api
  w1 = w1
  w2 = w2
  a1 = a1
  a2 = a2
  m1 = m1
  m2 = m2
  Services = {web, db, api}
  Servers = {old, new, third}
  Home = old
  Migrations = {m1}
  Sagas <- MCSagas
  Subject <- MCSubject
  Target <- MCTarget
  From <- MCFrom
  To <- MCTo
  Asked <- MCAsked
  EnvOf <- MCEnvOf
  Records = {w1, w2, a1, a2}
  DomainOf <- MCDomainOf
  ServiceOf <- MCServiceOf
  Zone <- TwoOnSource
  Faults = {"probe"}
  MaxFaults = 0
PROPERTY DnsIncluded
CHECK_DEADLOCK FALSE
