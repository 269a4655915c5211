SPECIFICATION FairSpec
CONSTANTS
  ac1 = ac1
  ac2 = ac2
  web = web
  db = db
  n1 = n1
  n2 = n2
  r1 = r1
  r2 = r2
  r3 = r3
  dcm = dcm
  s1 = s1
  s2 = s2
  digStatus = digStatus
  NoStream = NoStream
  NoRegistration = NoRegistration
  AppContexts = {ac1, ac2}
  Apps = {web, db}
  Listeners = {dcm}
  ListensTo <- MCListensTo
  Server = digStatus
  Streams = {s1, s2}
  Clients = {n1, n2}
  Registrations = {r1, r2, r3}
  ClientOf <- MCClientOf
  Watches <- MCWatches
  Wants <- MCWants
  KindOf <- MCKindOf
  MaxChanges = 2
  Faults = {"rpc", "rsync"}
CHECK_DEADLOCK FALSE
INVARIANTS
  TypeOK
  ClientsCovered
  UnsubscribeIsHeard
PROPERTIES
  EveryClientTold
