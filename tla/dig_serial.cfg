SPECIFICATION Spec
CONSTANTS
  c1 = c1
  c2 = c2
  c3 = c3
  d1 = d1
  d2 = d2
  k1 = k1
  k2 = k2
  NoContext = NoContext
  NoDig = NoDig
  AppContexts = {c1, c2}
  Digs = {d1, d2}
  Clients = {k1}
  Operations = {"Create", "Approve", "Instantiate", "Terminate", "Update", "Stop", "Rollback", "Migrate"}
  Faults = {}
  MaxActions = 7
  MaxPending = 2
SYMMETRY DigSymmetry
CHECK_DEADLOCK FALSE
INVARIANTS
  OneOwner
  TerminatedIsLeaving
  KnownResources
