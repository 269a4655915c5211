SPECIFICATION Spec
CONSTANTS
  c1 = c1
  c2 = c2
  c3 = c3
  d1 = d1
  d2 = d2
  k1 = k1
  k2 = k2
  NoContext = NoContext
  NoDig = NoDig
  AppContexts = {c1, c2}
  Digs = {d1}
  Clients = {k1, k2}
  Operations = {"Create", "Approve", "Instantiate", "Terminate", "Update", "Delete"}
  Faults = {"concurrent", "crash", "call", "fail"}
  MaxActions = 5
  MaxPending = 1
SYMMETRY DigSymmetry
CHECK_DEADLOCK FALSE
INVARIANTS
  TypeOK
  TerminatedIsLeaving
  StatusShared
