SPECIFICATION Spec
CONSTANTS
  c1 = c1
  c2 = c2
  c3 = c3
  x1 = x1
  x2 = x2
  k1 = k1
  k2 = k2
  NoContext = NoContext
  AppContexts = {c1, c2}
  Clusters = {x1}
  GitOps = {}
  Levels = {"0"}
  Clients = {k1, k2}
  Operations = {"Create", "Reference", "Instantiate", "Terminate", "Delete"}
  Faults = {"crash", "fail", "namespace"}
  MaxActions = 3
  MaxPending = 1
SYMMETRY CloudSymmetry
CHECK_DEADLOCK FALSE
INVARIANTS
  TypeOK
  TerminatedIsLeaving
