SPECIFICATION Spec
CONSTANTS
  c1 = c1
  c2 = c2
  c3 = c3
  x1 = x1
  x2 = x2
  k1 = k1
  k2 = k2
  NoContext = NoContext
  AppContexts = {c1, c2}
  Clusters = {x1, x2}
  GitOps = {x2}
  Levels = {"1"}
  Clients = {k1}
  Operations = {"Create", "Reference", "Instantiate", "Terminate", "Permit", "Stop", "Update", "Kubeconfig"}
  Faults = {"call"}
  MaxActions = 5
  MaxPending = 2
SYMMETRY CloudSymmetry
CHECK_DEADLOCK FALSE
INVARIANTS
  ResourcesRecorded
  StatusCollected
  ConfigIsCertified
  TerminatedIsLeaving
