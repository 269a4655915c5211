SPECIFICATION FairSpec
CONSTANTS
  p = p
  d1 = d1
  d2 = d2
  d3 = d3
  k1 = k1
  k2 = k2
  n1 = n1
  Apps = {p, d1, d2}
  AppOrder <- MCOrder
  Clusters = {k1, k2}
  ClustersOf <- MCClustersOf
  Dependencies <- MCDependencies
  Groups <- MCGroups
  Callbacks = {n1}
  Event = "Instantiate"
  Faults = {"fail", "terminate"}
  MaxSenders = 1
  MaxLapses = 1
CHECK_DEADLOCK FALSE
INVARIANTS
  ReadyOrder
  HookOrder
PROPERTIES
  OperationEnds
