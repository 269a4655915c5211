SPECIFICATION Spec
CONSTANTS
  p = p
  d1 = d1
  d2 = d2
  d3 = d3
  k1 = k1
  k2 = k2
  n1 = n1
  Apps = {p, d1, d2, d3}
  AppOrder <- FanOrder
  Clusters = {k1}
  ClustersOf <- FanClustersOf
  Dependencies <- FanDependencies
  Groups <- FanGroups
  Callbacks = {n1}
  Event = "Instantiate"
  Faults = {}
  MaxSenders = 1
  MaxLapses = 0
CHECK_DEADLOCK FALSE
INVARIANTS
  NoLostNotification
