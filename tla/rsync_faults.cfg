SPECIFICATION Spec
CONSTANTS
  A = A
  B = B
  t1 = t1
  t2 = t2
  t3 = t3
  k1 = k1
  k2 = k2
  cluster1 = cluster1
  cluster5 = cluster5
  a1c1 = a1c1
  a1c5 = a1c5
  a2c1 = a2c1
  NoContext = NoContext
  NoThread = NoThread
  AppContexts = {A, B}
  Placements = {a1c1, a2c1}
  Clusters = {cluster1}
  ClusterOf <- MCClusterOf
  Manifest <- MCManifest
  Changed = {a2c1}
  Threads = {t1, t2, t3}
  Callers = {k1}
  Requests <- UpdateTerminate
  Faults = {"pods", "phase", "slow", "crash", "stop", "start"}
  MaxCrashes = 2
SYMMETRY ThreadSymmetry
CHECK_DEADLOCK FALSE
INVARIANTS
  PendingIsActive
PROPERTIES
  RetainedStays
