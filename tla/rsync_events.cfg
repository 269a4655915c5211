SPECIFICATION Spec
CONSTANTS
  A = A
  B = B
  t1 = t1
  t2 = t2
  t3 = t3
  k1 = k1
  k2 = k2
  cluster1 = cluster1
  cluster5 = cluster5
  a1c1 = a1c1
  a1c5 = a1c5
  a2c1 = a2c1
  NoContext = NoContext
  NoThread = NoThread
  AppContexts = {A}
  Placements = {a1c1, a2c1}
  Clusters = {cluster1}
  ClusterOf <- MCClusterOf
  Manifest <- MCManifest
  Changed = {}
  Threads = {t1, t2}
  Callers = {k1, k2}
  Requests <- InstallReadTerminate
  Faults = {"overlap", "client", "apply", "delete", "outage", "retries"}
  MaxCrashes = 0
SYMMETRY ThreadSymmetry
CHECK_DEADLOCK FALSE
INVARIANTS
  TypeOK
  OneMainThreadUntilCrash
  RunningHasThread
  TerminateFlagHasThread
  NoStrandedEvent
  SettledState
PROPERTIES
  HandledInOrder
  VerdictIsFinal
  ImplementsLifecycle
