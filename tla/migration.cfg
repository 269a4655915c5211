SPECIFICATION Spec
CONSTANTS
  x = x
  y = y
  a1 = a1
  a2 = a2
  b = b
  f = f
  g = g
  d1 = d1
  d2 = d2
  d3 = d3
  d4 = d4
  k1 = k1
  None = None
  Apps = {a1, a2, b, f, g}
  Clusters = {x, y}
  Resources <- MCResources
  Requests <- MCRequests
  Limits <- MCRequests
  Replicas <- MCReplicas
  Capacity <- MCCapacity
  Preference <- MCPreference
  Digs = {d1, d2, d3, d4}
  DigOrder <- MCDigOrder
  AppsOf <- MCAppsOf
  CompositeOf <- MCCompositeOf
  Candidates <- MCCandidates
  Movable = {a1, b, f}
  Priority <- MCPriority
  Clients = {k1}
  Operations = {"Instantiate"}
  MaxContexts = 6
CHECK_DEADLOCK FALSE
INVARIANTS
  OnePlacement
  LessImportantFirst
  SelectionSuffices
  UnmovableStays
