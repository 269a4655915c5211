SPECIFICATION FairSpec
CONSTANTS
  project = project
  compositeApp = compositeApp
  version = version
  dig = dig
  cloud = cloud
  orchestrator = orchestrator
  replica = replica
  dcm = dcm
  base = base
  clouds = clouds
  p = p
  a = a
  v = v
  d = d
  l = l
  k1 = k1
  q = q
  NoResource = NoResource
  NoKey = NoKey
  Resources = {project, compositeApp, version, dig, cloud}
  ParentOf <- MCParentOf
  ReferencesOf <- MCReferencesOf
  Services = {orchestrator, replica, dcm}
  Segments = {base, clouds}
  FileOf <- MCFileOf
  NameOf <- MCNameOf
  ResourcesOf <- MCResourcesOf
  Base = base
  MaxRestarts = 1
  Faults = {"db", "restart"}
  Keys <- MCKeys
  Joined = {version}
  Clients = {k1}
CHECK_DEADLOCK FALSE
INVARIANTS
  NoOrphan
  KindsKept
PROPERTIES
  SchemaSettles
