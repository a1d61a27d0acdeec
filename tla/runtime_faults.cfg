SPECIFICATION Spec
CONSTANTS
  etcd = etcd  containerd = containerd  redis = redis
  master = master  node = node
  h1 = h1  h2 = h2
  None = None
  Requests <- FaultMix
  Clients <- OneClient
  MaxRuns = 2
  Retain = 1
  MaxCrashes = 1
  MaxCancels = 1
  StoreFaults = TRUE
  Components <- AllComponents
  Enabled <- AllComponents
  Rank <- DeployOrder
  Virtuals <- AllVirtuals
  Members <- AllMembers
INVARIANTS
  TypeOK
  Exclusive
  LocksOwned
PROPERTIES
  VerdictOnce
CHECK_DEADLOCK FALSE
