SPECIFICATION Spec
CONSTANTS
  etcd = etcd  containerd = containerd  redis = redis
  master = master  node = node
  h1 = h1  h2 = h2
  None = None
  Requests <- CleanupMix
  Clients <- OneClient
  MaxRuns = 3
  Retain = 1
  MaxCrashes = 0
  MaxCancels = 0
  StoreFaults = FALSE
  Components <- AllComponents
  Enabled <- AllComponents
  Rank <- DeployOrder
  Virtuals <- AllVirtuals
  Members <- AllMembers
INVARIANTS
  CleanupComplete
CHECK_DEADLOCK FALSE
