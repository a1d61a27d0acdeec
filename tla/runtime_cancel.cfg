SPECIFICATION Spec
CONSTANTS
  etcd = etcd  containerd = containerd  redis = redis
  master = master  node = node
  h1 = h1  h2 = h2
  None = None
  Requests <- DeployOnly
  Clients <- OneClient
  MaxRuns = 1
  Retain = 0
  MaxCrashes = 0
  MaxCancels = 1
  StoreFaults = FALSE
  Components <- AllComponents
  Enabled <- AllComponents
  Rank <- DeployOrder
  Virtuals <- AllVirtuals
  Members <- AllMembers
INVARIANTS
  CancelNeverSucceeds
CHECK_DEADLOCK FALSE
