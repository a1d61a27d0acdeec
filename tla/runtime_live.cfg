SPECIFICATION FairSpec
CONSTANTS
  etcd = etcd  containerd = containerd  redis = redis
  master = master  node = node
  h1 = h1  h2 = h2
  None = None
  Requests <- LiveMix
  Clients <- OneClient
  MaxRuns = 2
  Retain = 0
  MaxCrashes = 1
  MaxCancels = 1
  StoreFaults = FALSE
  Components <- AllComponents
  Enabled <- AllComponents
  Rank <- DeployOrder
  Virtuals <- AllVirtuals
  Members <- AllMembers
INVARIANTS
  OnlyLateCancelsStrand
  
PROPERTIES
  
  ImplementsRunLocks
CHECK_DEADLOCK FALSE
