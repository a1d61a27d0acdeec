SPECIFICATION Spec
CONSTANTS
  p1 = p1  p2 = p2  p3 = p3
  g1 = g1  g2 = g2  g3 = g3
  c1 = c1  c2 = c2
  app1 = app1
  NoPid = NoPid
  NoGo = NoGo
  Pids <- TwoPids
  AppOf <- OneApp
  Approval <- Nobody
  Goroutines <- TwoGoroutines
  Clients <- TwoClients
  DefaultSlots = 1
  Limits <- NoLimits
  MaxQueue = 1
  MaxCrashes = 2
  DbFaults = FALSE
  RacyInit = FALSE
INVARIANTS
  TypeOK
  PendingTracked
  RunningOwned
  BuildsBounded
PROPERTIES
  ImplementsBuildQueue
  FinishedOnlyCanceled
SYMMETRY Symmetry
CHECK_DEADLOCK FALSE
