SPECIFICATION Spec
CONSTANTS
  p1 = p1  p2 = p2  p3 = p3
  g1 = g1  g2 = g2  g3 = g3
  c1 = c1  c2 = c2
  app1 = app1
  NoPid = NoPid
  NoGo = NoGo
  Pids <- TwoPids
  AppOf <- OneApp
  Approval <- OnlyFirst
  Goroutines <- TwoGoroutines
  Clients <- OneClient
  DefaultSlots = 2
  Limits <- ZeroAndOne
  MaxQueue = 1
  MaxCrashes = 1
  DbFaults = TRUE
  RacyInit = TRUE
INVARIANTS
  SlotsOwned
  WorkConserving
SYMMETRY Symmetry
CHECK_DEADLOCK FALSE
