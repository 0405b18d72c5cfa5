SPECIFICATION Spec
CONSTANTS
  clean = clean  gated = gated  rejected = rejected  broken = broken
  c1 = c1  s1 = s1  s2 = s2  d1 = d1  d2 = d2  d3 = d3
  None = None
  Hashes <- Clean
  Defects <- DefectsOf
  RuntimeReady <- RuntimeReadyOf
  Routing <- RoutingOf
  Runs <- TwoDispatchers
  Controllers <- NoProcess
  Schedulers <- OneScheduler
  Dispatchers <- TwoDispatchers
  NewestFirst = TRUE
  ReviewMode = "require"
  TTL = 1
  MaxTime = 1
  MaxEdits = 0
  MaxReleases = 0
SYMMETRY DispatcherSymmetry
INVARIANTS OneActiveLock
CHECK_DEADLOCK FALSE
