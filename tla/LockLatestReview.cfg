SPECIFICATION Spec
CONSTANTS
  clean = clean  gated = gated  rejected = rejected  broken = broken
  c1 = c1  s1 = s1  s2 = s2  d1 = d1  d2 = d2  d3 = d3
  None = None
  Hashes <- Gated
  Defects <- DefectsOf
  RuntimeReady <- RuntimeReadyOf
  Routing <- RoutingOf
  Runs <- OneDispatcher
  Controllers <- OneController
  Schedulers <- OneScheduler
  Dispatchers <- OneDispatcher
  NewestFirst = TRUE
  ReviewMode = "require"
  TTL = 1
  MaxTime = 0
  MaxEdits = 0
  MaxReleases = 1
SYMMETRY DispatcherSymmetry
INVARIANTS LockFollowsLatestReview
CHECK_DEADLOCK FALSE
