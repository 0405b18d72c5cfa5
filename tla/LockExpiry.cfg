SPECIFICATION Spec
CONSTANTS
  clean = clean  gated = gated  rejected = rejected  broken = broken
  c1 = c1  s1 = s1  s2 = s2  d1 = d1  d2 = d2  d3 = d3
  None = None
  Hashes <- Edits
  Defects <- DefectsOf
  RuntimeReady <- RuntimeReadyOf
  Routing <- RoutingOf
  Runs <- ThreeDispatchers
  Controllers <- NoProcess
  Schedulers <- NoProcess
  Dispatchers <- ThreeDispatchers
  NewestFirst = TRUE
  ReviewMode = "off"
  TTL = 1
  MaxTime = 2
  MaxEdits = 1
  MaxReleases = 0
SYMMETRY DispatcherSymmetry
INVARIANTS OverlapOnlyFromRace SupersededIsSpent
CHECK_DEADLOCK FALSE
