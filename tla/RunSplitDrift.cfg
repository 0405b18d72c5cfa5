SPECIFICATION Spec
CONSTANTS
  Leader = leader  k1 = k1
  Kin <- OneKin
  Natures <- Grouped
  ScopeGuard = "kill"
  Said = {"work", "drift", "split-drift"}
  MaxOutput = 2
  MaxChecks = 0
  None = None
INVARIANT StreamedDriftStops
CHECK_DEADLOCK FALSE
