SPECIFICATION Spec
CONSTANTS
  Leader = leader  k1 = k1
  Kin <- OneKin
  Natures <- Grouped
  ScopeGuard = "kill"
  Said = {"work", "drift", "refuse", "err-pass"}
  MaxOutput = 2
  MaxChecks = 1
  None = None
INVARIANT RunIsSound
PROPERTIES SettledIsFinal ImplementsBoundedRun
CHECK_DEADLOCK FALSE
