SPECIFICATION Spec
CONSTANTS
  Leader = leader  k1 = k1
  Kin <- OneKin
  Natures <- Daemons
  ScopeGuard = "kill"
  Said = {"work"}
  MaxOutput = 0
  MaxChecks = 0
  None = None
PROPERTY NoSurvivors
CHECK_DEADLOCK FALSE
