SPECIFICATION PipelineSpec
CONSTANTS
  clean = clean  other = other
  s1 = s1  d1 = d1  d2 = d2  r1 = r1  r2 = r2  a1 = a1
  None = None
  Hashes <- TwoDescriptions
  Defects <- NoDefects
  RuntimeReady <- NoStage065
  Routing <- NoRouting
  HumanGate <- FounderGate
  Authority <- NoAuthority
  Unfit <- NoProcess
  Confidence = 93
  Runs <- AllRuns
  Controllers <- NoProcess
  Schedulers <- OneScheduler
  Dispatchers <- OneDispatcher
  Runtimes <- OneRuntime
  Auditors <- OneAuditor
  Ends <- AllEnds
  NewestFirst = TRUE
  ReviewMode = "require"
  TTL = 1
  MaxTime = 1
  MaxEdits = 1
  MaxReleases = 0
SYMMETRY Symmetric
INVARIANTS PipelineInv AutoGoIsEarned
CHECK_DEADLOCK FALSE
