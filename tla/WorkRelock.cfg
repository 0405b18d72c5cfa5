SPECIFICATION PipelineSpec
CONSTANTS
  clean = clean  other = other
  s1 = s1  d1 = d1  d2 = d2  r1 = r1  r2 = r2  a1 = a1
  None = None
  Hashes <- OneDescription
  Defects <- NoDefects
  RuntimeReady <- NoStage065
  Routing <- NoRouting
  HumanGate <- LowGate
  Authority <- NoAuthority
  Unfit <- NoProcess
  Confidence = 93
  Runs <- AllRuns
  Controllers <- NoProcess
  Schedulers <- NoProcess
  Dispatchers <- TwoDispatchers
  Runtimes <- TwoRuntimes
  Auditors <- NoProcess
  Ends <- PassOrFail
  NewestFirst = TRUE
  ReviewMode = "off"
  TTL = 1
  MaxTime = 1
  MaxEdits = 0
  MaxReleases = 0
SYMMETRY Symmetric
INVARIANTS OneReportPerLock ExitZeroIsAccepted
CONSTRAINT NoneFails
CHECK_DEADLOCK FALSE
