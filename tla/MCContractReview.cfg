SPECIFICATION ReviewSpec
CONSTANTS
  clean = clean  gated = gated  flawed = flawed
  c1 = c1  s1 = s1  s2 = s2
  None = None
  Hashes <- MCHashes
  Runs = {}
  NewestFirst = TRUE
  Controllers <- MCControllers
  Schedulers <- MCSchedulers
  Defects <- MCDefects
  RuntimeReady <- MCRuntimeReady
  Routing <- MCRouting
  MaxEdits = 1
  MaxReleases = 1
SYMMETRY MCSymmetry
INVARIANTS ReviewTypeOK StageCommentsFollowReview PassIsEarned
PROPERTY DuplicateOnlyFromRace
CHECK_DEADLOCK FALSE
