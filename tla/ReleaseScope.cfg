INIT MCInit
NEXT MCNext
CONSTANTS
  s1 = s1  s2 = s2  m1 = m1  m2 = m2  a1 = a1  a2 = a2  w1 = w1  w2 = w2  h1 = h1  h2 = h2
  Seeder <- Seeders
  Jobs <- SeedJobs
  Catalog <- SeedCatalog
  Mover <- Movers
  MaxRows = 4
  Goals <- SomeGoals
  Applier <- Appliers
  MaxGoalItems = 5
  Cards <- SomeCards
  Writer <- Writers
  MaxAge = 1
  MaxTime = 1
  MaxPlain = 2
  MaxBuilt = 3
  Asked = {"a", "b"}
  GateLevel <- GateOfItem
  PrimaryCap = 1
  TrackedCap = 2
  MaxPosts = 4
  MaxTouches = 1
  Handoffs <- TwoHandoffs
  Contracts <- SomeContracts
  PostLimit = 2
  MaxItems = 2
  MaxDecisions = 2
  MaxReports = 1
  Evidences <- SomeEvidence
INVARIANT StrategicGoesToFounder
CHECK_DEADLOCK FALSE
