SPECIFICATION MCSpec
CONSTANTS
  i1 = i1  i2 = i2  r1 = r1  r2 = r2
  Item = {i1, i2}
  Runner = {r1, r2}
  Refs <- ChainRefs
  ItemOf <- ItemOfRun
  MaxNotices = 2
  Paper <- SomePapers
  Scope = {"scope"}
  Strays = {"stray"}
  Owned = {"report"}
  Foreign = {"plan", "else"}
  Scratch = {"plan"}
  Results = {"plan"}
  MaxUses = 2
  MaxOthers = 1
  Lists <- SomeLists
  Router = {b1}
  RunBudget = 4
  DailyBudget = 4
  MonthlyBudget = 6
  Reserve = 2
  Costs = {0, 2, 3}
  UnknownReserve = 1
  MaxDay = 3
  MonthStarts = {1, 3}
  MaxRuns = 2
  Descendant = {1, 2}
  ParentOf <- ParentOfChild
  Gate <- GateOfChild
  ContractOf <- ContractOfChild
  Reader = {g1}
  MaxMarks = 4
  MaxAmid = 1
INVARIANTS
  WorkFollowsOrder StartedIsReleased GuardIsFair RoutersAreBounded PlansAreEarned
PROPERTY KillStopsRun
CHECK_DEADLOCK FALSE
