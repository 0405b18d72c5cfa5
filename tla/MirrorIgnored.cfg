INIT MCInit
NEXT MCNext
CONSTANTS
  Updater = {u1, u2}
  KitFiles <- Kit
  KindOf <- KindOfFile
  Record = "record"
  MaxRelease = 2
  MaxEdits = 2
  Workspace = {w1}
  Commit = {c1, c2}
  Mirror = {m1}
  Closer = {k1}
  Releases <- TwoReleases
  Operator = {o1}
  MaxEvents = 2
  Rotator = {r1}
  Life = 4
  Window = 1
  MaxTime = 9
  Envs <- SomeEnvs
  Inputs <- TwoIntakes
  Registries <- TwoRegistries
  Installer = {i1}
  MaxFounderEdits = 1
  Plan <- ThreeFiles
  Included = {"doc", "log", "film"}
  Stripped = {"log"}
  Ignored = {"film"}
  Markdown = {"doc", "log"}
  Textual = {"doc", "log"}
  Releaser = {p1}
  MaxWrites = 2
PROPERTY IncludedIsPublished
CHECK_DEADLOCK FALSE
