SPECIFICATION Spec
CONSTANTS
  Path = {p1}
  Lang = {"en", "fr"}
  Hash = {"a", "b"}
  Provider = {"os"}
  MaxId = 1
  NoFile = NoFile
  NoRow = NoRow
  Worker = {w1, w2}
  Registrar = {r1}
  StripOf <- StripsNothing
  StripAll = TRUE
  Absent = Absent
  NoSidecar = NoSidecar
  NoJob = NoJob
  Tiers <- OneProvider
  Capacity <- OneEach
  InitDisk <- AllPresent
  Budget <- MCBudget
  Edits = 1
  Removes = 0
  Reprocesses = 0
  Stops = 1
  Suspends = 1
  p1 = p1
  p2 = p2
SYMMETRY WorkerSymmetry
PROPERTIES FollowsLifecycle
CHECK_DEADLOCK FALSE
