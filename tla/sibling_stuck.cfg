SPECIFICATION Spec
CONSTANTS
  Path = {p1}
  Lang = {"en", "fr"}
  Hash = {"a", "as"}
  Provider = {"os"}
  MaxId = 1
  NoFile = NoFile
  NoRow = NoRow
  Worker = {w1, w2}
  Registrar = {r1}
  StripOf <- StripsA
  StripAll = TRUE
  Absent = Absent
  NoSidecar = NoSidecar
  NoJob = NoJob
  Tiers <- OneProvider
  Capacity <- TwoEach
  InitDisk <- AllPresent
  Budget <- MCBudget
  Edits = 0
  Removes = 0
  Reprocesses = 0
  Stops = 0
  Suspends = 0
  p1 = p1
  p2 = p2
SYMMETRY WorkerSymmetry
INVARIANTS InProgressOwned
CHECK_DEADLOCK FALSE
