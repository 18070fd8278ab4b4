SPECIFICATION Spec
CONSTANTS
  Path = {p1}
  Lang = {"en"}
  Hash = {"a", "as", "b"}
  Provider = {"os"}
  MaxId = 1
  NoFile = NoFile
  NoRow = NoRow
  Worker = {w1, w2}
  Registrar = {r1, r2}
  StripOf <- StripsA
  StripAll = TRUE
  Absent = Absent
  NoSidecar = NoSidecar
  NoJob = NoJob
  Tiers <- OneProvider
  Capacity <- OneEach
  InitDisk <- AllPresent
  Budget <- MCBudget
  Edits = 1
  Removes = 1
  Reprocesses = 0
  Stops = 1
  Suspends = 0
  p1 = p1
  p2 = p2
SYMMETRY WorkerSymmetry
INVARIANTS SyncedIsCurrent
CHECK_DEADLOCK FALSE
