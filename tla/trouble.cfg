SPECIFICATION Spec
CONSTANTS
  Path = {p1, p2}
  Lang = {"en"}
  Hash = {"a"}
  Provider = {"os"}
  MaxId = 2
  NoFile = NoFile
  NoRow = NoRow
  Worker = {w1, w2}
  Registrar = {r1}
  StripOf <- StripsNothing
  StripAll = TRUE
  Absent = Absent
  NoSidecar = NoSidecar
  NoJob = NoJob
  Tiers <- OneProvider
  Capacity <- OneEach
  InitDisk <- OnlyFirst
  Budget <- MCBudget
  Edits = 0
  Removes = 1
  Reprocesses = 1
  Stops = 2
  Suspends = 0
  p1 = p1
  p2 = p2
SYMMETRY WorkerSymmetry
INVARIANTS TypeOK InProgressOwned RowIntegrity CycleFlags
CHECK_DEADLOCK FALSE
