SPECIFICATION FairSpec
CONSTANTS
  Path = {p1}
  Lang = {"en"}
  Hash = {"a"}
  Provider = {"os"}
  MaxId = 1
  NoFile = NoFile
  NoRow = NoRow
  Worker = {w1, w2}
  Registrar = {r1}
  StripOf <- StripsNothing
  StripAll = TRUE
  Absent = Absent
  NoSidecar = NoSidecar
  NoJob = NoJob
  Tiers <- OneProvider
  Capacity <- OneEach
  InitDisk <- AllPresent
  Budget <- MCBudget
  Edits = 0
  Removes = 0
  Reprocesses = 0
  Stops = 1
  Suspends = 0
  p1 = p1
  p2 = p2
PROPERTIES SpentPairsFail
CHECK_DEADLOCK FALSE
