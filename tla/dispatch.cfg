SPECIFICATION FairSpec
CONSTANTS
  Path = {p1}
  Lang = {"en", "fr"}
  Hash = {"a"}
  Provider = {"os", "whisper"}
  MaxId = 1
  NoFile = NoFile
  NoRow = NoRow
  Worker = {w1, w2}
  Registrar = {r1}
  StripOf <- StripsNothing
  StripAll = TRUE
  Absent = Absent
  NoSidecar = NoSidecar
  NoJob = NoJob
  Tiers <- TierPair
  Capacity <- OneEach
  InitDisk <- AllPresent
  Budget <- MCBudget
  Edits = 0
  Removes = 0
  Reprocesses = 0
  Stops = 0
  Suspends = 1
  p1 = p1
  p2 = p2
INVARIANTS ExclusivePairs PoolBound NoRepeatSearch NoCandidateJustified
PROPERTIES MissesSurviveCycle BacklogDrains
CHECK_DEADLOCK FALSE
