SPECIFICATION Spec
CONSTANTS
  Video <- One
  Other <- Strangers
  Language <- Languages
  Tag = {t1, t2, t3, t4}
  Library <- Settings
  Worker = {w1, w2}
  Stops = 1
  Foreign = Foreign
  Partial = Partial
  Absent = Absent
  NoJob = NoJob
SYMMETRY WorkerSymmetry
INVARIANTS TypeOK NoHalfFile StraysCleared
PROPERTIES SidecarStays TrustedKept OthersKept
CHECK_DEADLOCK FALSE
