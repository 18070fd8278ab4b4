SPECIFICATION FairSpec
CONSTANTS
  Path = {a, b}
  Dir = {d}
  Root = Root
  DirOf <- MCDirOf
  Target = {a, b, d, Root}
  Nobody = Nobody
  InitDisk = {b}
  Budget <- MCBudget
  Changes = 4
  Requests = 1
  Stops = 1
  a = a
  b = b
  d = d
INVARIANTS TypeOK
PROPERTIES CatchesUp RemovalJustified
CHECK_DEADLOCK FALSE
