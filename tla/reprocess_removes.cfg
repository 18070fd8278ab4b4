SPECIFICATION Spec
CONSTANTS
  Path = {a, b}
  Dir = {d}
  Root = Root
  DirOf <- MCDirOf
  Target = {Root}
  Nobody = Nobody
  InitDisk = {b}
  Budget <- MCBudget
  Changes = 1
  Requests = 1
  Stops = 0
  a = a
  b = b
  d = d
PROPERTIES RemovedIsGone
CHECK_DEADLOCK FALSE
