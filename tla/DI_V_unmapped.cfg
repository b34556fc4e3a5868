CONSTANTS
  Neighbour = {2}
  Middle = {2}
  TextBytes = 20000
  Odd = {0, 1, 2, 47, 48, 65535}
  Path <- SomePaths
  Name <- SomeNames
  MaxList = 3
  MaxNames = 2
  MaxFilePathBytes = 6
  MaxDirBytes = 6
  MaxBlobBytes = 12
  Lives = 2
  Callers = {c1, c2}
  MaxCalls <- Calls
  SlotCount = 2
  DrainCap = 2
  View = {v1}
SPECIFICATION SharedSpec
CHECK_DEADLOCK FALSE
INVARIANTS DrainSparesKernel
