\* Errors, drops and crashes; as on Windows, an open file is not removed or renamed.
CONSTANTS
  Savers = {s1, s2}
  Value = {v0, v1, v2}
  Empty = v0
  NoFile = NoFile
  NoOwner = NoOwner
  OpenBusy = TRUE
  IoErrors = TRUE
  Droppable = {s1, s2}
  Job = {j1, j2}
  Capacity = 1
  NoJob = NoJob
  Chunk = {a}
  Hash8 <- MCHash8
  MaxSize = 1
  Limit = 2
  MaxEdits = 1
SPECIFICATION FilesSpec
CHECK_DEADLOCK FALSE
INVARIANTS SavedIsDurable LeftoverHarmless LossesCounted NamedIsWhole SpentOnCopies
PROPERTIES StopEnds
