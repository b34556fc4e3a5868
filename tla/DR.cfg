CONSTANTS
  Pid = {p1, p2}
  MaxSeq = 4
  MaxBorn = 2
  MaxFaults = 1
  MaxIdents = 1
  Capacity <- SmallQueues
  Buffer = 2
  NameCap = 1
SPECIFICATION Spec
SYMMETRY Perms
CHECK_DEADLOCK FALSE
INVARIANTS NoSilentLoss AttributionTrue
