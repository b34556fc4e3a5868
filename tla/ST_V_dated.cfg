\* The driver is the source: events arrive as SourceDated.
CONSTANTS
  Pid = {p1, p2}
  NoPid = NoPid
  Path = {f}
  Matches = {f}
  Interpreter = FALSE
  Mechanism = {"Token", "SchedTask"}
  Dated = TRUE
  Lossy = {}
  MaxStream = 2
SPECIFICATION FairSpec
PROPERTIES MarkerLaunches
