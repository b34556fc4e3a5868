\* The source may lose starts and stops; the target runs under an interpreter.
CONSTANTS
  Pid = {p1, p2}
  NoPid = NoPid
  Path = {f}
  Matches = {f}
  Interpreter = TRUE
  Mechanism = {"Token", "SchedTask"}
  Dated = FALSE
  Lossy = {"started", "stopped"}
  MaxStream = 2
SPECIFICATION MCSpec
INVARIANTS ScopeIsTree NoFalseDeath DropsExact
PROPERTIES DeathReported MarkerLaunches
