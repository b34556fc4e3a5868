CONSTANTS
  Pid = {p1, p2}
  Api = {"thread", "writevm"}
  Weights <- MCWeights
  MassEncryptMin = 2
  Target = p1
  Cli = {p2}
  MaxTracked = 1
  Capacity = 2
  Autoshutdown = TRUE
  None = None
  MaxEvents = 4
  MaxLives = 2
  MaxWelcomes = 2
  MaxFocus = 3
  Quota = 2
  SinkCap = 1
  QueueCap = 1
SPECIFICATION EvidenceSpec
CHECK_DEADLOCK FALSE
INVARIANTS ScoreExact UploadedIsOwn
PROPERTIES FinalScore DeathFinalizes SavedKept ActorExits
