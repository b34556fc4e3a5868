SPECIFICATION FairSpec
CONSTANTS
  Actor = Actor
  Other = {o1}
  NoClient = NoClient
  Cap = 1
  Buffer = 1
  SinkCap = 1
  PreMax = 2
  MaxPayload = 3
  SeqLen = 1
  Jpeg = {2, 3}
  Foreign <- MCForeign
INVARIANTS EvidenceTrue
PROPERTIES SquattersEvicted ActorAnswered StopEndsAll
CHECK_DEADLOCK FALSE
