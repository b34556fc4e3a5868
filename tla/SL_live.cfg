CONSTANTS
  Planned = 2
  Autoshutdown = TRUE
  SkipRequest = FALSE
  Stops = TRUE
  BrokerLoss = TRUE
  OpenBusy = TRUE
  IoErrors = FALSE
  NoFile = NoFile
  MaxBoots = 3
  MaxCrashes = 1
SPECIFICATION FairSpec
CHECK_DEADLOCK FALSE
PROPERTIES FinalizeEndsInExit StudyEndsOrOverruns
