CONSTANTS
  Planned = 2
  Autoshutdown = TRUE
  SkipRequest = FALSE
  Stops = TRUE
  BrokerLoss = TRUE
  OpenBusy = TRUE
  IoErrors = TRUE
  NoFile = NoFile
  MaxBoots = 3
  MaxCrashes = 1
SPECIFICATION Spec
CHECK_DEADLOCK FALSE
INVARIANTS TypeOK IdsUniqueOncePersisted CleanEndIsDurable OnlySchedulerFinalizeIsLost StudyInv
PROPERTIES StudyIdStable ImplementsLedger
