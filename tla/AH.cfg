CONSTANTS
  Plugins = 2
  Middleware = 2
  Event = {"source", "deadline", "stop"}
  Mode = {"service", "console", "demo", "local"}
  Configs <- Deployed
  Attempts = 2
  MaxEvents = 1
SPECIFICATION HostSpec
CHECK_DEADLOCK FALSE
INVARIANTS FinalReportsLeave NothingStartedIsLeft
PROPERTIES StopHeard
