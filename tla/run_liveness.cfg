SPECIFICATION FairSpec
CONSTANTS
  r1 = r1
  r2 = r2
  h1 = h1
  h2 = h2
  Runs <- OneRun
  NoRun = NoRun
  Handlers <- TwoRequests
  NoHandler = NoHandler
  MaxAttempts = 2
  MaxRequests = 3
  MaxCrashes = 1
  Routes <- AllRoutes
  CapacityConfigured = FALSE
  LogFaults = TRUE
  KillFaults = TRUE
CHECK_DEADLOCK FALSE
PROPERTY RequestReturns
PROPERTY StopEndsWorker
