SPECIFICATION Spec
CONSTANTS
  r1 = r1
  r2 = r2
  h1 = h1
  h2 = h2
  Runs <- OneRun
  NoRun = NoRun
  Handlers <- TwoRequests
  NoHandler = NoHandler
  MaxAttempts = 1
  MaxRequests = 3
  MaxCrashes = 0
  Routes <- AgentRoutes
  CapacityConfigured = FALSE
  LogFaults = FALSE
  KillFaults = FALSE
CHECK_DEADLOCK FALSE
INVARIANT RunningRunHasAttempt
