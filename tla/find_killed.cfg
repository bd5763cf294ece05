SPECIFICATION Spec
CONSTANTS
  r1 = r1
  r2 = r2
  h1 = h1
  h2 = h2
  Runs <- OneRun
  NoRun = NoRun
  Handlers <- OneRequest
  NoHandler = NoHandler
  MaxAttempts = 2
  MaxRequests = 3
  MaxCrashes = 0
  Routes <- AgentRoutes
  CapacityConfigured = FALSE
  LogFaults = FALSE
  KillFaults = FALSE
CHECK_DEADLOCK FALSE
PROPERTY StartedRunGetsAttempt
