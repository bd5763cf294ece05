SPECIFICATION Spec
CONSTANTS
  r1 = r1
  r2 = r2
  h1 = h1
  h2 = h2
  Runs <- TwoRuns
  NoRun = NoRun
  Handlers <- OneRequest
  NoHandler = NoHandler
  MaxAttempts = 2
  MaxRequests = 5
  MaxCrashes = 1
  Routes <- AgentRoutes
  CapacityConfigured = FALSE
  LogFaults = FALSE
  KillFaults = FALSE
CHECK_DEADLOCK FALSE
INVARIANT OneWorkerPerAgent
INVARIANT UnlinkedRunHasNoWorker
INVARIANT FinishedRunHasNoWorker
INVARIANT AgentAgreesWithRun
