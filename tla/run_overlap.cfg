SPECIFICATION Spec
CONSTANTS
  r1 = r1
  r2 = r2
  h1 = h1
  h2 = h2
  Runs <- TwoRuns
  NoRun = NoRun
  Handlers <- TwoRequests
  NoHandler = NoHandler
  MaxAttempts = 2
  MaxRequests = 4
  MaxCrashes = 1
  Routes <- AgentRoutes
  CapacityConfigured = TRUE
  LogFaults = FALSE
  KillFaults = FALSE
CHECK_DEADLOCK FALSE
SYMMETRY Symmetry
INVARIANT TypeOK
INVARIANT NoForgottenWorker
INVARIANT PromiseHolderWaits
PROPERTY LedgerSpec
PROPERTY RejectedStartUndone
