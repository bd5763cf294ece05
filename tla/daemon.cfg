SPECIFICATION FairSpec
CONSTANTS
  d1 = d1
  d2 = d2
  q1 = q1
  q2 = q2
  r1 = r1
  r2 = r2
  Daemons <- TwoDaemons
  NoDaemon = NoDaemon
  Requests <- TwoRequests
  Runs <- TwoRuns
  StartsOverlap = FALSE
  ServiceFaults = TRUE
INVARIANT TypeOK
INVARIANT ShutdownAfterMutations
INVARIANT NoRunLeftBehind
INVARIANT OneOwner
PROPERTY ShutdownEnds
PROPERTY StaleFileTakenOver
CHECK_DEADLOCK FALSE
