SPECIFICATION Spec
CONSTANTS
  t1 = t1
  t2 = t2
  t3 = t3
  Tasks <- TwoTasks
  Deps <- NoDeps
  Serial <- NoTask
  Visible <- TwoTasks
  MaxRecoveries = 3
  MinIterations = 10
  MaxStarts = 1
  TraceFaults = TRUE
  DiskFaults = FALSE
INVARIANT OneOutcomePerTask
CHECK_DEADLOCK FALSE
