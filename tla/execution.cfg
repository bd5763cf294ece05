SPECIFICATION FairSpec
CONSTANTS
  t1 = t1
  t2 = t2
  t3 = t3
  Tasks <- ThreeTasks
  Deps <- Peers
  Serial <- OnlyT3
  Visible <- TwoTasks
  MaxRecoveries = 1
  MinIterations = 2
  MaxStarts = 2
  TraceFaults = TRUE
  DiskFaults = TRUE
INVARIANT TypeOK
INVARIANT RunsAfterNeeds
INVARIANT DoneNeedsDone
INVARIANT DoneHasOutput
INVARIANT SecondOutcomeOnlyAfterRejection
INVARIANT EveryTaskReported
INVARIANT ReportsMatchCheckpoint
INVARIANT UnmetForCause
INVARIANT FreshFix
PROPERTY WaveCommitsTogether
PROPERTY LedgerSpec
PROPERTY ExecutionEnds
CHECK_DEADLOCK FALSE
