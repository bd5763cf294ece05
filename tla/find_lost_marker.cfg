SPECIFICATION Spec
CONSTANTS
  p1 = p1
  p2 = p2
  p3 = p3
  k1 = k1
  k2 = k2
  t1 = t1
  Procs <- ThreeProcs
  NoProc = NoProc
  Keys <- TwoKeys
  Outputs <- NoOutput
  ReapAge = 1
  LockTimeout = 2
  DiskFaults = FALSE
  ReapsOverlap = TRUE
SYMMETRY Processes
INVARIANT StoredSurvives
CHECK_DEADLOCK FALSE
