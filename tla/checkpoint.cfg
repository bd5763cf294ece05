SPECIFICATION Spec
CONSTANTS
  p1 = p1
  p2 = p2
  p3 = p3
  k1 = k1
  k2 = k2
  t1 = t1
  Procs <- ThreeProcs
  NoProc = NoProc
  Keys <- TwoKeys
  Outputs <- OneOutput
  ReapAge = 2
  LockTimeout = 4
  DiskFaults = TRUE
  ReapsOverlap = FALSE
SYMMETRY Processes
INVARIANT TypeOK
INVARIANT StoredSurvives
INVARIANT TimeoutBlamesLiving
CHECK_DEADLOCK FALSE
