SPECIFICATION Spec
CONSTANTS
  t1 = t1
  t2 = t2
  Threads <- TwoThreads
  Calls <- ResumeAndFinalise
  Failures <- AllFailures
  Pieces = 2
  AlertCap = 1
  AlertsMayDrop = TRUE
  CloseMayFail = FALSE
SYMMETRY Symmetry
INVARIANTS TypeOK MetadataOnce FatalKeepsDiagnostic SeedingIsDurable BarrierDurable
CHECK_DEADLOCK FALSE
