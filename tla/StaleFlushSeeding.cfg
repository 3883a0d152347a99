SPECIFICATION Spec
CONSTANTS
  t1 = t1
  t2 = t2
  Threads <- OneThread
  Calls <- ResumeAndFinalise
  Failures <- NoFailures
  Pieces = 2
  AlertCap = 1
  AlertsMayDrop = TRUE
  CloseMayFail = TRUE
INVARIANTS SeedingIsDurable
CHECK_DEADLOCK FALSE
