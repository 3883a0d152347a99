SPECIFICATION FairSpec
CONSTANTS
  t1 = t1
  t2 = t2
  Threads <- OneThread
  Calls <- ResumeAndFinalise
  Failures <- NoFailures
  Pieces = 1
  AlertCap = 1
  AlertsMayDrop = FALSE
  CloseMayFail = TRUE
PROPERTIES SeedingReached
CHECK_DEADLOCK FALSE
