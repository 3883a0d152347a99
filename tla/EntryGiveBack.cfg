SPECIFICATION Spec
CONSTANTS
  t1 = t1
  t2 = t2
  Threads <- TwoThreads
  Calls <- CancelAndFinalise
  Failures <- NoFailures
  Pieces = 1
  AlertCap = 1
  AlertsMayDrop = TRUE
  CloseMayFail = TRUE
SYMMETRY Symmetry
PROPERTIES FollowsLifecycle SwallowedOnlyByGivingBack
CHECK_DEADLOCK FALSE
