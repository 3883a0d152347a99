SPECIFICATION FairSpec
CONSTANTS
  t1 = t1
  t2 = t2
  Threads <- OneThread
  Calls <- AllButFinalise
  Failures <- OnlyFatal
  Pieces = 1
  AlertCap = 1
  AlertsMayDrop = TRUE
  CloseMayFail = FALSE
PROPERTIES ReportConverges MetadataReached
CHECK_DEADLOCK FALSE
