SPECIFICATION FairSpec
CONSTANTS
  t1 = t1
  t2 = t2
  h1 = h1
  Threads <- TwoThreads
  Hashes <- OneHash
  Limits <- NoLimits
  InitialLimit = 2
  MaxId = 1
  AlertCap = 1
PROPERTIES CallsReturn
CHECK_DEADLOCK FALSE
