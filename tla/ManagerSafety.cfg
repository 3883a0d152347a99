SPECIFICATION Spec
CONSTANTS
  t1 = t1
  t2 = t2
  h1 = h1
  Threads <- TwoThreads
  Hashes <- OneHash
  Limits <- SomeLimits
  InitialLimit = 2
  MaxId = 2
  AlertCap = 1
SYMMETRY Symmetry
INVARIANTS TypeOK UniqueActiveHash NoOrphan FinaliseOkMeansClosed ControlOkMeansHeld
CHECK_DEADLOCK FALSE
PROPERTIES OkOnlyOnce ImplementsLifecycle GoneForGood
