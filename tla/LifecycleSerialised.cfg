SPECIFICATION Spec
CONSTANTS
  c1 = c1
  c2 = c2
  DestroyJob = DestroyJob
  Calls <- TwoCalls
  Codes <- TwoCodes
  MaxEvents = 1
INVARIANTS LifecycleSerialised
CHECK_DEADLOCK FALSE
