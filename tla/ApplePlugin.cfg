SPECIFICATION FairSpec
CONSTANTS
  c1 = c1
  c2 = c2
  DestroyJob = DestroyJob
  Calls <- TwoCalls
  Codes <- TwoCodes
  MaxEvents = 3
INVARIANTS CallbacksAreSafe
PROPERTIES ImplementsAsyncFinalise Concluded
CHECK_DEADLOCK FALSE
