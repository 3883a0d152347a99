SPECIFICATION FairSpec
CONSTANTS
  c1 = c1
  c2 = c2
  c3 = c3
  NoCall = NoCall
  Calls <- ThreeCalls
  Codes <- TwoCodes
  MaxRequest = 2
  EventCap = 2
  PostCap = 2
  HasView = TRUE
INVARIANTS NoUseAfterFree StateOutlivesManager NoLostWakeup
PROPERTIES ImplementsAsyncFinalise DestructorReturns AcceptedIsAnswered ManagerGoes
CHECK_DEADLOCK FALSE
