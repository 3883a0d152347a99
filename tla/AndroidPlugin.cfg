SPECIFICATION FairSpec
CONSTANTS
  c1 = c1
  c2 = c2
  i1 = i1
  DestroyTask = DestroyTask
  Calls <- TwoCalls
  Codes <- TwoCodes
  Ids <- OneId
  MaxGen = 2
  MaxEvents = 2
  BufferCap = 1
INVARIANTS TypeOK DetachedIsQuiet StatsInOrder MetadataKept
PROPERTIES ImplementsAsyncFinalise AcceptedIsAnswered ManagerGoes
CHECK_DEADLOCK FALSE
