SPECIFICATION Spec
CONSTANTS
  Platforms <- AllPlatforms
  Requests <- SomeRequests
  Int32Max = 7
  MaxTorrents = 2
  MaxConnections = 3
  DefaultTorrents = 1
  DefaultConnections = 2
  DefaultAgent <- Agent
  Ids <- SomeIds
  LibraryTexts <- SomeTexts
INVARIANTS Intact Truthful SessionAsTold OwnedOnce
