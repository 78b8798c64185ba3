SPECIFICATION FairSpec
CONSTANTS
  vc1 = vc1
  vc2 = vc2
  None = None
  Servers <- TwoServers
  Responsive <- OnlyFirst
  Faulty <- OnlySecond
  MaxInv <- FirstOnce
INVARIANTS
  OneWorkerPerServer
  CollectedAtIsHonest
PROPERTIES
  NewerCollectionWins
  SlowServerBlocksNoOther
  CancelStopsRun
  PolledIfAllAnswer
