SPECIFICATION FairSpec
CONSTANTS
  wPools = wPools
  wLeases = wLeases
  tPools = tPools
  tOverview = tOverview
  None = None
  Writers <- PoolWriters
  SectionOf <- PoolSections
  Tabs <- PoolsOnly
  PageOf <- PoolsPage
  Cap = 1
  MaxVer = 2
PROPERTIES
  WritersNeverBlocked
  EventuallyShown
  DisconnectCleansUp
