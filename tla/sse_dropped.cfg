SPECIFICATION Spec
CONSTANTS
  wPools = wPools
  wLeases = wLeases
  tPools = tPools
  tOverview = tOverview
  None = None
  Writers <- PoolWriters
  SectionOf <- PoolSections
  Tabs <- PoolsOnly
  PageOf <- PoolsPage
  Cap = 2
  MaxVer = 2
INVARIANTS
  EveryChangeAnnounced
