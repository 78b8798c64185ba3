SPECIFICATION Spec
CONSTANTS
  wPools = wPools
  wLeases = wLeases
  tPools = tPools
  tOverview = tOverview
  None = None
  Writers <- PoolWriters
  SectionOf <- PoolSections
  Tabs <- PoolsAndOverview
  PageOf <- PoolPages
  Cap = 2
  MaxVer = 1
INVARIANTS
  NoSendOnClosedChannel
  NoSilentStaleness
  QuietStreamShowsOwnData
PROPERTIES
  ViewRefined
