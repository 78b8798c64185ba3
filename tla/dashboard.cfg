SPECIFICATION DashFairSpec
CONSTANTS
  a = a
  t1 = t1
  None = None
  Names <- OneName
  Tabs <- OneTab
  MaxRv = 2
  MaxFaults = 2
  MaxQueue = 3
INVARIANTS
  DrainedMirrorsApi
  QuietPageMirrorsApi
  PageNeverGoesBack
PROPERTIES
  NeverBackInTime
  EventuallyOnPage
