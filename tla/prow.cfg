\* Run returns when it is cancelled, and the changes are bounded.
CHECK_DEADLOCK FALSE
SPECIFICATION FairSpec
CONSTANTS
  vsphere = vsphere
  nightly = nightly
  None = None
  Words <- AllWords
  Jobs <- SomeJobs
  PeriodicJobs <- PeriodicJobsOf
  VSphereJobs <- VSphereJobsOf
  MaxTime = 2
  MaxRev = 3
INVARIANTS
  OnlyVSpherePeriodics
  NothingMissing
  LatestIsLatest
  CountsAddUp
  LastSuccessIsLast
PROPERTIES
  FailureKeepsData
  EventuallyShown
  CancelStopsRun
