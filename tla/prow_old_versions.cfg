\* Run returns when it is cancelled, and the changes are bounded.
CHECK_DEADLOCK FALSE
SPECIFICATION Spec
CONSTANTS
  vsphere = vsphere
  nightly = nightly
  None = None
  Words <- AllWords
  Jobs <- OldOnes
  PeriodicJobs <- PeriodicJobsOf
  VSphereJobs <- VSphereJobsOf
  MaxTime = 1
  MaxRev = 2
INVARIANTS
  NoOldVersions
