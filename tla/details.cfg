SPECIFICATION Spec
CONSTANTS
  p1 = p1
  l1 = l1
  l2 = l2
  j1 = j1
  vc1 = vc1
  vc2 = vc2
  None = None
  Pools <- SomePools
  PoolSpecs <- SomeSpecs
  Leases <- SomeLeases
  Contents <- SomeContents
  Jobs <- SomeJobs
  Namespaces <- SomeNamespaces
  Servers <- SomeServers
  Names <- SomeNames
  MaxChanges = 2
SYMMETRY Symmetry
INVARIANTS
  TypeOK
  OnlyRelated
  NothingMissing
  NotFoundIsTrue
  RowsPerLease
  OverviewAddsUp
