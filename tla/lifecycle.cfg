SPECIFICATION FairSpec
CONSTANTS
  vc1 = vc1
  vc2 = vc2
  secret1 = secret1
  secret2 = secret2
  c1 = c1
  c2 = c2
  Entries <- SomeEntries
  Configs <- SomeConfigs
  Polling = TRUE
  Conns <- SomeConns
  MaxRotations = 1
  MaxSignals = 2
INVARIANTS
  StartedWithAllCredentials
  StopIsNoFailure
PROPERTIES
  SignalEndsProcess
  ServesInTheEnd
