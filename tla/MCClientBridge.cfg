\* Three local connections compete for two permits.
CONSTANTS
  c1 = c1
  c2 = c2
  c3 = c3
  Conns <- ThreeConns
  MaxConnections = 2
  Loop = Loop
SPECIFICATION FairSpec
INVARIANTS
  ServedAccounted
  NoLostShutdown
PROPERTIES
  RelaysCancelledNotAborted
  PoolSpec
  ShutdownTerminates
  PendingResolved
