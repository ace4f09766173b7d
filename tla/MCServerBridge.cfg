\* Three TCP connections compete for two permits.
CONSTANTS
  c1 = c1
  c2 = c2
  c3 = c3
  Conns <- ThreeConns
  MaxConnections = 2
  Peers <- PeerKinds
  Loop = Loop
SPECIFICATION FairSpec
INVARIANTS
  ServedAccounted
  OnlyTrustedReachAgent
PROPERTIES
  RelaysCancelledNotAborted
  PoolSpec
  ShutdownTerminates
  UnprovenPeersReleasePermits
