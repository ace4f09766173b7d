\* The constants of the code in units of 200 ms, timers up to one unit late.
CONSTANTS
  Window = 300
  TcpTimeout = 25
  TlsTimeout = 50
  InitialDelay = 1
  MaxDelay = 25
  Lag = 1
SPECIFICATION FairSpec
INVARIANTS
  TypeOK
  PreRelayBounded
PROPERTIES
  LifeSpec
