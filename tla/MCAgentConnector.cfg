\* The windows of the code in seconds, the retry delay and the lag rounded up.
CONSTANTS
  Window = 15
  ConnectTimeout = 5
  RetryDelay = 1
  Lag = 1
  MaxAgents = 2
SPECIFICATION FairSpec
INVARIANTS
  ConnectBounded
  NoMissedAgent
PROPERTIES
  Returns
