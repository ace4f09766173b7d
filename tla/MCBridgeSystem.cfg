\* One session, two attempts, a server with one permit, one fault.
CONSTANTS
  MaxAttempts = 2
  MaxSessions = 1
  MaxUp = 1
  MaxDown = 2
  MaxFaults = 1
  BufferSize = 1
  StreamSize = 1
SPECIFICATION FairSpec
INVARIANTS
  TypeOK
  ServerCompletionTrue
PROPERTIES
  LineSpec
  ServerReleases
  RequestsArrive
