\* What the installer leaves behind when it fails late.
CONSTANTS
  MaxCerts = 1
  MaxRestarts = 0
  MaxInstalls = 1
SPECIFICATION HostSpec
PROPERTIES
  RollbackRestores
