\* What a failed renewal leaves behind.
CONSTANTS
  MaxCerts = 3
  MaxRestarts = 0
SPECIFICATION Spec
PROPERTIES
  FailedRenewalChangesNothing
