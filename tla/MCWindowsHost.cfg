\* Two runs of the installer on a fresh or a running host.
CONSTANTS
  MaxCerts = 3
  MaxRestarts = 1
  MaxInstalls = 2
SPECIFICATION HostFairSpec
INVARIANTS
  NoOrphanScript
  SuccessIsServed
PROPERTIES
  OnlySoundInstalled
  DownOnlyForNews
  OnlyInstallerStarts
  OldBundleKept
  StopHonoured
