\* Two clients started at the same time on the same path.
CONSTANTS
  p1 = p1
  p2 = p2
  i1 = i1
  i2 = i2
  i3 = i3
  i4 = i4
  Procs <- TwoProcs
  Inodes <- FourInodes
  None = None
  Other = Other
  Overlap = TRUE
  MaxMeddles = 0
  MaxCrashes = 0
SPECIFICATION Spec
PROPERTIES
  LiveNeverRemoved
