\* Two clients on one path, one change of the path at a time.
CONSTANTS
  p1 = p1
  p2 = p2
  i1 = i1
  i2 = i2
  i3 = i3
  i4 = i4
  Procs <- TwoProcs
  Inodes <- ThreeInodes
  None = None
  Other = Other
  Overlap = FALSE
  MaxMeddles = 2
  MaxCrashes = 2
SPECIFICATION FairSpec
INVARIANTS
  OwnershipTrue
PROPERTIES
  LiveNeverRemoved
  OtherNeverRemoved
  RebindKeepsReplacement
  RefusedOnlyIfTaken
  PathRestored
