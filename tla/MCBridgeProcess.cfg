\* Every command with every kind of file, and command lines with gaps.
CONSTANTS
  Launches <- AllLaunches
  Materials <- AllMaterials
  Answers <- AllAnswers
SPECIFICATION FairSpec
INVARIANTS
  ServingIsSound
  RefusalTrue
PROPERTIES
  StopEnds
  ServiceSpec
