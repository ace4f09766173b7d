\* A service whose discovery does not succeed.
CONSTANTS
  Launches <- ServiceLaunches
  Materials <- GoodMaterials
  Answers <- AllAnswers
SPECIFICATION FairSpec
PROPERTIES
  DiscoverySettles
