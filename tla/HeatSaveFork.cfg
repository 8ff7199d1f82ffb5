SPECIFICATION FairSpec
CONSTANTS
  MaxIter = 2
  MaxRuns = 1
  Inherited = FALSE
PROPERTIES
  SaveLaunched
