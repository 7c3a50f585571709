SPECIFICATION FairSpec
CONSTANTS
  Chunk = 1
  Window = 2
  Creator = TRUE
  MaxTime = 3
  MaxOdd = 0
  MaxDisturbances = 1
  MaxEvents = 3
CHECK_DEADLOCK FALSE
PROPERTIES RetainedResolved
