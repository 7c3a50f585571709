SPECIFICATION FairSpec
CONSTANTS
  Chunk = 1
  Window = 2
  Creator = TRUE
  MaxTime = 3
  MaxOdd = 1
  MaxDisturbances = 2
  MaxEvents = 4
CHECK_DEADLOCK FALSE
INVARIANTS TypeOK OwnedOnly CompleteIsComplete
PROPERTIES ChargedOnce ReplayChangesNothing EventuallyCollected
