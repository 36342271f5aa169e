SPECIFICATION FairSpec
CONSTANTS
  NumBuses = 2
  NumChips = 2
  NumBlocks = 2
  NumEntries = 2
INVARIANTS TypeOK NoUseAfterFree OnlyForgotten
PROPERTIES UnloadEnds
CHECK_DEADLOCK FALSE
