SPECIFICATION FairWalkSpec
CONSTANTS
  Nodes = {1, 2, 3, 4}
  Graphs <- Families
  MaxAttempts = 2
  MaxCrashes = 1
CHECK_DEADLOCK FALSE
INVARIANTS WalkInv SucceededIsComplete JoinsWait
PROPERTIES CompletedNotRepeated RunEnds
