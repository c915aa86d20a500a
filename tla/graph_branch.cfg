SPECIFICATION WalkSpec
CONSTANTS
  Nodes = {1, 2, 3, 4}
  Graphs <- ParallelWait
  MaxAttempts = 1
  MaxCrashes = 0
CHECK_DEADLOCK FALSE
INVARIANTS SucceededIsComplete
