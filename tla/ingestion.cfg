SPECIFICATION FairSpec
CONSTANTS
  MaxPipes = 2
  Calls = {c1, c2}
  Reader = reader
  Editor = editor
  None = none
  MaxFaults = 1
INVARIANTS IngestInv ReadyIsOneRun
PROPERTY IngestionSettles
CHECK_DEADLOCK FALSE
