SPECIFICATION FairSpec
CONSTANTS
  Hosts = {h1, h2}
  Plans <- MCPlans
  MaxTasks = 5
  MaxEvents = 1
  MaxAnswers = 1
CHECK_DEADLOCK FALSE
INVARIANTS RowInv SoleDriver
PROPERTIES RunRests
