SPECIFICATION FairSpec
CONSTANTS
  Items = {i1, i2}
  Keys = {k1}
  Hosts = {h1}
  Emitters = {e1, e2}
  Requests = {r1}
  TTL = 1
  BatchLimit = 1
  MaxTime = 2
  MaxCrashes = 1
  Null = null
INVARIANTS IndInv SinglePending DecisionIsTerminal ApprovedInTime
PROPERTIES PendingEnds ProducerResumed
CHECK_DEADLOCK FALSE
