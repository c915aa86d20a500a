SPECIFICATION FairSpec
CONSTANTS
  Hosts = {h1, h2}
  Workers = {w1, w2}
  None = none
  MaxAttempts = 3
  Backoff = 1
  Deadline = 1
  Lease = 3
  MaxLag = 1
  MaxFaults = 2
INVARIANTS OutboxInv SendsCounted
PROPERTIES OutcomeKept DeliveryEnds
CHECK_DEADLOCK FALSE
