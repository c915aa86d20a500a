SPECIFICATION FairSpec
CONSTANTS
  States = {"todo", "work", "done"}
  Initial = "todo"
  Terminal = {"done"}
  Automated = {"work"}
  Transitions <- MCTransitions
  From <- MCFrom
  To <- MCTo
  Gated = {"finish"}
  Guarded = {"finish"}
  OnComplete <- MCOnComplete
  OnFailure <- MCOnFailure
  Requests = {r1, r2}
  Items = {i1, i2}
  Reconciler = rec
  NoTransition = "none"
  NoItem = none
  PayloadEdits = {FALSE}
  MaxVisits = 5
  MaxAttempts = 2
  ChainLimit = 1
  MaxFaults = 1
INVARIANTS GateInv DispatchOfVisit
PROPERTIES FencedByGate GateDischarged DispatchRecovered
CHECK_DEADLOCK FALSE
