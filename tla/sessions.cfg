SPECIFICATION FairSpec
CONSTANTS
  Hosts = {h1, h2}
  Callers = {h1}
  MaxTurns = 2
  MaxMessages = 2
  None = none
  MaxFaults = 1
INVARIANTS SessionInv AnswerInPlace
PROPERTY PromptAnswered
CHECK_DEADLOCK FALSE
