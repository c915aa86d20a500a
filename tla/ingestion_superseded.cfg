SPECIFICATION Spec
CONSTANTS
  MaxPipes = 2
  Calls = {c1, c2}
  Reader = reader
  Editor = editor
  None = none
  MaxFaults = 0
PROPERTY SupersededRefused
CHECK_DEADLOCK FALSE
