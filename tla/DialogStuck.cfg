CONSTANTS
  Ids = {i1, i2}
  Procs = {p1, p2}
  None = None
  MaxConcurrency = 2
  PromptClose = TRUE
  MaxMsgs = 2
SPECIFICATION FairSpec
PROPERTIES DialogCanBeLeft
CHECK_DEADLOCK FALSE
