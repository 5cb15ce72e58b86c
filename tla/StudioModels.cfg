CONSTANTS
  Ids = {i1, i2}
  Procs = {p1, p2}
  None = None
  MaxConcurrency = 1
  PromptClose = TRUE
  Ops = {o1, o2}
  MaxMsgs = 1
  OneChain = TRUE
SPECIFICATION FairSpec
INVARIANTS   StoreShowsTheTruth QuitStopsModels
PROPERTIES EndIsShown 
CHECK_DEADLOCK FALSE
