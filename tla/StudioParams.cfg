CONSTANTS
  Ids = {i1, i2, i3}
  Procs = {p1, p2, p3}
  None = None
  MaxConcurrency = 3
  PromptClose = TRUE
  MaxMsgs = 2
SPECIFICATION FairSpec
INVARIANTS AnalyzeIsConsistent
PROPERTIES DialogIsAnswered
CHECK_DEADLOCK FALSE
