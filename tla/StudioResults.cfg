CONSTANTS
  None = None
  MaxRows = 2
  MaxRuns = 2
  MaxTimers = 2
  MaxShows = 2
  BackToBack = TRUE
  OrderedWrites = TRUE
SPECIFICATION FairSpec
INVARIANTS TypeOK  
 
CHECK_DEADLOCK FALSE
