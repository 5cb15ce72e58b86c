CONSTANTS
  Clients = {c1, c2}
  Storer = Storer
  Threshold = 2
  Times = {1, 2}
  MaxBatch = 1
  MaxBatches = 2
  MaxCalls = 3
  MaxFailures = 1
SPECIFICATION FairSpec
INVARIANTS ScoresNeedModel RowsInOrder NoRowSkipped
PROPERTIES RowsAreScored
CHECK_DEADLOCK FALSE
