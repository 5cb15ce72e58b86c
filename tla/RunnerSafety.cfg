CONSTANTS
  Define = Define
  Delete = Delete
  NoBatch = NoBatch
  TargetRequests = 2
  MaxIncremental = 1
  MaxRows = 3
  MaxCopies = 1
  MaxCrashes = 1
  MaxDrops = 1
SPECIFICATION FairSpec
INVARIANTS TypeOK NoRowUnanswered  CheckpointMatchesModel LearnsInOrder
 
CHECK_DEADLOCK FALSE
