CONSTANTS
  Define = Define
  Delete = Delete
  NoBatch = NoBatch
  TargetRequests = 2
  MaxIncremental = 1
  MaxRows = 1
  MaxCopies = 0
  MaxCrashes = 1
  MaxDrops = 1
SPECIFICATION Spec
INVARIANTS NoUpdateLost
CHECK_DEADLOCK FALSE
