CONSTANTS
  Metrics = {m1, m2}
  MaxRows = 2
  MaxUploads = 3
  Patient = TRUE
SPECIFICATION FairSpec
INVARIANTS RecordedFileIsWhole OnlyCutsLeaveData
PROPERTIES DeletedFileIsUnlisted
CHECK_DEADLOCK FALSE
