CONSTANTS
  Models = {m1, m2}
  None = None
  NoModel = NoModel
  NoCheckpoint = NoCheckpoint
  Torn = Torn
  MaxOps = 4
  MaxDeaths = 2
  MaxFailures = 1
SPECIFICATION Spec
INVARIANTS WholeCheckpoints ReturnedIsDurable OnlyFailuresLeaveStores
PROPERTIES ImplementsRegister
CHECK_DEADLOCK FALSE
