CONSTANTS
  Models = {m1, m2, m3}
  Slots = {s1, s2}
  NoModel = NoModel
  NoSlot = NoSlot
  TargetRequests = 1
  MaxReady = 1
  MaxNotifs = 1
  MaxEventQ = 1
SPECIFICATION InService
SYMMETRY Symmetry
INVARIANTS IInv NoLostWakeup
PROPERTIES ImplementsRunnerPool
CHECK_DEADLOCK FALSE
