CONSTANTS
  Models = {m1, m2}
  Slots = {s1}
  NoModel = NoModel
  NoSlot = NoSlot
  TargetRequests = 1
  MaxReady = 1
  MaxNotifs = 1
  MaxEventQ = 1
SPECIFICATION FairSpec
INVARIANTS ExitIsClean
PROPERTIES InputIsServed StopReturnsWhenQuiet
CHECK_DEADLOCK FALSE
