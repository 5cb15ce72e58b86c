CONSTANTS
  Models = {m1, m2}
  Slots = {s1, s2}
  NoModel = NoModel
SPECIFICATION ProtocolSpec
INVARIANTS AgentAssertions ClosedAgentHasNoProcess OneCallbackPerModel
PROPERTIES StopIsAnswered 
CHECK_DEADLOCK FALSE
