SPECIFICATION AgentSpec
CONSTANTS
  Devices = {"d1"}
  MaxGen = 2
  MaxRestarts = 0
INVARIANT OfferedMeansStopped
CHECK_DEADLOCK FALSE
