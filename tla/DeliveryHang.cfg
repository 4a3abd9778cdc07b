SPECIFICATION FairDeliverySpec
CONSTANT Engines = {"e1", "e2"}
PROPERTY FailedEngineReturns
CHECK_DEADLOCK FALSE
