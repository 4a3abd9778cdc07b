SPECIFICATION ReceiversSpec
CONSTANTS
  Callers = {"s1"}
  MaxRetry = 1
  NoAttempt = NoAttempt
  Lossless = {"l1"}
  Queued = {"q1"}
  Capacity = 1
  MaxWrites = 2
  NoChunk = NoChunk
  Engines = {"e1", "e2"}
  Devices = {"d1"}
  MaxGen = 3
  MaxRestarts = 0
  RemoteTuners = {1}
  MaxRemoteChanges = 3
  MaxFetchFailures = 2
  DIIs <- MCDIIs
  MaxModuleSize = 3
  MaxInFlightBytes = 2
  MaxCompletedBytes = 2
  MaxAirChanges = 3
  MaxStoreEvictions = 1
INVARIANTS
    ReadersClosed
    CarouselSound
PROPERTIES
    DeviceKeepsContract
    DeliveryEnds
    KnownQuarantineLifted
    ListedIsFetchable
    MirrorFollows
    EndingCallsReturn
CHECK_DEADLOCK FALSE
