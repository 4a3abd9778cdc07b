SPECIFICATION GuideSpec
CONSTANTS
  scan1 = scan1
  scan2 = scan2
  gather1 = gather1
  gather2 = gather2
  gather3 = gather3
  after = after
  plain = plain
  topology = topology
  live = live
  storedEPG = storedEPG
  NoGroup = NoGroup
  Keys = {scan1, scan2, gather1}
  DependsOn <- MCDepends
  ExclusiveKeys <- MCExclusive
  SharedKeys <- MCShared
  Priority <- MCPriority
  Group <- MCGroup
  RetryMax <- MCRetry
  Rerunnable = {gather1}
  Resources = {topology}
  Groups = {live, storedEPG}
  GroupLimits <- MCLimits
  IndependentGroups = {storedEPG}
  MaxConcurrent = 2
  MaxHistory = 3
  MaxJobs = 3
  NumGroups = 2
  StoredGroups = {}
  LiveLimit = 1
  MaxRefresh = 1
  MaxFaults = 1
  MaxEvents = 3
  MaxFlushes = 2
  LogSize = 2
  BufferSize = 2
  Readers = {"r1"}
  Channels = {"c1", "c2"}
  Off = "off"
  Carried <- MCCarried
  Filters = {{"sA", "sB"}, {"sA"}}
  MaxBoots = 3
  MaxFailures = 1
PROPERTIES
    JobsSettle
    GroupsGathered
    EventsArrive
    ListCorrect
CHECK_DEADLOCK FALSE
