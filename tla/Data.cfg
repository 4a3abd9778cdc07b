SPECIFICATION DataSpec
CONSTANTS
  scan1 = scan1
  scan2 = scan2
  gather1 = gather1
  gather2 = gather2
  gather3 = gather3
  after = after
  plain = plain
  topology = topology
  live = live
  storedEPG = storedEPG
  NoGroup = NoGroup
  Keys = {scan1, after, plain, gather2, gather3}
  DependsOn <- MCDepends
  ExclusiveKeys <- MCExclusive
  SharedKeys <- MCShared
  Priority <- MCPriority
  Group <- MCGroup
  RetryMax <- MCRetry
  Rerunnable = {plain}
  Resources = {topology}
  Groups = {live, storedEPG}
  GroupLimits <- MCLimits
  IndependentGroups = {storedEPG}
  MaxConcurrent = 1
  MaxHistory = 1
  MaxJobs = 3
  Lossless = {"l1"}
  Queued = {"q1"}
  Capacity = 1
  MaxWrites = 3
  NoChunk = NoChunk
  PacketSubs = {"p1"}
  SectionSubs = {"o1"}
  Filtered = {"p1"}
  Passive = {"o1"}
  MaxPackets = 3
  Size <- MCSize
  SectionPackets = {1, 2, 3}
  Limit = 3
  Batch = 2
  SectionBuffer = 1
  NumIds = 2
  Times <- MCTimes
  PfTables <- MCPfTables
  Others = {"o1"}
  MaxRec <- MCMaxRec
  Cutoffs = {3}
  Devices = {"d1"}
  MaxGen = 2
  MaxRestarts = 1
INVARIANTS
    ReadersAndWritersExclude
    JobsAccounted
    LimitsHold
    ChunksSafe
    EndsAreOrderly
    OfferedIsQuiet
PROPERTIES
    StartsAreAllowed
    ChunksArrive
    SectionsWithoutGap
    PrecedenceKept
CHECK_DEADLOCK FALSE
