CONSTANTS
  NoAddr = NoAddr
  Addrs <- MCAddrs
  LineSize = 2
  NumSets = 2
  Associativity = 2
  NumMSHRs = 2
  Latency = 2
  NumCores = 2
  Ipc = 2
  Depth = 3
  NumExpected = 3
  Traces <- CacheTraces
  MaxReads = 3
  MaxMisses = 2
  MaxWaiting = 2
SPECIFICATION FairSpec
CHECK_DEADLOCK FALSE
INVARIANTS LinesInFlight DirtyIsUnwritten
PROPERTY OwnLinesFinish
