CONSTANTS
  NoAddr = NoAddr
  Addrs <- MCAddrs
  LineSize = 2
  NumSets = 2
  Associativity = 2
  NumMSHRs = 3
  Latency = 4
  NumCores = 1
  Ipc = 1
  Depth = 10
  NumExpected = 10
  Traces <- EvictedTraces
  MaxReads = 3
  MaxMisses = 4
  MaxWaiting = 9
SPECIFICATION FairSpec
CHECK_DEADLOCK FALSE
PROPERTY EveryCoreFinishes
