CONSTANTS
  x = x
  y = y
  z = z
  u = u
  v = v
  Closed = Closed
  Activating = Activating
  NBanks = 4
  BanksPerRank = 2
  BanksPerBlock = 2
  BlocksPerBank = 1
  SlotsPerRequest = 1
  Serial = TRUE
  PimLatency = 3
  nAAD = 4
  CasGuard = 2
  ReadLatency = 3
  ReadSize = 2
  WriteSize = 2
  PrioritySize = 4
  WriteHigh = 1
  WriteLow = 1
  NREFI = 30
  Rows = {1, 2}
  ChannelLat <- MCChannelLat
  RankLat <- MCRankLat
  BankLat <- MCBankLat
  Addrs <- MCAddrs
  AddrBank <- MCBank
  AddrRow <- MCRow
  WckTime <- MCWck
  Workload <- TraceWork
  Window <- TraceWindow
SPECIFICATION FairFrontendSpec
PROPERTY TraceFinishes
