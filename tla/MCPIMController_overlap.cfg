CONSTANTS
  x = x
  y = y
  z = z
  u = u
  v = v
  Closed = Closed
  Activating = Activating
  NBanks = 4
  BanksPerRank = 2
  BanksPerBlock = 2
  BlocksPerBank = 2
  SlotsPerRequest = 1
  Serial = FALSE
  PimLatency = 6
  nAAD = 4
  CasGuard = 2
  ReadLatency = 3
  ReadSize = 2
  WriteSize = 2
  PrioritySize = 2
  WriteHigh = 1
  WriteLow = 1
  NREFI = 12
  Rows = {1, 2}
  ChannelLat <- MCChannelLat
  RankLat <- MCRankLat
  BankLat <- MCBankLat
  Addrs <- MCAddrs
  AddrBank <- MCBankOne
  AddrRow <- MCRow
  WckTime <- MCWck
  Workload <- OverlapWork
  Window <- AnyWindow
SPECIFICATION Spec
CHECK_DEADLOCK FALSE
INVARIANTS TypeOK SlotsExact DependentsSerialized ExecutingRowOpen
