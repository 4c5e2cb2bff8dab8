CONSTANTS
  x = x
  y = y
  z = z
  v = v
  NBanks = 2
  Rows = {1, 2}
  Closed = Closed
  RankLat <- MCRankLat
  BankLat <- MCBankLat
  Addrs <- MCAddrs3
  AddrBank <- MCBank
  AddrRow <- MCRow
  ReadSize = 2
  WriteSize = 2
  PrioritySize = 1
  WriteHigh = 1
  WriteLow = 1
  ReadLatency = 3
  RowPolicy = "ClosedCAP"
  Cap = 1
  HasAutoPre = TRUE
  NREFI = 6
  MaxSend = 4
SPECIFICATION Spec
CHECK_DEADLOCK FALSE
INVARIANTS Conserved CapBound InjectedIsQueued
