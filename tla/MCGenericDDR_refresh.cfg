CONSTANTS
  x = x
  y = y
  z = z
  v = v
  NBanks = 2
  Rows = {1, 2}
  Closed = Closed
  RankLat <- MCRankLat
  BankLat <- MCBankLat
  Addrs <- MCAddrs3
  AddrBank <- MCBank
  AddrRow <- MCRow
  ReadSize = 2
  WriteSize = 2
  PrioritySize = 3
  WriteHigh = 1
  WriteLow = 1
  ReadLatency = 3
  RowPolicy = "ClosedCAP"
  Cap = 2
  HasAutoPre = FALSE
  NREFI = 12
  MaxSend = 3
SPECIFICATION FairSpec
INVARIANTS RefreshOnTime ActiveRowOpen ForwardSetExact NoStaleRead ActiveCountExact
PROPERTIES EveryRequestAnswered ImplementsPort
