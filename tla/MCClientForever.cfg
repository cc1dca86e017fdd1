SPECIFICATION FairSpec
CONSTANTS
  AddrSpace = 2
  NoIP = NoIP
  Byte = {0, 1}
  ChaddrLen = 2
  TxidLen = 1
  HwLen = 2
  c1 = c1
  Client = {c1}
  HasIface = TRUE
  Retry <- MCForever
  OutCap = 1
  InboxCap = 1
  MaxSends = 1
  HwAddr <- MCHwAddr
  UserPacket <- MCUserPacket
  Arrivals <- MCArrivals
PROPERTY DoneContextEnds
