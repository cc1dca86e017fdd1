SPECIFICATION Spec
CONSTANTS
  AddrSpace = 2
  NoIP = NoIP
  Byte = {0, 1}
  ChaddrLen = 2
  TxidLen = 1
  HwLen = 2
  c1 = c1
  Client = {c1}
  HasIface = FALSE
  Retry = 2
  OutCap = 1
  InboxCap = 2
  MaxSends = 3
  HwAddr <- MCHwAddr
  UserPacket <- MCUserPacket
  Arrivals <- MCArrivals
INVARIANT NoPanic
