SPECIFICATION FairSpec
CONSTANTS
  AddrSpace = 2
  NoIP = NoIP
  Byte = {0, 1}
  ChaddrLen = 2
  TxidLen = 1
  HwLen = 2
  c1 = c1
  Client = {c1}
  HasIface = TRUE
  Retry = 2
  OutCap = 1
  InboxCap = 1
  MaxSends = 3
  HwAddr <- MCHwAddr
  UserPacket <- MCUserPacket
  Arrivals <- MCArrivals
INVARIANTS TypeOK ResponseMatchesRequest  EmptyHandedExplained
PROPERTIES NothingReadBetweenCalls NoRetransmitAfterResponse ImplementsExchange EveryCallReturns
