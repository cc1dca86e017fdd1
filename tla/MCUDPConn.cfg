SPECIFICATION FairSpec
CONSTANTS
  MaxUint8 = 255
  IPv4len = 4
  V4InV6Prefix <- MCPrefix
  Payloads <- MCPayloads
  Addrs <- MCAddrs
  Bounds <- MCBounds
  Sources <- MCSources
  ReadLen = 3
  Drafts <- MCDrafts
  DraftPorts <- MCDraftPorts
  TOSs <- MCTOSs
  IDs <- MCIDs
  Fragments <- MCFragments
  DraftIPs <- MCDraftIPs
  CutAt <- MCCutAt
  MaxPackets = 2
  MaxQueue = 2
  MaxEdits = 2
  MaxEdited = 1
  NoAddr = NoAddr
  NotUDP = NotUDP
  CutShort = CutShort
  NoResult = NoResult
  ReadError = ReadError
INVARIANTS TypeOK ChecksumsVerify HeadersReadBack
PROPERTIES  ImplementsPort ReadReturns
CHECK_DEADLOCK FALSE
