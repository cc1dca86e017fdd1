SPECIFICATION Spec
CONSTANTS
  AddrSpace = 4
  NoIP = NoIP
  SubnetIP = 2
  BlockSize = 2
  Byte = {0, 1}
  ChaddrLen = 2
  TxidLen = 1
  HwLen = 2
  ServerIP = 1
  c1 = c1
  c2 = c2
  Client = {c1, c2}
  HwAddr <- MCAlike
INVARIANT NoSharedAddress
