SPECIFICATION FairAllocSpec
CONSTANTS
  AddrSpace = 16
  SubnetIP = 12
  BlockSize = 4
  NoIP = NoIP
  MaxUint8 = 1
  IPv4len = 4
  V4InV6Prefix <- MCPrefix
INVARIANTS AllocTypeOK ScanInv ScanOnBytes KeysTellAddresses
PROPERTIES ImplementsPool AllocReturns
