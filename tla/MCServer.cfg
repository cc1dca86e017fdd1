SPECIFICATION Spec
CONSTANTS
  AddrSpace = 8
  NoIP = NoIP
  SubnetIP = 4
  BlockSize = 2
  Byte = {0, 1}
  ChaddrLen = 2
  TxidLen = 1
  ServerIP = 1
  Source = {0, 4}
  Inbound <- MCInbound
INVARIANTS TypeOK LeasesDisjoint PoolMatchesLeases UnansweredOnlyWhenFull AnswerIsLease
PROPERTIES LeaseStable ImplementsLeases
