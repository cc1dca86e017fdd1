SPECIFICATION FairSpec
CONSTANTS
  MaxUint8 = 3
  IPv4len = 2
  V4InV6Prefix <- MCPrefix
  BufCap = 30
  txidLen = 1
  chaddrLen = 2
  snameLen = 2
  fileLen = 4
  magicCookie <- MCCookie
  Headers <- MCHeaders
  TypedValues <- MCValues
  Wire <- MCWire
  WireAgain <- MCWireAgain
  MaxAdds = 2
INVARIANTS TypeOK RoundTrip AcceptedIsComplete NamesEnd  AddedIsRead
PROPERTY Terminates

