----------------------------- MODULE IPAllocBytes -----------------------------
(***************************************************************************)
(* ipalloc.go works on byte slices: the scan increments them with a carry, *)
(* the map's keys are little-endian numbers, and an address may come in    *)
(* either form of a net.IP.  Here the bytes are set beside the numbers of  *)
(* module IPAlloc, in every state the allocator reaches.                   *)
(***************************************************************************)
EXTENDS IPAlloc, Sequences

CONSTANTS MaxUint8, IPv4len, V4InV6Prefix

B == INSTANCE AddressBytes

\* An address is as many bytes as it takes to tell it from all others.
ASSUME AddressesAssumption ==
  /\ MaxUint8 \in Nat \ {0} /\ IPv4len \in Nat \ {0}
  /\ V4InV6Prefix \in Seq(0 .. MaxUint8) /\ Len(V4InV6Prefix) >= IPv4len
  /\ AddrSpace = B!Power(IPv4len)

\* The subnet as net.ParseCIDR gives it: the addresses that differ in their
\* last m bytes and in the low bits of one more, from a multiple of their
\* number on.
ASSUME CIDRAssumption ==
  \E m \in 0 .. IPv4len - 1 : \E P \in 1 .. B!Base, D \in 1 .. B!Base, q \in 0 .. AddrSpace :
    P * D = B!Base /\ BlockSize = P * B!Power(m) /\ SubnetIP = q * BlockSize

Bytes(ip) == B!PutUint(IPv4len, ip)
Forms(ip) == {Bytes(ip), B!To16(Bytes(ip))}

subnetIP == Bytes(SubnetIP)
subnetMask == Bytes(AddrSpace - BlockSize)

\* At each address the scan of alloc looks at, the bytes of try are in the
\* subnet when the number is, and nextIP turns them into the bytes of the
\* next number, whatever carry that takes.
ScanOnBytes ==
  /\ \A f \in Forms(try) : B!SubnetContains(subnetIP, subnetMask, f) <=> Contains(try)
  /\ B!nextIP(Bytes(try)) = Bytes(nextIP(try))

\* The keys under which the addresses in use are stored are found again for
\* these addresses, in both forms, and for no others.
KeysTellAddresses ==
  LET keys == {B!ipToUint32(Bytes(ip)) : ip \in allocated} IN
  \A ip \in Addr : \A f \in Forms(ip) :
    B!ipToUint32(f) \in keys <=> ~usable(allocated, ip)
==============================================================================
