----------------------------- MODULE AddressBytes -----------------------------
(***************************************************************************)
(* net.IP as the byte slice it is: an IPv4 address has a form of IPv4len   *)
(* bytes and one of 16, in which V4InV6Prefix comes first.  nil is the     *)
(* empty slice.                                                            *)
(***************************************************************************)
EXTENDS Bytes

CONSTANTS IPv4len,         \* 4
          V4InV6Prefix     \* ten bytes 0 and two bytes 255

ASSUME AddressBytesAssumption ==
  /\ IPv4len \in Nat \ {0}
  /\ V4InV6Prefix \in Seq(Byte)
  /\ Len(V4InV6Prefix) >= IPv4len

Nil == <<>>

\* The 16-byte form, which net.ParseIP and net.IPv4 give.
To16(ip) == V4InV6Prefix \o ip

To4(ip) ==
  IF Len(ip) = IPv4len THEN ip
  ELSE IF Len(ip) = Len(V4InV6Prefix) + IPv4len /\ SubSeq(ip, 1, Len(V4InV6Prefix)) = V4InV6Prefix
       THEN SubSeq(ip, Len(V4InV6Prefix) + 1, Len(ip))
  ELSE Nil

\* Mutant: the loop does not end at a byte that does not wrap.
nextIPAll(ip) == [i \in DOMAIN ip |-> (ip[i] + 1) % Base]

\* From the last byte on, each byte is incremented until one does not wrap.
nextIP(ip) ==
  [i \in DOMAIN ip |->
     IF \A j \in i + 1 .. Len(ip) : ip[j] = MaxUint8 THEN (ip[i] + 1) % Base ELSE ip[i]]

\* Mutant: the first four bytes, whichever form the address has.
ipToUint32First(ip) == LittleUint(SubSeq(ip, 1, IPv4len))

ipToUint32(ip) == LittleUint(To4(ip))

\* One byte under one byte of a mask, which is ones followed by zeros.
Masked(byte, m) == byte - (byte % (Base - m))

\* net.IPNet.Contains
SubnetContains(subnetIP, mask, ip) ==
  LET x == IF To4(ip) = Nil THEN ip ELSE To4(ip) IN
  /\ Len(x) = Len(subnetIP)
  /\ \A i \in DOMAIN x : Masked(x[i], mask[i]) = Masked(subnetIP[i], mask[i])
==============================================================================
