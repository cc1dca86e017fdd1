-------------------------------- MODULE Headers --------------------------------
(***************************************************************************)
(* ipv4.go: IPv4 and UDP headers in byte slices, their checksums, and      *)
(* udp4pkt, which puts both before a payload.  A setter is an operator     *)
(* from the bytes to the bytes it leaves.  Offsets are those of the source *)
(* plus one, as sequences begin at 1.  Byte strings have real bytes here:  *)
(* MaxUint8 is 255 also under TLC.                                         *)
(***************************************************************************)
EXTENDS AddressBytes

ASSUME HeadersAssumption == MaxUint8 = 255 /\ IPv4len = 4

Word == Base * Base           \* 2^16

IPv4MinimumSize == 20
IPv4MaximumHeaderSize == 60
UDPMinimumSize == 8
UDPProtocolNumber == 17

\* copy(b[at:], bytes)
Put(b, at, bytes) ==
  [k \in DOMAIN b |-> IF k \in at .. at + Len(bytes) - 1 THEN bytes[k - at + 1] ELSE b[k]]
At(b, at, n) == SubSeq(b, at, at + n - 1)
Uint16At(b, at) == Uint(At(b, at, 2))
PutUint16(b, at, v) == Put(b, at, PutUint(2, v))

------------------------------------------------------------------------------
(* Checksums *)

\* Mutant: the carry of the addition is lost.
ChecksumCombineLossy(x, y) == (x + y) % Word

ChecksumCombine(x, y) == (x + y + ((x + y) \div Word)) % Word

\* The words of buf, with a zero byte after an odd last one.
Words(buf) ==
  [k \in 1 .. (Len(buf) + 1) \div 2 |->
     buf[2 * k - 1] * Base + IF 2 * k <= Len(buf) THEN buf[2 * k] ELSE 0]

SumOf(words) ==
  LET sum[k \in 0 .. Len(words)] == IF k = 0 THEN 0 ELSE sum[k - 1] + words[k]
  IN sum[Len(words)]

\* A uint32 holds the sum of as many words as a packet can have.
Checksum(buf, initial) ==
  LET v == initial + SumOf(Words(buf)) IN ChecksumCombine(v % Word, v \div Word)

PseudoHeaderChecksum(proto, src, dst) ==
  Checksum(<<0, proto>>, Checksum(dst, Checksum(src, 0)))

\* ^v of a uint16
Complement(v) == Word - 1 - v

------------------------------------------------------------------------------
(* type IPv4 *)

IPVersion(b) == IF b = <<>> THEN -1 ELSE b[1] \div 16
HeaderLength(b) == (b[1] % 16) * 4
TOS(b) == b[2]
TotalLength(b) == Uint16At(b, 3)
ID(b) == Uint16At(b, 5)
Flags(b) == Uint16At(b, 7) \div 2^13
FragmentOffset(b) == (Uint16At(b, 7) * 8) % Word
TTL(b) == b[9]
Protocol(b) == b[10]
IPChecksum(b) == Uint16At(b, 11)
SourceAddress(b) == At(b, 13, IPv4len)
DestinationAddress(b) == At(b, 17, IPv4len)
PayloadLength(b) == (TotalLength(b) - HeaderLength(b)) % Word
Payload(b) == At(b, HeaderLength(b) + 1, PayloadLength(b))

SetTOS(b, v) == Put(b, 2, <<v>>)
SetTotalLength(b, v) == PutUint16(b, 3, v)
SetID(b, v) == PutUint16(b, 5, v)

\* Mutant: the offset is taken to be in units of eight bytes already.
flagsFOUnits(flags, offset) == ((flags * 2^13) % Word) + (offset % 2^13)

flagsFO(flags, offset) == ((flags * 2^13) % Word) + (offset \div 8)
SetFlagsFragmentOffset(b, flags, offset) == PutUint16(b, 7, flagsFO(flags, offset))
SetIPChecksum(b, v) == PutUint16(b, 11, v)
SetSourceAddress(b, ip) == Put(b, 13, To4(ip))
SetDestinationAddress(b, ip) == Put(b, 17, To4(ip))

CalculateIPChecksum(b) == Checksum(At(b, 1, HeaderLength(b)), 0)

\* IPv4.Encode leaves what follows the first IPv4MinimumSize bytes.
EncodeIPv4(b, i) ==
  <<4 * 16 + ((i.ihl \div 4) % 16), i.tos>> \o PutUint(2, i.totalLength)
    \o PutUint(2, i.id) \o PutUint(2, flagsFO(i.flags, i.fragmentOffset))
    \o <<i.ttl, i.protocol>> \o PutUint(2, i.checksum)
    \o Copied(IPv4len, i.srcAddr) \o Copied(IPv4len, i.dstAddr)
    \o SubSeq(b, IPv4MinimumSize + 1, Len(b))

EncodePartial(b, partialChecksum, totalLength) ==
  LET set == SetTotalLength(b, totalLength) IN
  SetIPChecksum(set, Complement(Checksum(At(set, 3, 2), partialChecksum)))

IsValid(b, pktSize) ==
  /\ Len(b) >= IPv4MinimumSize
  /\ HeaderLength(b) <= TotalLength(b)
  /\ TotalLength(b) <= pktSize

------------------------------------------------------------------------------
(* type UDP *)

SourcePort(u) == Uint16At(u, 1)
DestinationPort(u) == Uint16At(u, 3)
Length(u) == Uint16At(u, 5)
UDPChecksum(u) == Uint16At(u, 7)
SetSourcePort(u, port) == PutUint16(u, 1, port)
SetDestinationPort(u, port) == PutUint16(u, 3, port)
SetUDPChecksum(u, v) == PutUint16(u, 7, v)
UDPPayload(u) == SubSeq(u, UDPMinimumSize + 1, Len(u))

EncodeUDP(f) ==
  PutUint(2, f.srcPort) \o PutUint(2, f.dstPort) \o PutUint(2, f.length)
    \o PutUint(2, f.checksum)

CalculateUDPChecksum(u, partialChecksum, length) ==
  Checksum(At(u, 1, UDPMinimumSize), Checksum(PutUint(2, length), partialChecksum))

Uint16 == 0 .. Word - 1
HeaderLengths == {4 * n : n \in 5 .. 15}
FragmentOffsets == {8 * n : n \in 0 .. 2^13 - 1}

\* What a program puts into headers with IPv4Fields and UDPFields.  Lengths and
\* offsets are the ones a header can hold, and the packet is one that its total
\* length can count; the checksum is left to be calculated.
DraftFields ==
  [ihl : HeaderLengths, tos : Byte, totalLength : Uint16, id : Uint16, flags : 0 .. 7,
   fragmentOffset : FragmentOffsets, ttl : Byte, protocol : Byte, checksum : {0},
   srcAddr : [1 .. IPv4len -> Byte], dstAddr : [1 .. IPv4len -> Byte],
   srcPort : Uint16, dstPort : Uint16, length : Uint16, payload : Seq(Byte)]

UDPAddrs == [ip : Seq(Byte), port : Uint16]

\* The source address may be nil.
udp4pkt(packet, dest, src) ==
  LET size == Len(packet)
      fields == [ihl |-> IPv4MinimumSize, tos |-> 0,
                 totalLength |-> (IPv4MinimumSize + UDPMinimumSize + size) % Word,
                 id |-> 0, flags |-> 0, fragmentOffset |-> 0, ttl |-> 30,
                 protocol |-> UDPProtocolNumber, checksum |-> 0,
                 srcAddr |-> To4(src.ip), dstAddr |-> To4(dest.ip)]
      ip == EncodeIPv4(Zeros(IPv4MinimumSize), fields)
      udp == EncodeUDP([srcPort |-> src.port % Word, dstPort |-> dest.port % Word,
                        length |-> (UDPMinimumSize + size) % Word, checksum |-> 0])
      xsum == Checksum(packet, PseudoHeaderChecksum(Protocol(ip), fields.srcAddr, fields.dstAddr))
  IN SetIPChecksum(ip, Complement(CalculateIPChecksum(ip)))
     \o SetUDPChecksum(udp, Complement(CalculateUDPChecksum(udp, xsum, Length(udp))))
     \o packet

------------------------------------------------------------------------------
(* A packet taken apart, and what its receiver checks *)

Upto(n, s) == SubSeq(s, 1, IF Len(s) <= n THEN Len(s) ELSE n)

ipHdr(pkt) == SubSeq(pkt, 1, HeaderLength(pkt))
AfterIP(pkt) == SubSeq(pkt, HeaderLength(pkt) + 1, Len(pkt))

\* What EncodePartial is to be given: "the checksum of the header without the
\* total length and checksum fields".
partialChecksum(ip) == Checksum(SetIPChecksum(SetTotalLength(ip, 0), 0), 0)

\* Words that add up to zero in ones' complement arithmetic, which is what RFC
\* 1071 has a receiver look for: their sum is a multiple of 2^16 - 1.
SumsToZero(bytes) == SumOf(Words(bytes)) % (Word - 1) = 0

PseudoHeader(ip, udp) ==
  SourceAddress(ip) \o DestinationAddress(ip) \o <<0, Protocol(ip)>> \o PutUint(2, Len(udp))
==============================================================================
