----------------------------- MODULE UDPConnProofs -----------------------------
(* The UDP connection, for payloads, headers and buffers of every length and   *)
(* any number of packets: what is sent verifies and is read back, and the      *)
(* connection implements DatagramPort.                                         *)
EXTENDS UDPConn, HeadersProofs

\* A draft makes a packet to the destination in its fields, and it verifies.
LEMMA DraftSent ==
  ASSUME IsDraft(draft, want)
  PROVE  IsSent(Packet, want.ihl, want.protocol, want.dstAddr, want.dstPort, want.payload)
<1> DEFINE d == draft.ip
           u == draft.udp
           p == want.payload
           h == want.ihl
           len == want.length
           total == Len(d) + 8 + Len(p)
           ip == EncodePartial(d, partialChecksum(d), total)
           src == want.srcAddr
           dst == want.dstAddr
           proto == want.protocol
           x == CalculateUDPChecksum(
                  u, Checksum(p, PseudoHeaderChecksum(Protocol(ip), SourceAddress(ip),
                                                      DestinationAddress(ip))), Length(u))
           pkt == ip \o SetUDPChecksum(u, Complement(x)) \o p
<1>1. Packet = pkt
  BY DEF Packet, UDPMinimumSize
<1>2. /\ want \in DraftFields /\ len = 8 + Len(p) /\ h + len \in Uint16
      /\ HoldsIP(d, want) /\ HoldsUDP(u, want)
  BY DEF IsDraft
<1>3. /\ IPFields(want)
      /\ src \in Seq(Byte) /\ Len(src) = 4 /\ dst \in Seq(Byte) /\ Len(dst) = 4
      /\ len \in Uint16 /\ p \in Seq(Byte)
  BY <1>2, DraftIsFields
<1>4. IsIPHdr(d, h, want.totalLength, proto, Copied(4, src), Copied(4, dst))
  BY <1>2, <1>3, HoldsIsHdr
<1>5. Copied(4, src) = src /\ Copied(4, dst) = dst
  BY <1>3, CopiedAddress
<1>6. proto \in Byte /\ h \in HeaderLengths
  BY <1>3 DEF IPFields
<1>7. want.checksum = 0
  BY <1>2 DEF DraftFields
<1>8. u \in Seq(Byte) /\ Len(u) = 8 /\ Pair(u, 3) = want.dstPort /\ Pair(u, 5) = len /\ Pair(u, 7) = 0
  BY <1>2, <1>7 DEF HoldsUDP
<1>9. Length(u) = len
  BY <1>2, GettersUDP
<1>10. Len(d) = h
  BY <1>4 DEF IsIPHdr
<1> HIDE DEF d, u, p, h, len, src, dst, proto
<1>11. h \in Nat /\ Len(p) \in Nat /\ Word \in Int
  BY <1>3, <1>6, HdrLength, LenProperties, WordBig
<1>12. total = h + len /\ total \in 0 .. Word - 1 /\ len \in 0 .. Word - 1
  BY <1>2, <1>3, <1>10, <1>11 DEF Uint16
<1> HIDE DEF total
<1>13. IsIPHdr(ip, h, total, proto, Copied(4, src), Copied(4, dst)) /\ Cong(Sum16(ip), 0)
  BY <1>4, <1>12, PartialIPSum
<1> HIDE DEF ip
<1>14. SourceAddress(ip) = src /\ DestinationAddress(ip) = dst /\ Protocol(ip) = proto
  BY <1>5, <1>13 DEF IsIPHdr
<1>15. x = CalculateUDPChecksum(u, Checksum(p, PseudoHeaderChecksum(proto, src, dst)), len)
  BY <1>9, <1>14
<1>16. pkt = ip \o SetUDPChecksum(u, Complement(x)) \o p
  OBVIOUS
<1> HIDE DEF x, pkt
<1>17. IsSent(pkt, h, proto, Copied(4, dst), Pair(u, 3), p)
  BY <1>2, <1>3, <1>6, <1>8, <1>12, <1>13, <1>15, <1>16, SentIs, Zenon
<1>18. IsSent(pkt, h, proto, dst, want.dstPort, p)
  BY <1>5, <1>8, <1>17
<1> QED BY <1>1, <1>18 DEF h, proto, dst, p

------------------------------------------------------------------------------
(* What ReadFrom makes of a packet *)

\* The buffer that ReadFrom makes has room for both headers and ReadLen bytes:
\* what the raw socket copies into it has the whole of both headers.
LEMMA RawIs ==
  ASSUME NEW b \in Seq(Byte), NEW h \in Nat, h <= 60, Len(b) = h,
         NEW u \in Seq(Byte), Len(u) = 8, NEW p \in Seq(Byte), ReadLen \in Nat,
         NEW m, m = 60 + 8 + ReadLen - h - 8
  PROVE  SameJoin(Raw(b \o (u \o p)), b, u, Upto(m, p))
<1> DEFINE t == u \o p
           pkt == b \o t
           N == 60 + 8 + ReadLen
           n == Len(p)
           q == Upto(m, p)
           j == Len(q)
           t2 == u \o q
           c == b \o t2
           r == Upto(N, pkt)
<1>1. N \in Nat /\ m \in Nat /\ N = h + (8 + m) /\ n \in Nat
  BY LenProperties
<1>2. Raw(pkt) = r
  BY DEF Raw, IPv4MaximumHeaderSize, UDPMinimumSize
<1> HIDE DEF N, n
<1>q. IsFirst(q, m, p)
  BY <1>1, UptoIs
<1>4. IsCat(t, u, p, 8, n)
  BY CatIs, Zenon DEF n
<1> HIDE DEF q, t
<1>3. /\ q \in Seq(Byte) /\ j \in Nat /\ (n <= m => q = p) /\ (n > m => j = m)
      /\ \A k \in 1 .. j : q[k] = p[k]
  BY <1>q DEF IsFirst, n
<1> HIDE DEF j
<1>5. IsCat(t2, u, q, 8, j)
  BY <1>3, CatIs, Zenon DEF j
<1>6. t \in Seq(Byte) /\ Len(t) = 8 + n
  BY <1>4 DEF IsCat
<1> HIDE DEF t2
<1>7. t2 \in Seq(Byte) /\ Len(t2) = 8 + j
  BY <1>5 DEF IsCat
<1>8. IsCat(pkt, b, t, h, 8 + n)
  BY <1>6, CatIs, Zenon
<1>9. IsCat(c, b, t2, h, 8 + j)
  BY <1>7, CatIs
<1> HIDE DEF pkt, c
<1>10. pkt \in Seq(Byte) /\ Len(pkt) = h + (8 + n) /\ c \in Seq(Byte) /\ Len(c) = h + (8 + j)
  BY <1>8, <1>9 DEF IsCat
<1>r. IsFirst(r, N, pkt)
  BY <1>1, <1>10, UptoIs
<1> HIDE DEF r
<1>11. /\ r \in Seq(Byte) /\ Len(r) \in Nat /\ (Len(pkt) <= N => r = pkt)
       /\ (Len(pkt) > N => Len(r) = N) /\ \A k \in 1 .. Len(r) : r[k] = pkt[k]
  BY <1>r DEF IsFirst
<1>12. CASE n <= m
  <2>1. Len(pkt) <= N
    BY <1>1, <1>10, <1>12
  <2>2. r = pkt /\ q = p
    BY <1>3, <1>11, <1>12, <2>1
  <2>3. c = pkt
    BY <2>2 DEF pkt, c, t2, t
  <2>4. Raw(pkt) = c
    BY <1>2, <2>2, <2>3
  <2> QED BY <2>4 DEF pkt, t, c, t2, q, SameJoin
<1>13. CASE n > m
  <2>1. Len(pkt) > N
    BY <1>1, <1>10, <1>13
  <2>2. Len(r) = N /\ j = m /\ Len(c) = N
    BY <1>1, <1>3, <1>10, <1>11, <1>13, <2>1
  <2>3. ASSUME NEW k \in 1 .. N PROVE pkt[k] = c[k]
    <3>1. CASE k \in 1 .. h
      BY <1>8, <1>9, <3>1 DEF IsCat
    <3>2. CASE k \notin 1 .. h
      <4> DEFINE i == k - h
      <4>1. i \in 1 .. 8 + m /\ h + i = k /\ i \in 1 .. 8 + n /\ i \in 1 .. 8 + j
        BY <1>1, <1>13, <2>2, <3>2
      <4> HIDE DEF i
      <4>2. pkt[h + i] = t[i] /\ c[h + i] = t2[i]
        BY <1>8, <1>9, <4>1 DEF IsCat
      <4>3. t[i] = t2[i]
        <5>1. CASE i \in 1 .. 8
          BY <1>4, <1>5, <5>1, Zenon DEF IsCat
        <5>2. CASE i \notin 1 .. 8
          <6> DEFINE l == i - 8
          <6>1. l \in 1 .. n /\ l \in 1 .. j /\ 8 + l = i
            BY <1>1, <1>3, <4>1, <5>2
          <6> HIDE DEF l
          <6>2. t[8 + l] = p[l] /\ t2[8 + l] = q[l]
            BY <1>4, <1>5, <6>1 DEF IsCat
          <6> QED BY <1>3, <6>1, <6>2
        <5> QED BY <5>1, <5>2
      <4> QED BY <4>1, <4>2, <4>3, Zenon
    <3> QED BY <3>1, <3>2
  <2>4. \A k \in 1 .. N : r[k] = c[k]
    BY <1>11, <2>2, <2>3, Zenon
  <2>5. r = c
    BY <1>10, <1>11, <2>2, <2>4, SeqEqual
  <2>6. Raw(pkt) = c
    BY <1>2, <2>5
  <2> QED BY <2>6 DEF pkt, t, c, t2, q, SameJoin
<1> QED BY <1>1, <1>12, <1>13

\* What ReadFrom finds in r: both headers, the protocol and, of a datagram, the
\* address it was sent to and as much of the payload p as it returns.
ReadsAs(r, proto, dst, port, p) ==
  /\ HasHeaders(r)
  /\ IsUDP(r) <=> proto = UDPProtocolNumber
  /\ addrOf(r) = [ip |-> dst, port |-> port]
  /\ Upto(ReadLen, ReadAll(r)) = Upto(ReadLen, p)

\* That is what it finds in a packet that was sent, whether or not its buffer
\* holds the whole payload.
LEMMA SentReads ==
  ASSUME NEW pkt, NEW h, NEW proto, NEW dst, NEW port, NEW p,
         IsSent(pkt, h, proto, dst, port, p), ReadLen \in Nat
  PROVE  pkt \in Seq(Byte) /\ ReadsAs(Raw(pkt), proto, dst, port, p)
<1>0. proto \in Byte /\ p \in Seq(Byte) /\ dst \in Seq(Byte)
  BY DEF IsSent
<1>1. PICK b, total, src, u :
        /\ IsIPHdr(b, h, total, proto, src, dst)
        /\ u \in Seq(Byte) /\ Len(u) = 8 /\ Pair(u, 3) = port
        /\ pkt = b \o (u \o p)
  BY Zenon DEF IsSent
<1>2. b \in Seq(Byte) /\ Len(b) = h /\ h \in Nat /\ h >= 20 /\ h <= 60
  BY <1>1, HdrLength DEF IsIPHdr
<1> DEFINE m == 60 + 8 + ReadLen - h - 8
           q == Upto(m, p)
           t == u \o q
           r == b \o t
<1>3. pkt \in Seq(Byte)
  <2>1. u \o p \in Seq(Byte)
    BY <1>0, <1>1, DatagramIs
  <2> QED BY <1>1, <1>2, <2>1, PartsOfCat
<1>5. m \in Nat /\ ReadLen <= m /\ m = 60 + 8 + ReadLen - h - 8
  BY <1>2
<1> HIDE DEF m
<1>4. Raw(pkt) = r
  <2>1. SameJoin(Raw(b \o (u \o p)), b, u, Upto(m, p))
    BY <1>0, <1>1, <1>2, <1>5, RawIs
  <2> QED BY <1>1, <2>1 DEF SameJoin
<1>6. q \in Seq(Byte)
  BY <1>0, <1>5, UptoIs DEF IsFirst
<1>7. Upto(ReadLen, q) = Upto(ReadLen, p)
  BY <1>0, <1>5, UptoUpto
<1> HIDE DEF q
<1>8. /\ t \in Seq(Byte) /\ Len(t) = 8 + Len(q) /\ UDPPayload(t) = q
      /\ DestinationPort(t) = Pair(u, 3)
  BY <1>1, <1>6, DatagramIs
<1>9. Len(q) \in Nat
  BY <1>6, LenProperties
<1> HIDE DEF t
<1>10. IsPacket(r, b, t)
  BY <1>1, <1>8, PacketIs
<1> HIDE DEF r
<1>11. /\ r # <<>> /\ Len(r) = h + Len(t) /\ HeaderLength(r) = h
       /\ ipHdr(r) = b /\ AfterIP(r) = t
  BY <1>2, <1>10 DEF IsPacket
<1>12. HasIPHdr(r) /\ HasUDPHdr(r)
  BY <1>2, <1>8, <1>9, <1>11 DEF HasIPHdr, HasUDPHdr, UDPMinimumSize
<1>13. IsUDP(r) <=> proto = UDPProtocolNumber
  BY <1>1, <1>11 DEF IsUDP, IsIPHdr
<1>14. addrOf(r) = [ip |-> dst, port |-> port]
  BY <1>1, <1>8, <1>11 DEF addrOf, IsIPHdr
<1>15. Upto(ReadLen, ReadAll(r)) = Upto(ReadLen, p)
  BY <1>7, <1>8, <1>11 DEF ReadAll
<1>16. ReadsAs(r, proto, dst, port, p)
  BY <1>12, <1>13, <1>14, <1>15 DEF ReadsAs, HasHeaders
<1> QED BY <1>3, <1>4, <1>16

\* In a packet that was cut short ReadFrom finds no datagram.
LEMMA CutReads ==
  ASSUME NEW pkt, NEW h, NEW proto, NEW dst, NEW port, NEW p,
         IsSent(pkt, h, proto, dst, port, p), ReadLen \in Nat, NEW n \in Nat, n < h + 8
  PROVE  /\ Upto(n, pkt) \in Seq(Byte)
         /\ ~(HasHeaders(Raw(Upto(n, pkt))) /\ IsUDP(Raw(Upto(n, pkt))))
<1> DEFINE c == Upto(n, pkt)
           N == 60 + 8 + ReadLen
           r == Upto(N, c)
<1>0. pkt \in Seq(Byte) /\ N \in Nat
  BY SentReads
<1>1. Raw(c) = r
  BY DEF Raw, IPv4MaximumHeaderSize, UDPMinimumSize
<1>2. IsFirst(c, n, pkt)
  BY <1>0, UptoIs
<1> HIDE DEF c, N
<1>3. c \in Seq(Byte) /\ Len(c) \in Nat /\ Len(c) <= n /\ \A k \in 1 .. Len(c) : c[k] = pkt[k]
  BY <1>2 DEF IsFirst
<1>4. IsFirst(r, N, c)
  BY <1>0, <1>3, UptoIs
<1> HIDE DEF r
<1>5. /\ r \in Seq(Byte) /\ Len(r) \in Nat /\ Len(r) <= Len(c)
      /\ \A k \in 1 .. Len(r) : r[k] = c[k]
  BY <1>4 DEF IsFirst
<1>6. HeaderLength(pkt) = h /\ h \in Nat
  <2>1. PICK b, total, src, u :
          /\ IsIPHdr(b, h, total, proto, src, dst)
          /\ u \in Seq(Byte) /\ Len(u) = 8
          /\ pkt = b \o (u \o p)
    BY Zenon DEF IsSent
  <2> DEFINE t == u \o p
  <2>2. t \in Seq(Byte)
    BY <2>1, DatagramIs DEF IsSent
  <2>3. pkt = b \o t
    BY <2>1
  <2> HIDE DEF t
  <2>4. IsPacket(pkt, b, t)
    BY <2>1, <2>2, <2>3, PacketIs
  <2> QED BY <2>1, <2>4, HdrLength DEF IsPacket, IsIPHdr
<1>7. SUFFICES ASSUME HasIPHdr(r), HasUDPHdr(r) PROVE FALSE
  BY <1>1, <1>3, <1>7 DEF c, HasHeaders
<1>8. r # <<>> /\ Len(r) >= HeaderLength(r) /\ Len(AfterIP(r)) >= 8
  BY <1>7 DEF HasIPHdr, HasUDPHdr, UDPMinimumSize
<1>9. 1 \in 1 .. Len(r) /\ 1 \in 1 .. Len(c)
  <2>1. Len(r) # 0
    BY <1>5, <1>8, EmptySeq
  <2> QED BY <1>3, <1>5, <2>1
<1>10. r[1] = pkt[1]
  BY <1>3, <1>5, <1>9
<1>11. HeaderLength(r) = h
  BY <1>6, <1>10 DEF HeaderLength
<1>12. h \in 0 .. Len(r)
  BY <1>5, <1>6, <1>8, <1>11
<1>13. Len(SubSeq(r, h + 1, Len(r))) = Len(r) - h
  BY <1>5, <1>12, CutAfter
<1>14. Len(AfterIP(r)) = Len(r) - h
  BY <1>11, <1>13, Zenon DEF AfterIP
<1> QED BY <1>3, <1>5, <1>6, <1>8, <1>14

------------------------------------------------------------------------------
(* The inductive invariant *)

Datagrams == [ip : Seq(Byte), port : Uint16, payload : Seq(Byte)]

\* The bytes of a packet are what its sender meant: one that was not cut short
\* verifies, and ReadFrom finds both headers in it; a datagram it takes for one,
\* to the sender's address and with the sender's payload, and nothing else.
IsEntry(p) ==
  LET r == Raw(p.bytes) IN
  /\ p.of = CutShort => ~(HasHeaders(r) /\ IsUDP(r))
  /\ p.of # CutShort => Verifies(p.bytes) /\ HasHeaders(r)
  /\ p.of = NotUDP => ~IsUDP(r)
  /\ p.of \in Datagrams =>
       /\ Len(p.of.ip) = 4
       /\ IsUDP(r)
       /\ addrOf(r) = [ip |-> p.of.ip, port |-> p.of.port]
       /\ Upto(ReadLen, ReadAll(r)) = Upto(ReadLen, p.of.payload)

\* What the socket may hold.
Entries ==
  {p \in [bytes : Seq(Byte), of : Datagrams \cup {NotUDP, CutShort}] : IsEntry(p)}

\* The packet being built has the fields it was last given.
DraftInv ==
  /\ draft \in [ip : Seq(Byte), udp : Seq(Byte)]
  /\ draft # NoDraft => IsDraft(draft, want)
  /\ packets \in 0 .. MaxPackets
  /\ edits \in 0 .. MaxEdits

\* A call of ReadFrom returns nothing while it runs.
ReaderInv ==
  /\ pc \in {"idle", "reading", "panic"}
  /\ pc = "reading" => ret = NoResult
  /\ ret \in {NoResult, ReadError} \/ (ret.ip \in Seq(Byte) /\ ret.payload \in Seq(Byte))

\* What is in the socket is what was meant, what is being built has the fields
\* that were set, and a call that runs has returned nothing.
Inv ==
  /\ bound \in Bounds
  /\ queue \in Seq(Entries)
  /\ ReaderInv
  /\ DraftInv

\* The names of what is no datagram are no datagrams.
LEMMA NoDatagrams ==
  ReadLen \in Nat /\ NotUDP \notin Datagrams /\ CutShort \notin Datagrams /\ NotUDP # CutShort
BY UDPConnAssumption DEF Datagrams

\* A packet that was sent, with what it means.
LEMMA EntrySent ==
  ASSUME NEW pkt, NEW h, NEW dst, NEW port \in Uint16, NEW p,
         IsSent(pkt, h, UDPProtocolNumber, dst, port, p)
  PROVE  [bytes |-> pkt, of |-> Datagram(dst, port, p)] \in Entries
<1> DEFINE d == Datagram(dst, port, p)
           e == [bytes |-> pkt, of |-> d]
           r == Raw(pkt)
<1>1. dst \in Seq(Byte) /\ Len(dst) = 4 /\ p \in Seq(Byte) /\ Verifies(pkt)
  BY DEF IsSent
<1>2. pkt \in Seq(Byte) /\ ReadsAs(r, UDPProtocolNumber, dst, port, p)
  BY NoDatagrams, SentReads
<1>3. d \in Datagrams /\ d.ip = dst /\ d.port = port /\ d.payload = p
  BY <1>1 DEF Datagram, Datagrams
<1> HIDE DEF d, r
<1>4. d # NotUDP /\ d # CutShort
  BY <1>3, NoDatagrams
<1>5. e.bytes = pkt /\ e.of = d /\ e \in [bytes : Seq(Byte), of : Datagrams \cup {NotUDP, CutShort}]
  BY <1>2, <1>3
<1> HIDE DEF e
<1>6. IsEntry(e)
  BY <1>1, <1>2, <1>3, <1>4, <1>5 DEF IsEntry, ReadsAs, r
<1>7. e \in Entries
  BY <1>5, <1>6 DEF Entries
<1> QED BY <1>7 DEF e, d

\* A packet of another protocol.
LEMMA EntryOther ==
  ASSUME NEW pkt, NEW h, NEW proto, NEW dst, NEW port, NEW p,
         IsSent(pkt, h, proto, dst, port, p), proto # UDPProtocolNumber
  PROVE  [bytes |-> pkt, of |-> NotUDP] \in Entries
<1> DEFINE e == [bytes |-> pkt, of |-> NotUDP]
           r == Raw(pkt)
<1>1. Verifies(pkt)
  BY DEF IsSent
<1>2. pkt \in Seq(Byte) /\ ReadsAs(r, proto, dst, port, p)
  BY NoDatagrams, SentReads
<1> HIDE DEF r
<1>3. e.bytes = pkt /\ e.of = NotUDP /\ e \in [bytes : Seq(Byte), of : Datagrams \cup {NotUDP, CutShort}]
  BY <1>2
<1> HIDE DEF e
<1>4. IsEntry(e)
  BY <1>1, <1>2, <1>3, NoDatagrams DEF IsEntry, ReadsAs, r
<1>5. e \in Entries
  BY <1>3, <1>4 DEF Entries
<1> QED BY <1>5 DEF e

\* A packet that was cut before the end of its headers.
LEMMA EntryCut ==
  ASSUME NEW pkt, NEW h, NEW proto, NEW dst, NEW port, NEW p,
         IsSent(pkt, h, proto, dst, port, p), NEW n \in Nat, n < h + 8
  PROVE  [bytes |-> Upto(n, pkt), of |-> CutShort] \in Entries
<1> DEFINE c == Upto(n, pkt)
           e == [bytes |-> c, of |-> CutShort]
           r == Raw(c)
<1>1. c \in Seq(Byte) /\ ~(HasHeaders(r) /\ IsUDP(r))
  BY NoDatagrams, CutReads
<1> HIDE DEF c, r
<1>2. e.bytes = c /\ e.of = CutShort /\ e \in [bytes : Seq(Byte), of : Datagrams \cup {NotUDP, CutShort}]
  BY <1>1
<1> HIDE DEF e
<1>3. IsEntry(e)
  BY <1>1, <1>2, NoDatagrams DEF IsEntry, r
<1>4. e \in Entries
  BY <1>2, <1>3 DEF Entries
<1> QED BY <1>4 DEF e, c

\* What arrives goes to the end of the socket's queue.
LEMMA ArrivesInv ==
  ASSUME queue \in Seq(Entries), packets \in 0 .. MaxPackets,
         NEW b, NEW of, [bytes |-> b, of |-> of] \in Entries, Arrives(b, of)
  PROVE  queue' \in Seq(Entries) /\ packets' \in 0 .. MaxPackets
<1>1. MaxPackets \in Nat
  BY UDPConnAssumption
<1> DEFINE e == [bytes |-> b, of |-> of]
<1>2. queue' = Append(queue, e) /\ packets' = packets + 1 /\ packets < MaxPackets
  BY DEF Arrives
<1>3. e \in Entries
  OBVIOUS
<1> HIDE DEF e
<1> QED BY <1>1, <1>2, <1>3

\* A header being edited still has its fields, and so has the other one.
LEMMA EditedIP ==
  ASSUME DraftInv, draft # NoDraft, NEW x \in DraftFields, NEW b, HoldsIP(b, x),
         x.ihl = want.ihl, x.srcPort = want.srcPort, x.dstPort = want.dstPort,
         x.length = want.length, x.checksum = want.checksum, x.payload = want.payload,
         EditIP(b, x), UNCHANGED packets
  PROVE  DraftInv'
<1>1. /\ draft' = [draft EXCEPT !.ip = b] /\ want' = x /\ edits' = edits + 1 /\ edits < MaxEdits
  BY DEF EditIP, Edit
<1>2. MaxEdits \in Nat
  BY UDPConnAssumption
<1>3. /\ draft \in [ip : Seq(Byte), udp : Seq(Byte)] /\ edits \in 0 .. MaxEdits
      /\ packets \in 0 .. MaxPackets
  BY DEF DraftInv
<1>4. draft'.ip = b /\ draft'.udp = draft.udp /\ b \in Seq(Byte)
  BY <1>1, <1>3 DEF HoldsIP
<1>5. draft' \in [ip : Seq(Byte), udp : Seq(Byte)]
  BY <1>1, <1>3, <1>4, Zenon
<1>6. IsDraft(draft, want)
  BY DEF DraftInv
<1>7. HoldsUDP(draft.udp, x)
  BY <1>6 DEF IsDraft, HoldsUDP
<1>8. IsDraft(draft', x)
  BY <1>4, <1>6, <1>7 DEF IsDraft
<1>9. edits' \in 0 .. MaxEdits
  BY <1>1, <1>2, <1>3
<1> QED BY <1>1, <1>3, <1>5, <1>8, <1>9 DEF DraftInv

\* The same for the UDP header.
LEMMA EditedUDP ==
  ASSUME DraftInv, draft # NoDraft, NEW x \in DraftFields, NEW u, HoldsUDP(u, x),
         HoldsIP(draft.ip, x), x.ihl = want.ihl,
         x.length = want.length, x.payload = want.payload,
         EditUDP(u, x), UNCHANGED packets
  PROVE  DraftInv'
<1>1. /\ draft' = [draft EXCEPT !.udp = u] /\ want' = x /\ edits' = edits + 1 /\ edits < MaxEdits
  BY DEF EditUDP, Edit
<1>2. MaxEdits \in Nat
  BY UDPConnAssumption
<1>3. /\ draft \in [ip : Seq(Byte), udp : Seq(Byte)] /\ edits \in 0 .. MaxEdits
      /\ packets \in 0 .. MaxPackets
  BY DEF DraftInv
<1>4. draft'.udp = u /\ draft'.ip = draft.ip /\ u \in Seq(Byte)
  BY <1>1, <1>3 DEF HoldsUDP
<1>5. draft' \in [ip : Seq(Byte), udp : Seq(Byte)]
  BY <1>1, <1>3, <1>4
<1>6. IsDraft(draft, want)
  BY DEF DraftInv
<1>8. IsDraft(draft', x)
  BY <1>4, <1>6 DEF IsDraft
<1>9. edits' \in 0 .. MaxEdits
  BY <1>1, <1>2, <1>3
<1> QED BY <1>1, <1>3, <1>5, <1>8, <1>9 DEF DraftInv

\* The fields a setter does not name stay.
SameRest(x, w) ==
  /\ x.ihl = w.ihl /\ x.srcPort = w.srcPort /\ x.dstPort = w.dstPort
  /\ x.length = w.length /\ x.checksum = w.checksum /\ x.payload = w.payload

\* Every setter keeps both headers those of the fields.
LEMMA SettersInv ==
  ASSUME DraftInv, Setters, UNCHANGED packets
  PROVE  DraftInv'
<1>0. draft # NoDraft
  BY Zenon DEF Setters, EditIP, EditUDP, Edit
<1>1. IsDraft(draft, want)
  BY <1>0 DEF DraftInv
<1>2. want \in DraftFields /\ HoldsIP(draft.ip, want) /\ HoldsUDP(draft.udp, want)
  BY <1>1 DEF IsDraft
<1>3. ASSUME NEW x \in DraftFields, NEW b, HoldsIP(b, x), SameRest(x, want), EditIP(b, x)
      PROVE  DraftInv'
  BY <1>0, <1>3, EditedIP DEF SameRest
<1>4. ASSUME NEW v \in TOSs,
             EditIP(SetTOS(draft.ip, v), [want EXCEPT !.tos = v])
      PROVE  DraftInv'
  <2> DEFINE x == [want EXCEPT !.tos = v]
             b == SetTOS(draft.ip, v)
  <2>1. v \in Byte
    BY UDPConnAssumption
  <2>2. x \in DraftFields /\ HoldsIP(b, x)
    BY <1>2, <2>1, SetTOSHolds
  <2>3. SameRest(x, want)
    BY <1>2 DEF SameRest, DraftFields
  <2>4. EditIP(b, x)
    BY <1>4
  <2> HIDE DEF x, b
  <2> QED BY <1>3, <2>2, <2>3, <2>4
<1>5. ASSUME NEW v \in IDs,
             EditIP(SetID(draft.ip, v), [want EXCEPT !.id = v])
      PROVE  DraftInv'
  <2> DEFINE x == [want EXCEPT !.id = v]
             b == SetID(draft.ip, v)
  <2>1. v \in Uint16
    BY UDPConnAssumption
  <2>2. x \in DraftFields /\ HoldsIP(b, x)
    BY <1>2, <2>1, SetIDHolds
  <2>3. SameRest(x, want)
    BY <1>2 DEF SameRest, DraftFields
  <2>4. EditIP(b, x)
    BY <1>5
  <2> HIDE DEF x, b
  <2> QED BY <1>3, <2>2, <2>3, <2>4
<1>6. ASSUME NEW f \in Fragments,
             EditIP(SetFlagsFragmentOffset(draft.ip, f.flags, f.offset), [want EXCEPT !.flags = f.flags, !.fragmentOffset = f.offset])
      PROVE  DraftInv'
  <2> DEFINE x == [want EXCEPT !.flags = f.flags, !.fragmentOffset = f.offset]
             b == SetFlagsFragmentOffset(draft.ip, f.flags, f.offset)
  <2>1. f.flags \in 0 .. 7 /\ f.offset \in FragmentOffsets
    BY UDPConnAssumption
  <2>2. x \in DraftFields /\ HoldsIP(b, x)
    BY <1>2, <2>1, SetFragmentHolds, Zenon
  <2>3. SameRest(x, want)
    BY <1>2 DEF SameRest, DraftFields
  <2>4. EditIP(b, x)
    BY <1>6
  <2> HIDE DEF x, b
  <2> QED BY <1>3, <2>2, <2>3, <2>4
<1>a. ASSUME NEW ip \in DraftIPs PROVE To4(ip) \in [1 .. 4 -> Byte]
  <2>1. ip \in Seq(Byte) /\ To4(ip) # Nil
    BY UDPConnAssumption
  <2>2. To4(ip) \in Seq(Byte) /\ Len(To4(ip)) = 4
    BY <2>1, To4Type
  <2> QED BY <2>2, LenProperties, Zenon
<1>7. ASSUME NEW ip \in DraftIPs,
             EditIP(SetSourceAddress(draft.ip, ip), [want EXCEPT !.srcAddr = To4(ip)])
      PROVE  DraftInv'
  <2> DEFINE x == [want EXCEPT !.srcAddr = To4(ip)]
             b == SetSourceAddress(draft.ip, ip)
  <2>1. To4(ip) \in [1 .. 4 -> Byte]
    BY <1>a
  <2>2. x \in DraftFields /\ HoldsIP(b, x)
    BY <1>2, <2>1, SetSourceHolds
  <2>3. SameRest(x, want)
    BY <1>2 DEF SameRest, DraftFields
  <2>4. EditIP(b, x)
    BY <1>7
  <2> HIDE DEF x, b
  <2> QED BY <1>3, <2>2, <2>3, <2>4
<1>8. ASSUME NEW ip \in DraftIPs,
             EditIP(SetDestinationAddress(draft.ip, ip), [want EXCEPT !.dstAddr = To4(ip)])
      PROVE  DraftInv'
  <2> DEFINE x == [want EXCEPT !.dstAddr = To4(ip)]
             b == SetDestinationAddress(draft.ip, ip)
  <2>1. To4(ip) \in [1 .. 4 -> Byte]
    BY <1>a
  <2>2. x \in DraftFields /\ HoldsIP(b, x)
    BY <1>2, <2>1, SetDestinationHolds
  <2>3. SameRest(x, want)
    BY <1>2 DEF SameRest, DraftFields
  <2>4. EditIP(b, x)
    BY <1>8
  <2> HIDE DEF x, b
  <2> QED BY <1>3, <2>2, <2>3, <2>4
<1>9. ASSUME NEW v \in DraftPorts,
             EditUDP(SetSourcePort(draft.udp, v), [want EXCEPT !.srcPort = v])
      PROVE  DraftInv'
  <2> DEFINE x == [want EXCEPT !.srcPort = v]
             u == SetSourcePort(draft.udp, v)
  <2>1. v \in Uint16
    BY UDPConnAssumption
  <2>2. x \in DraftFields /\ HoldsUDP(u, x)
    BY <1>2, <2>1, SetSourcePortHolds
  <2>3. /\ x.ihl = want.ihl /\ x.tos = want.tos /\ x.totalLength = want.totalLength
        /\ x.id = want.id /\ x.flags = want.flags /\ x.fragmentOffset = want.fragmentOffset
        /\ x.ttl = want.ttl /\ x.protocol = want.protocol /\ x.checksum = want.checksum
        /\ x.srcAddr = want.srcAddr /\ x.dstAddr = want.dstAddr
        /\ x.length = want.length /\ x.payload = want.payload
    BY <1>2 DEF DraftFields
  <2>4. EditUDP(u, x)
    BY <1>9
  <2> HIDE DEF x, u
  <2>5. HoldsIP(draft.ip, x)
    BY <1>2, <2>3 DEF HoldsIP
  <2> QED BY <1>0, <2>2, <2>3, <2>4, <2>5, EditedUDP
<1>10. ASSUME NEW v \in DraftPorts,
             EditUDP(SetDestinationPort(draft.udp, v), [want EXCEPT !.dstPort = v])
      PROVE  DraftInv'
  <2> DEFINE x == [want EXCEPT !.dstPort = v]
             u == SetDestinationPort(draft.udp, v)
  <2>1. v \in Uint16
    BY UDPConnAssumption
  <2>2. x \in DraftFields /\ HoldsUDP(u, x)
    BY <1>2, <2>1, SetDestinationPortHolds
  <2>3. /\ x.ihl = want.ihl /\ x.tos = want.tos /\ x.totalLength = want.totalLength
        /\ x.id = want.id /\ x.flags = want.flags /\ x.fragmentOffset = want.fragmentOffset
        /\ x.ttl = want.ttl /\ x.protocol = want.protocol /\ x.checksum = want.checksum
        /\ x.srcAddr = want.srcAddr /\ x.dstAddr = want.dstAddr
        /\ x.length = want.length /\ x.payload = want.payload
    BY <1>2 DEF DraftFields
  <2>4. EditUDP(u, x)
    BY <1>10
  <2> HIDE DEF x, u
  <2>5. HoldsIP(draft.ip, x)
    BY <1>2, <2>3 DEF HoldsIP
  <2> QED BY <1>0, <2>2, <2>3, <2>4, <2>5, EditedUDP
<1> QED BY <1>4, <1>5, <1>6, <1>7, <1>8, <1>9, <1>10, Zenon DEF Setters

\* Every initial state satisfies the invariant.
LEMMA InitInv == Init => Inv
<1> SUFFICES ASSUME Init PROVE Inv
  OBVIOUS
<1>1. MaxPackets \in Nat /\ MaxEdits \in Nat
  BY UDPConnAssumption
<1>2. queue \in Seq(Entries)
  BY DEF Init
<1>3. ReaderInv
  BY DEF Init, ReaderInv
<1>4. DraftInv
  BY <1>1 DEF Init, DraftInv, NoDraft
<1> QED BY <1>2, <1>3, <1>4 DEF Inv, Init

\* A new draft has the fields it is made from.
LEMMA NewDraftInv ==
  ASSUME DraftInv, NEW d \in Drafts, NewDraft(d), UNCHANGED packets
  PROVE  DraftInv'
<1>1. /\ d \in DraftFields /\ d.length = 8 + Len(d.payload) /\ d.ihl + d.length \in Uint16
  BY UDPConnAssumption DEF UDPMinimumSize
<1> DEFINE b == EncodeIPv4(Zeros(d.ihl), d)
           u == EncodeUDP(d)
<1>2. draft' = [ip |-> b, udp |-> u] /\ want' = d /\ edits' = edits
  BY DEF NewDraft
<1>3. HoldsIP(b, d)
  BY <1>1, DraftIsFields, EncodeIPIs
<1>4. HoldsUDP(u, d)
  BY <1>1, DraftIsFields, EncodeUDPIs DEF IPFields
<1> HIDE DEF b, u
<1>5. draft'.ip = b /\ draft'.udp = u
  BY <1>2
<1>6. IsDraft(draft', d)
  BY <1>1, <1>3, <1>4, <1>5 DEF IsDraft
<1>7. draft' \in [ip : Seq(Byte), udp : Seq(Byte)]
  BY <1>2, <1>3, <1>4 DEF HoldsIP, HoldsUDP
<1> QED BY <1>2, <1>6, <1>7 DEF DraftInv

\* A draft that is sent arrives as what its fields say, or cut short.
LEMMA SendDraftInv ==
  ASSUME Inv, SendDraft
  PROVE  queue' \in Seq(Entries) /\ DraftInv'
<1>1. IsDraft(draft, want) /\ queue \in Seq(Entries) /\ packets \in 0 .. MaxPackets
  BY DEF SendDraft, Inv, DraftInv
<1> DEFINE pkt == Packet
           d == Datagram(want.dstAddr, want.dstPort, want.payload)
           of == IF want.protocol = UDPProtocolNumber THEN d ELSE NotUDP
<1>2. IsSent(pkt, want.ihl, want.protocol, want.dstAddr, want.dstPort, want.payload)
  BY <1>1, DraftSent
<1>3. want.dstPort \in Uint16 /\ Len(draft.ip) = want.ihl
  BY <1>1, DraftIsFields DEF IsDraft, HoldsIP
<1> HIDE DEF pkt
<1>4. [bytes |-> pkt, of |-> of] \in Entries
  <2>1. CASE want.protocol = UDPProtocolNumber
    <3>1. [bytes |-> pkt, of |-> d] \in Entries
      BY <1>2, <1>3, <2>1, EntrySent
    <3> QED BY <2>1, <3>1
  <2>2. CASE want.protocol # UDPProtocolNumber
    <3>1. [bytes |-> pkt, of |-> NotUDP] \in Entries
      BY <1>2, <2>2, EntryOther
    <3> QED BY <2>2, <3>1
  <2> QED BY <2>1, <2>2
<1>5. ASSUME NEW n \in CutAt, n < Len(draft.ip) + UDPMinimumSize
      PROVE  [bytes |-> Upto(n, pkt), of |-> CutShort] \in Entries
  <2>1. n \in Nat /\ n < want.ihl + 8
    BY <1>3, <1>5, UDPConnAssumption DEF UDPMinimumSize
  <2> QED BY <1>2, <2>1, EntryCut
<1> HIDE DEF of
<1>6. /\ Arrives(pkt, of) \/ \E n \in CutAt : /\ n < Len(draft.ip) + UDPMinimumSize
                                              /\ Arrives(Upto(n, pkt), CutShort)
      /\ draft' = NoDraft /\ edits' = 0
  BY DEF SendDraft, pkt, of
<1>7. queue' \in Seq(Entries) /\ packets' \in 0 .. MaxPackets
  <2>1. CASE Arrives(pkt, of)
    BY <1>1, <1>4, <2>1, ArrivesInv
  <2>2. ASSUME NEW n \in CutAt, n < Len(draft.ip) + UDPMinimumSize, Arrives(Upto(n, pkt), CutShort)
        PROVE  queue' \in Seq(Entries) /\ packets' \in 0 .. MaxPackets
    BY <1>1, <1>5, <2>2, ArrivesInv, Zenon
  <2> QED BY <1>6, <2>1, <2>2
<1>8. MaxEdits \in Nat
  BY UDPConnAssumption
<1>9. DraftInv'
  BY <1>6, <1>7, <1>8 DEF DraftInv, NoDraft
<1> QED BY <1>7, <1>9

\* What WriteTo sends arrives as the datagram it was given.
LEMMA WriterInv ==
  ASSUME Inv, NEW source \in Sources, NEW b \in Payloads, NEW addr \in Addrs, WriteTo(source, b, addr)
  PROVE  queue' \in Seq(Entries) /\ packets' \in 0 .. MaxPackets
<1>1. /\ b \in Seq(Byte) /\ 20 + 8 + Len(b) \in Uint16
      /\ addr \in UDPAddrs /\ source \in UDPAddrs
  BY UDPConnAssumption DEF IPv4MinimumSize, UDPMinimumSize
<1> DEFINE pkt == udp4pkt(b, addr, source)
           dst == Copied(4, To4(addr.ip))
           d == Datagram(dst, addr.port, b)
<1>2. IsSent(pkt, 20, UDPProtocolNumber, dst, addr.port, b)
  BY <1>1, WriteToSent DEF UDPProtocolNumber
<1>3. addr.port \in Uint16
  BY <1>1 DEF UDPAddrs
<1>4. Arrives(pkt, d)
  BY HeadersAssumption DEF WriteTo
<1> HIDE DEF pkt, dst
<1>5. [bytes |-> pkt, of |-> d] \in Entries
  BY <1>2, <1>3, EntrySent
<1> HIDE DEF d
<1> QED BY <1>4, <1>5, ArrivesInv DEF Inv, DraftInv

\* The first element and the others.
LEMMA HeadTailProperties ==
  ASSUME NEW S, NEW s \in Seq(S), s # <<>>
  PROVE  /\ Head(s) \in S /\ Tail(s) \in Seq(S) /\ Len(Tail(s)) = Len(s) - 1
         /\ \A k \in 1 .. Len(Tail(s)) : Tail(s)[k] = s[k + 1]
OBVIOUS

\* A step of the reader takes packets from the front, and a call that it starts
\* or goes on with has no result.
LEMMA ReaderStepInv ==
  ASSUME Inv, CallRead \/ ReadFails \/ ReadFrom
  PROVE  queue' \in Seq(Entries) /\ ReaderInv'
<1>0. queue \in Seq(Entries) /\ ReaderInv
  BY DEF Inv
<1>1. CASE CallRead
  BY <1>0, <1>1 DEF CallRead, ReaderInv
<1>2. CASE ReadFails
  BY <1>0, <1>2 DEF ReadFails, ReaderInv
<1>3. CASE ReadFrom
  <2> DEFINE e == Head(queue)
             r == Raw(e.bytes)
  <2>1. queue # <<>> /\ queue' = Tail(queue) /\ pc = "reading" /\ (Skip(r) \/ Return(r) \/ Panic(r))
    BY <1>3 DEF ReadFrom
  <2>2. e \in Entries /\ queue' \in Seq(Entries)
    BY <1>0, <2>1, HeadTailProperties
  <2> HIDE DEF e
  <2>3. CASE Skip(r)
    BY <1>0, <2>2, <2>3 DEF Skip, readerVars, ReaderInv
  <2>4. CASE Panic(r)
    BY <1>0, <2>2, <2>4 DEF Panic, ReaderInv
  <2>5. CASE Return(r)
    <3>1. e.of \in Datagrams /\ IsEntry(e)
      <4>1. IsEntry(e) /\ e.of \in Datagrams \cup {NotUDP, CutShort}
        BY <2>2 DEF Entries
      <4>2. HasHeaders(r) /\ IsUDP(r)
        BY <2>5 DEF Return, Matches
      <4> QED BY <4>1, <4>2 DEF IsEntry
    <3>2. /\ e.of.ip \in Seq(Byte) /\ e.of.payload \in Seq(Byte)
          /\ addrOf(r) = [ip |-> e.of.ip, port |-> e.of.port]
          /\ Upto(ReadLen, ReadAll(r)) = Upto(ReadLen, e.of.payload)
      BY <3>1 DEF Datagrams, IsEntry
    <3>3. addrOf(r).ip = e.of.ip
      BY <3>2
    <3>4. Upto(ReadLen, e.of.payload) \in Seq(Byte)
      BY <3>2, NoDatagrams, UptoIs, Zenon DEF IsFirst
    <3>5. pc' = "idle" /\ ret' = Datagram(addrOf(r).ip, addrOf(r).port, Upto(ReadLen, ReadAll(r)))
      BY <2>5 DEF Return
    <3>6. ret'.ip \in Seq(Byte) /\ ret'.payload \in Seq(Byte)
      BY <3>2, <3>3, <3>4, <3>5 DEF Datagram
    <3>7. ReaderInv'
      BY <3>5, <3>6 DEF ReaderInv
    <3> QED BY <2>2, <3>7
  <2> QED BY <2>1, <2>3, <2>4, <2>5
<1> QED BY <1>1, <1>2, <1>3

\* Every step preserves the invariant.
LEMMA NextInv == Inv /\ [Next]_vars => Inv'
<1> SUFFICES ASSUME Inv, [Next]_vars PROVE Inv'
  OBVIOUS
<1>0. bound \in Bounds /\ queue \in Seq(Entries) /\ ReaderInv /\ DraftInv
  BY DEF Inv
<1>1. CASE UNCHANGED vars
  BY <1>0, <1>1 DEF vars, readerVars, draftVars, Inv, ReaderInv, DraftInv
<1>2. CASE Reader
  <2>1. queue' \in Seq(Entries) /\ ReaderInv'
    BY <1>2, ReaderStepInv DEF Reader
  <2>2. UNCHANGED <<bound, packets, draft, want, edits>>
    BY <1>2 DEF Reader, draftVars
  <2> QED BY <1>0, <2>1, <2>2 DEF Inv, DraftInv
<1>3. CASE Writer
  <2>1. PICK source \in Sources, b \in Payloads, addr \in Addrs : WriteTo(source, b, addr)
    BY <1>3 DEF Writer
  <2>2. queue' \in Seq(Entries) /\ packets' \in 0 .. MaxPackets
    BY <2>1, WriterInv
  <2>3. UNCHANGED <<bound, pc, ret, draft, want, edits>>
    BY <1>3 DEF Writer, readerVars, draftVars
  <2> QED BY <1>0, <2>2, <2>3 DEF Inv, DraftInv, ReaderInv
<1>4. CASE Builder
  <2>1. UNCHANGED <<bound, pc, ret>>
    BY <1>4 DEF Builder, readerVars
  <2>2. bound' \in Bounds /\ ReaderInv'
    BY <1>0, <2>1 DEF ReaderInv
  <2>3. CASE (\E d \in Drafts : NewDraft(d)) /\ UNCHANGED <<queue, packets>>
    BY <1>0, <2>2, <2>3, NewDraftInv DEF Inv
  <2>4. CASE Setters /\ UNCHANGED <<queue, packets>>
    BY <1>0, <2>2, <2>4, SettersInv DEF Inv
  <2>5. CASE SendDraft
    BY <2>2, <2>5, SendDraftInv DEF Inv
  <2> QED BY <1>4, <2>3, <2>4, <2>5 DEF Builder
<1> QED BY <1>1, <1>2, <1>3, <1>4 DEF Next

\* The invariant holds throughout.
THEOREM Invariant == Spec => []Inv
<1>1. Init => Inv
  BY InitInv
<1>2. Inv /\ [Next]_vars => Inv'
  BY NextInv
<1> QED BY <1>1, <1>2, PTL DEF Spec

\* Every state of the connection and of the packets is of its type, for every
\* payload, address and header that a program may use.
THEOREM TypeCorrect == Spec => []TypeOK
<1>1. Inv => TypeOK
  <2> SUFFICES ASSUME Inv PROVE TypeOK
    OBVIOUS
  <2>1. \A k \in DOMAIN queue : queue[k].bytes \in Seq(Byte)
    <3>1. queue \in Seq(Entries)
      BY DEF Inv
    <3>2. \A k \in DOMAIN queue : queue[k] \in Entries
      BY <3>1, LenProperties, ElementOfSeq
    <3> QED BY <3>2 DEF Entries
  <2> QED BY <2>1 DEF Inv, ReaderInv, DraftInv, TypeOK
<1> QED BY <1>1, Invariant, PTL

\* Whatever WriteTo is given and whatever headers a program builds with ipv4.go,
\* a receiver that verifies checksums and lengths takes the packet.
THEOREM SentVerify == Spec => []ChecksumsVerify
<1>1. Inv => ChecksumsVerify
  <2> SUFFICES ASSUME Inv, NEW k \in DOMAIN queue, queue[k].of # CutShort
               PROVE  Verifies(queue[k].bytes)
    BY DEF ChecksumsVerify, Verifies
  <2>1. queue \in Seq(Entries)
    BY DEF Inv
  <2>2. queue[k] \in Entries
    BY <2>1, LenProperties, ElementOfSeq
  <2> QED BY <2>2 DEF Entries, IsEntry
<1> QED BY <1>1, Invariant, PTL

\* Whatever setters of ipv4.go were called, and in whatever order, every getter
\* returns what its field was last given.
THEOREM FieldsReadBack == Spec => []HeadersReadBack
<1>1. Inv => HeadersReadBack
  <2> SUFFICES ASSUME Inv, draft # NoDraft PROVE HeadersReadBack
    BY DEF HeadersReadBack
  <2>1. IsDraft(draft, want)
    BY DEF Inv, DraftInv
  <2>2. want \in DraftFields /\ HoldsIP(draft.ip, want) /\ HoldsUDP(draft.udp, want)
    BY <2>1 DEF IsDraft
  <2>3. /\ IPFields(want) /\ want.srcAddr \in Seq(Byte) /\ Len(want.srcAddr) = 4
        /\ want.dstAddr \in Seq(Byte) /\ Len(want.dstAddr) = 4
    BY <2>2, DraftIsFields
  <2>4. GetIP(draft.ip, want)
    BY <2>2, <2>3, GettersIP
  <2>5. Copied(4, want.srcAddr) = want.srcAddr /\ Copied(4, want.dstAddr) = want.dstAddr
    BY <2>3, CopiedAddress
  <2>6. /\ SourcePort(draft.udp) = want.srcPort /\ DestinationPort(draft.udp) = want.dstPort
        /\ Length(draft.udp) = want.length /\ UDPChecksum(draft.udp) = want.checksum
    BY <2>2, GettersUDP
  <2> QED BY <2>4, <2>5, <2>6 DEF HeadersReadBack, GetIP
<1> QED BY <1>1, Invariant, PTL

\* ReadFrom panics only at a packet that was cut short: in every whole one, of
\* any length, the fields it reads are there.
THEOREM WholePacketsSafe == Spec => PanicsOnlyAtCutShort
<1>1. Inv /\ [Next]_vars => [pc' = "panic" /\ pc # "panic" => Head(queue).of = CutShort]_vars
  <2> SUFFICES ASSUME Inv, Next, pc' = "panic", pc # "panic" PROVE Head(queue).of = CutShort
    OBVIOUS
  <2>1. ReadFrom
    BY DEF Next, Reader, Writer, Builder, readerVars, CallRead, ReadFails
  <2> DEFINE e == Head(queue)
             r == Raw(e.bytes)
  <2>2. queue # <<>> /\ pc = "reading" /\ (Skip(r) \/ Return(r) \/ Panic(r))
    BY <2>1 DEF ReadFrom
  <2>3. ~HasHeaders(r)
    BY <2>2 DEF Skip, Return, Panic, readerVars
  <2>4. e \in Entries
    BY <2>2, HeadTailProperties DEF Inv
  <2> HIDE DEF e
  <2>5. e.of = CutShort
    BY <2>3, <2>4 DEF Entries, IsEntry
  <2> QED BY <2>5 DEF e
<1> QED BY <1>1, Invariant, PTL DEF Spec, PanicsOnlyAtCutShort

------------------------------------------------------------------------------
(* The refinement of DatagramPort *)

\* Wanted and Inbox, of a bound address and a queue.
WantedBy(a, p) ==
  /\ p.of \notin {NotUDP, CutShort}
  /\ a # NoAddr => p.of.port = a.port /\ (a.ip # Nil => p.of.ip = To4(a.ip))

Item(a, p) ==
  IF WantedBy(a, p) THEN <<[p.of EXCEPT !.payload = Upto(ReadLen, @)]>> ELSE <<>>

Items(a, q) == [k \in DOMAIN q |-> Item(a, q[k])]

\* The inbox is the items of the queue.
LEMMA InboxIs ==
  Inbox = Joined(Items(bound, queue)) /\ Inbox' = Joined(Items(bound', queue'))
<1>1. Items(bound, queue)
        = [k \in DOMAIN queue |->
             IF Wanted(queue[k]) THEN <<[queue[k].of EXCEPT !.payload = Upto(ReadLen, @)]>> ELSE <<>>]
  BY DEF Items, Item, Wanted, WantedBy
<1>2. Items(bound', queue')
        = [k \in DOMAIN queue' |->
             IF Wanted(queue[k])' THEN <<[queue'[k].of EXCEPT !.payload = Upto(ReadLen, @)]>> ELSE <<>>]
  BY DEF Items, Item, Wanted, WantedBy
<1> QED BY <1>1, <1>2 DEF Inbox

\* An item is at most one datagram, the one that was sent, cut to the buffer.
LEMMA ItemIs ==
  ASSUME NEW a, NEW e \in Entries
  PROVE  /\ Item(a, e) \in Seq(Datagrams)
         /\ WantedBy(a, e) =>
              /\ e.of \in Datagrams
              /\ Datagram(e.of.ip, e.of.port, Upto(ReadLen, e.of.payload)) \in Datagrams
              /\ Item(a, e) = <<Datagram(e.of.ip, e.of.port, Upto(ReadLen, e.of.payload))>>
         /\ ~WantedBy(a, e) => Item(a, e) = <<>>
<1>1. CASE ~WantedBy(a, e)
  BY <1>1 DEF Item
<1>2. CASE WantedBy(a, e)
  <2>1. e.of \in Datagrams
    BY <1>2 DEF WantedBy, Entries
  <2> DEFINE p == Upto(ReadLen, e.of.payload)
             d == Datagram(e.of.ip, e.of.port, p)
  <2>2. p \in Seq(Byte)
    BY <2>1, NoDatagrams, UptoIs DEF IsFirst, Datagrams
  <2>3. Item(a, e) = <<[e.of EXCEPT !.payload = p]>>
    BY <1>2 DEF Item
  <2> HIDE DEF p
  <2>4. [e.of EXCEPT !.payload = p] = d
    BY <2>1 DEF Datagram, Datagrams
  <2>5. d \in Datagrams
    BY <2>1, <2>2 DEF Datagram, Datagrams
  <2>6. Item(a, e) = <<d>>
    BY <2>3, <2>4
  <2> HIDE DEF d
  <2>7. Item(a, e) \in Seq(Datagrams)
    BY <2>5, <2>6
  <2> QED BY <1>2, <2>1, <2>5, <2>6, <2>7 DEF d, p
<1> QED BY <1>1, <1>2

\* The items of a queue.
LEMMA ItemsType ==
  ASSUME NEW a, NEW q \in Seq(Entries)
  PROVE  /\ Items(a, q) \in Seq(Seq(Datagrams)) /\ Len(Items(a, q)) = Len(q)
         /\ \A k \in 1 .. Len(q) : Items(a, q)[k] = Item(a, q[k])
<1> DEFINE W == Seq(Datagrams)
           s == Items(a, q)
<1>1. Len(q) \in Nat /\ DOMAIN q = 1 .. Len(q)
  BY LenProperties
<1>2. \A k \in 1 .. Len(q) : Item(a, q[k]) \in W
  BY ElementOfSeq, ItemIs
<1> HIDE DEF W
<1>3. s = [k \in 1 .. Len(q) |-> Item(a, q[k])]
  BY <1>1 DEF Items
<1>4. s \in [1 .. Len(q) -> W]
  BY <1>2, <1>3
<1> HIDE DEF s
<1>5. s \in Seq(W) /\ Len(s) = Len(q)
  BY <1>1, <1>4, ArrayIsSeq
<1>6. \A k \in 1 .. Len(q) : s[k] = Item(a, q[k])
  BY <1>3
<1> QED BY <1>5, <1>6 DEF s, W

\* What arrives is at the end of the inbox, or is not for this socket.
LEMMA InboxAppend ==
  ASSUME NEW a, NEW q \in Seq(Entries), NEW e \in Entries
  PROVE  Joined(Items(a, Append(q, e))) = Joined(Items(a, q)) \o Item(a, e)
<1> DEFINE W == Seq(Datagrams)
           i == Item(a, e)
           r == Append(q, e)
           s == Items(a, q)
           t == Items(a, r)
           u == Append(s, i)
           n == Len(q)
<1>1. i \in Seq(Datagrams)
  BY ItemIs
<1>2. r \in Seq(Entries) /\ Len(r) = n + 1 /\ n \in Nat /\ r[n + 1] = e /\ \A k \in 1 .. n : r[k] = q[k]
  BY LenProperties
<1>3. s \in Seq(Seq(Datagrams)) /\ Len(s) = n /\ \A k \in 1 .. n : s[k] = Item(a, q[k])
  BY ItemsType
<1> HIDE DEF i, r, s
<1>4. t \in Seq(Seq(Datagrams)) /\ Len(t) = n + 1 /\ \A k \in 1 .. n + 1 : t[k] = Item(a, r[k])
  BY <1>2, ItemsType
<1> HIDE DEF t
<1>5. i \in W /\ s \in Seq(W) /\ t \in Seq(W)
  BY <1>1, <1>3, <1>4
<1> HIDE DEF W
<1>6. u \in Seq(W) /\ Len(u) = n + 1 /\ u[n + 1] = i /\ \A k \in 1 .. n : u[k] = s[k]
  BY <1>3, <1>5
<1> HIDE DEF u, n
<1>7. ASSUME NEW k \in 1 .. n + 1 PROVE t[k] = u[k]
  <2>1. CASE k \in 1 .. n
    BY <1>2, <1>3, <1>4, <1>6, <2>1
  <2>2. CASE k = n + 1
    BY <1>2, <1>4, <1>6, <2>2 DEF i
  <2> QED BY <1>2, <2>1, <2>2
<1>8. t = u
  BY <1>4, <1>5, <1>6, <1>7, SeqEqual, Zenon
<1>9. Joined(Append(s, i)) = Joined(s) \o i
  BY <1>1, <1>3, JoinedAppend
<1> QED BY <1>8, <1>9 DEF t, r, s, i, u

\* The inbox begins with the item of the first packet.
LEMMA InboxHead ==
  ASSUME NEW a, NEW q \in Seq(Entries), q # <<>>
  PROVE  /\ Joined(Items(a, Tail(q))) \in Seq(Datagrams)
         /\ Joined(Items(a, q)) = Item(a, Head(q)) \o Joined(Items(a, Tail(q)))
<1> DEFINE W == Seq(Datagrams)
           e == Head(q)
           i == Item(a, e)
           r == Tail(q)
           s == Items(a, q)
           t == Items(a, r)
           one == <<i>>
           u == one \o t
           n == Len(q)
<1>0. n \in Nat \ {0}
  BY EmptySeq
<1>1. e \in Entries /\ r \in Seq(Entries) /\ Len(r) = n - 1 /\ \A k \in 1 .. n - 1 : r[k] = q[k + 1]
  BY <1>0, HeadTailProperties
<1>2. e = q[1]
  OBVIOUS
<1> HIDE DEF e, r
<1>3. i \in Seq(Datagrams)
  BY <1>1, ItemIs
<1>4. s \in Seq(Seq(Datagrams)) /\ Len(s) = n /\ \A k \in 1 .. n : s[k] = Item(a, q[k])
  BY ItemsType
<1>5. t \in Seq(Seq(Datagrams)) /\ Len(t) = n - 1 /\ \A k \in 1 .. n - 1 : t[k] = Item(a, r[k])
  BY <1>1, ItemsType
<1>6. Joined(t) \in Seq(Datagrams)
  BY <1>5, JoinedType
<1>i. i = Item(a, e)
  OBVIOUS
<1> HIDE DEF i, s, t, n
<1>7. one \in Seq(Seq(Datagrams)) /\ Len(one) = 1 /\ one[1] = i
  BY <1>3
<1>8. Joined(one) = i
  BY <1>3, JoinedOne
<1> HIDE DEF one
<1>9. Joined(u) = Joined(one) \o Joined(t)
  BY <1>5, <1>7, JoinedCat
<1>10. one \in Seq(W) /\ s \in Seq(W) /\ t \in Seq(W)
  BY <1>4, <1>5, <1>7
<1> HIDE DEF W
<1>11. /\ u \in Seq(W) /\ Len(u) = 1 + (n - 1)
       /\ \A k \in 1 .. 1 + (n - 1) : u[k] = IF k <= 1 THEN one[k] ELSE t[k - 1]
  <2>1. /\ u \in Seq(W) /\ Len(u) = Len(one) + Len(t)
        /\ \A k \in 1 .. Len(one) + Len(t) : u[k] = IF k <= Len(one) THEN one[k] ELSE t[k - Len(one)]
    BY <1>10, ConcatProperties
  <2> HIDE DEF u
  <2> QED BY <1>5, <1>7, <2>1
<1> HIDE DEF u
<1>12. Len(u) = n
  BY <1>0, <1>11
<1>13. ASSUME NEW k \in 1 .. n PROVE s[k] = u[k]
  <2>1. CASE k = 1
    <3>1. u[1] = one[1]
      BY <1>0, <1>11
    <3> QED BY <1>2, <1>4, <1>7, <1>i, <2>1, <3>1
  <2>2. CASE k # 1
    <3>1. k - 1 \in 1 .. n - 1 /\ k \in 1 .. 1 + (n - 1) /\ ~(k <= 1) /\ k - 1 + 1 = k
      BY <1>0, <2>2
    <3>2. u[k] = t[k - 1] /\ t[k - 1] = Item(a, r[k - 1]) /\ r[k - 1] = q[k - 1 + 1]
      BY <1>1, <1>5, <1>11, <3>1
    <3> QED BY <1>4, <3>1, <3>2
  <2> QED BY <2>1, <2>2
<1>14. s = u
  BY <1>4, <1>10, <1>11, <1>12, <1>13, SeqEqual, Zenon
<1>15. Joined(s) = i \o Joined(t)
  BY <1>8, <1>9, <1>14
<1> QED BY <1>6, <1>15 DEF s, i, t, e, r

\* net.IP.Equal of an address and one in its 4-byte form.
LEMMA EqualForms ==
  ASSUME NEW x \in Seq(Byte), NEW y \in Seq(Byte), Len(y) = 4
  PROVE  IPEqual(x, y) <=> y = To4(x)
<1>1. To4(y) = y /\ (Len(x) = 4 => To4(x) = x)
  BY To4Type
<1>2. y # Nil
  BY DEF Nil
<1>3. CASE x = y
  BY <1>1, <1>3 DEF IPEqual
<1>4. CASE x # y
  BY <1>1, <1>2, <1>4 DEF IPEqual
<1> QED BY <1>3, <1>4

\* ReadFrom takes a packet for one of its own when its sender sent it to the
\* bound address, in whichever form that is.
LEMMA MatchesWanted ==
  ASSUME bound \in Bounds, NEW e \in Entries, HasHeaders(Raw(e.bytes))
  PROVE  Matches(Raw(e.bytes)) <=> WantedBy(bound, e)
<1> DEFINE r == Raw(e.bytes)
<1>0. IsEntry(e) /\ e.of \in Datagrams \cup {NotUDP, CutShort}
  BY DEF Entries
<1>1. CASE e.of \in {NotUDP, CutShort}
  <2>1. ~IsUDP(r)
    BY <1>0, <1>1 DEF IsEntry
  <2> QED BY <1>1, <2>1 DEF Matches, WantedBy
<1>2. CASE e.of \in Datagrams
  <2>1. /\ Len(e.of.ip) = 4 /\ e.of.ip \in Seq(Byte) /\ IsUDP(r)
        /\ addrOf(r) = [ip |-> e.of.ip, port |-> e.of.port]
    BY <1>0, <1>2 DEF IsEntry, Datagrams
  <2>2. addrOf(r).ip = e.of.ip /\ addrOf(r).port = e.of.port
    BY <2>1
  <2>3. e.of \notin {NotUDP, CutShort}
    BY <1>2, NoDatagrams
  <2> HIDE DEF r
  <2>4. CASE bound = NoAddr
    BY <2>1, <2>3, <2>4 DEF Matches, WantedBy, udpMatch, r
  <2>5. CASE bound # NoAddr
    <3>1. bound.ip \in Seq(Byte)
      BY <2>5, UDPConnAssumption DEF UDPAddrs
    <3>2. IPEqual(bound.ip, e.of.ip) <=> e.of.ip = To4(bound.ip)
      BY <2>1, <3>1, EqualForms
    <3> QED BY <2>1, <2>2, <2>3, <2>5, <3>2 DEF Matches, WantedBy, udpMatch, r
  <2> QED BY <2>4, <2>5
<1> QED BY <1>0, <1>1, <1>2

\* What arrives is for this socket, and goes to the end of its inbox, or is not,
\* and the inbox stays.
LEMMA ArrivesRefines ==
  ASSUME queue \in Seq(Entries), NEW e \in Entries, queue' = Append(queue, e),
         UNCHANGED <<bound, ret>>
  PROVE  Port!Next \/ UNCHANGED <<Inbox, ret>>
<1> DEFINE A == Inbox
           B == Inbox'
           i == Item(bound, e)
           d == Datagram(e.of.ip, e.of.port, Upto(ReadLen, e.of.payload))
<1>1. A = Joined(Items(bound, queue)) /\ B = Joined(Items(bound, Append(queue, e)))
  BY InboxIs
<1>2. B = A \o i
  BY <1>1, InboxAppend, Zenon
<1>3. A \in Seq(Datagrams)
  BY <1>1, ItemsType, JoinedType
<1>4. CASE ~WantedBy(bound, e)
  <2>1. i = <<>>
    BY <1>4, ItemIs
  <2> HIDE DEF A, B, i
  <2>2. B = A
    BY <1>2, <1>3, <2>1
  <2> QED BY <2>2 DEF A, B
<1>5. CASE WantedBy(bound, e)
  <2>1. i = <<d>> /\ d \in Datagrams
    BY <1>5, ItemIs
  <2> HIDE DEF A, B, i, d
  <2>2. B = Append(A, d) /\ Len(B) = Len(A) + 1 /\ B[Len(B)] = d
    BY <1>2, <1>3, <2>1
  <2>3. /\ Len(B) = Len(A) + 1 /\ B[Len(B)] \in Datagrams /\ B = Append(A, B[Len(B)])
    BY <2>1, <2>2
  <2>4. Port!Arrive
    BY <2>3 DEF Port!Arrive, Datagrams, A, B
  <2> QED BY <2>4 DEF Port!Next
<1> QED BY <1>4, <1>5

\* A step of the reader takes the first datagram of the inbox, or nothing.
LEMMA ReadFromRefines ==
  ASSUME Inv, ReadFrom, UNCHANGED bound
  PROVE  Port!Next \/ UNCHANGED <<Inbox, ret>>
<1> DEFINE A == Inbox
           B == Inbox'
           e == Head(queue)
           r == Raw(e.bytes)
           i == Item(bound, e)
           d == Datagram(e.of.ip, e.of.port, Upto(ReadLen, e.of.payload))
<1>0. bound \in Bounds /\ queue \in Seq(Entries) /\ ReaderInv
  BY DEF Inv
<1>1. /\ pc = "reading" /\ queue # <<>> /\ queue' = Tail(queue)
      /\ Skip(r) \/ Return(r) \/ Panic(r)
  BY DEF ReadFrom
<1>2. e \in Entries
  BY <1>0, <1>1, HeadTailProperties
<1>3. A = Joined(Items(bound, queue)) /\ B = Joined(Items(bound, Tail(queue)))
  BY <1>1, InboxIs
<1>4. B \in Seq(Datagrams) /\ A = i \o B
  BY <1>0, <1>1, <1>3, InboxHead, Zenon
<1> HIDE DEF e
<1>5. i = <<>> /\ UNCHANGED ret => UNCHANGED <<Inbox, ret>>
  <2> HIDE DEF i, A, B
  <2>1. i = <<>> => A = B
    BY <1>4
  <2> QED BY <2>1 DEF A, B
<1>6. CASE Skip(r)
  <2>1. HasHeaders(r) /\ ~Matches(r) /\ UNCHANGED ret
    BY <1>6 DEF Skip, readerVars
  <2>2. ~WantedBy(bound, e)
    BY <1>0, <1>2, <2>1, MatchesWanted
  <2>3. i = <<>>
    BY <1>2, <2>2, ItemIs
  <2> QED BY <1>5, <2>1, <2>3
<1>7. CASE Panic(r)
  <2>1. ~HasHeaders(r) /\ UNCHANGED ret
    BY <1>7 DEF Panic
  <2>2. e.of = CutShort
    BY <1>2, <2>1 DEF Entries, IsEntry
  <2>3. ~WantedBy(bound, e)
    BY <2>2 DEF WantedBy
  <2>4. i = <<>>
    BY <1>2, <2>3, ItemIs
  <2> QED BY <1>5, <2>1, <2>4
<1>8. CASE Return(r)
  <2>1. HasHeaders(r) /\ Matches(r)
    BY <1>8 DEF Return
  <2>2. WantedBy(bound, e)
    BY <1>0, <1>2, <2>1, MatchesWanted
  <2>3. e.of \in Datagrams /\ d \in Datagrams /\ i = <<d>>
    BY <1>2, <2>2, ItemIs
  <2>4. /\ addrOf(r) = [ip |-> e.of.ip, port |-> e.of.port]
        /\ Upto(ReadLen, ReadAll(r)) = Upto(ReadLen, e.of.payload)
    BY <1>2, <2>3 DEF Entries, IsEntry
  <2>5. addrOf(r).ip = e.of.ip /\ addrOf(r).port = e.of.port
    BY <2>4
  <2>6. ret' = d
    BY <1>8, <2>4, <2>5 DEF Return
  <2>7. ret = NoResult
    BY <1>0, <1>1 DEF ReaderInv
  <2> HIDE DEF A, B, i, d
  <2>8. A # <<>> /\ Head(A) = d /\ Tail(A) = B
    BY <1>4, <2>3
  <2>9. Port!Receive
    BY <2>6, <2>7, <2>8 DEF Port!Receive, A, B
  <2> QED BY <2>9 DEF Port!Next
<1> QED BY <1>1, <1>6, <1>7, <1>8

\* What a step appends to the queue is an entry, as the invariant has it.
LEMMA AppendedEntry ==
  ASSUME queue \in Seq(Entries), queue' \in Seq(Entries), NEW e, queue' = Append(queue, e)
  PROVE  e \in Entries
<1> DEFINE T == Entries \cup {e}
<1>1. queue \in Seq(T)
  BY SeqMonotonic
<1>2. Len(queue') = Len(queue) + 1 /\ queue'[Len(queue) + 1] = e
  BY <1>1
<1>3. Len(queue) + 1 \in 1 .. Len(queue')
  BY <1>2
<1> QED BY <1>2, <1>3

\* Every step of the connection is a step of the port, or changes nothing in it.
LEMMA NextRefines == Inv /\ [Next]_vars => [Port!Next]_(Port!portVars)
<1> SUFFICES ASSUME Inv, [Next]_vars
             PROVE  Port!Next \/ UNCHANGED <<Inbox, ret>>
  BY DEF Port!portVars
<1>1. queue \in Seq(Entries) /\ ReaderInv
  BY DEF Inv
<1>2. queue' \in Seq(Entries)
  BY NextInv DEF Inv
<1>3. ASSUME UNCHANGED <<bound, queue>> PROVE UNCHANGED Inbox
  BY <1>3, InboxIs
<1>4. ASSUME NEW bytes, NEW of, Arrives(bytes, of), UNCHANGED <<bound, ret>>
      PROVE  Port!Next \/ UNCHANGED <<Inbox, ret>>
  <2> DEFINE e == [bytes |-> bytes, of |-> of]
  <2>1. queue' = Append(queue, e)
    BY <1>4 DEF Arrives
  <2> HIDE DEF e
  <2>2. e \in Entries
    BY <1>1, <1>2, <2>1, AppendedEntry
  <2> QED BY <1>1, <1>4, <2>1, <2>2, ArrivesRefines
<1>5. CASE Reader
  <2>1. UNCHANGED bound
    BY <1>5 DEF Reader
  <2>2. CASE CallRead
    <3>1. ret' = NoResult /\ UNCHANGED Inbox
      BY <1>3, <2>1, <2>2 DEF CallRead
    <3> QED BY <3>1 DEF Port!Next, Port!Call
  <2>3. CASE ReadFails
    <3>1. ret = NoResult /\ ret' = ReadError /\ UNCHANGED Inbox
      BY <1>1, <1>3, <2>1, <2>3 DEF ReadFails, ReaderInv
    <3> QED BY <3>1 DEF Port!Next, Port!Fail
  <2>4. CASE ReadFrom
    BY <2>1, <2>4, ReadFromRefines
  <2> QED BY <1>5, <2>2, <2>3, <2>4 DEF Reader
<1>6. CASE Writer
  <2>1. UNCHANGED <<bound, ret>>
    BY <1>6 DEF Writer, readerVars
  <2>2. PICK source \in Sources, b \in Payloads, addr \in Addrs : WriteTo(source, b, addr)
    BY <1>6 DEF Writer
  <2> QED BY <1>4, <2>1, <2>2 DEF WriteTo
<1>7. CASE Builder
  <2>1. UNCHANGED <<bound, ret>>
    BY <1>7 DEF Builder, readerVars
  <2>2. CASE UNCHANGED queue
    BY <1>3, <2>1, <2>2
  <2>3. CASE SendDraft
    <3>1. \E bytes, of : Arrives(bytes, of)
      BY <2>3 DEF SendDraft
    <3> QED BY <1>4, <2>1, <3>1
  <2> QED BY <1>7, <2>2, <2>3 DEF Builder
<1>8. CASE UNCHANGED vars
  BY <1>3, <1>8 DEF vars, readerVars
<1> QED BY <1>5, <1>6, <1>7, <1>8 DEF Next

\* A UDPPacketConn on a raw socket is a UDP socket: ReadFrom returns exactly the
\* datagrams for boundAddr, in their order and as they were sent, whatever else
\* arrives in between.
THEOREM ConnIsPort == Spec => ImplementsPort
<1>1. Init => Port!Init
  <2> SUFFICES ASSUME Init PROVE Port!Init
    OBVIOUS
  <2>1. queue = <<>> /\ ret = NoResult
    BY DEF Init
  <2>2. Items(bound, queue) = <<>>
    BY <2>1 DEF Items
  <2>3. Inbox = <<>>
    BY <2>2, InboxIs, JoinedEmpty
  <2> QED BY <2>1, <2>3 DEF Port!Init
<1> QED BY <1>1, NextRefines, Invariant, PTL DEF Spec, ImplementsPort, Port!Spec
==============================================================================
