-------------------------------- MODULE UDPConn --------------------------------
(***************************************************************************)
(* conn_linux.go: UDPPacketConn, a UDP socket on top of one that sends and *)
(* receives whole IPv4 packets.  One connection reads, others write, and a *)
(* program on the same link builds packets with the header methods of      *)
(* ipv4.go and sends them through a raw socket.                            *)
(*                                                                         *)
(* The raw sockets and the link are external: a packet sent arrives once,  *)
(* in order (loss, duplicates and reordering between the ends are those of *)
(* System), whole or cut short.  With a packet that arrives, queue keeps   *)
(* what its sender meant by it ("of"), which no step of the reader looks   *)
(* at.                                                                     *)
(***************************************************************************)
EXTENDS Headers

CONSTANTS Payloads,        \* what WriteTo is given
          Addrs,           \* the UDP addresses it is sent to
          Bounds,          \* boundAddr of the connection that reads, NoAddr for nil
          Sources,         \* boundAddr of those that write, never nil
          ReadLen,         \* the length of the buffer ReadFrom is given
          Drafts,          \* the fields that a header is built from
          DraftPorts, TOSs, IDs, Fragments, DraftIPs,    \* what setters are given
          CutAt,           \* where a packet may be cut short
          MaxPackets, MaxQueue,      \* bounds: packets sent, and waiting
          MaxEdits, MaxEdited,       \* bounds: setters called, and on how many packets
          NoAddr, NotUDP, CutShort, NoResult, ReadError

ASSUME UDPConnAssumption ==
  /\ Payloads \subseteq Seq(Byte)
  /\ \A b \in Payloads : IPv4MinimumSize + UDPMinimumSize + Len(b) \in Uint16
  /\ Addrs \subseteq UDPAddrs
  /\ Sources \subseteq UDPAddrs
  /\ Bounds \subseteq UDPAddrs \cup {NoAddr}
  /\ ReadLen \in Nat
  /\ Drafts \subseteq DraftFields
  /\ \A d \in Drafts : d.length = UDPMinimumSize + Len(d.payload) /\ d.ihl + d.length \in Uint16
  /\ DraftPorts \subseteq Uint16
  /\ TOSs \subseteq Byte
  /\ IDs \subseteq Uint16
  /\ Fragments \subseteq [flags : 0 .. 7, offset : FragmentOffsets]
  /\ DraftIPs \subseteq Seq(Byte)
  /\ \A ip \in DraftIPs : To4(ip) # Nil
  /\ CutAt \subseteq Nat
  /\ {MaxPackets, MaxQueue, MaxEdits, MaxEdited} \subseteq Nat
  /\ {NotUDP, CutShort} \cap [ip : Seq(Byte), port : Uint16, payload : Seq(Byte)] = {}
  /\ NotUDP # CutShort

VARIABLES bound,      \* boundAddr of the connection that reads
          queue,      \* the packets in the reader's raw socket
          pc,         \* the reader: "idle", "reading" in ReadFrom, "panic"
          ret,        \* what the last call of ReadFrom returned
          packets,    \* the number of packets sent
          draft,      \* the headers being built: the bytes of both, or empty ones
          want,       \* the fields the draft was last given
          edits       \* the number of setters called on the draft

readerVars == <<pc, ret>>
draftVars == <<draft, want, edits>>
vars == <<bound, queue, packets, readerVars, draftVars>>

NoDraft == [ip |-> <<>>, udp |-> <<>>]

Init ==
  /\ bound \in Bounds
  /\ queue = <<>>
  /\ pc = "idle"
  /\ ret = NoResult
  /\ packets = 0
  /\ draft = NoDraft
  /\ want = NoResult
  /\ edits = 0

------------------------------------------------------------------------------
(* The link *)

Datagram(ip, port, payload) == [ip |-> ip, port |-> port, payload |-> payload]

Arrives(bytes, of) ==
  /\ packets < MaxPackets
  /\ Len(queue) < MaxQueue
  /\ packets' = packets + 1
  /\ queue' = Append(queue, [bytes |-> bytes, of |-> of])

------------------------------------------------------------------------------
(* WriteTo *)

\* (An address that is no *net.UDPAddr is an error, and changes nothing.)
WriteTo(source, b, addr) ==
  Arrives(udp4pkt(b, addr, source), Datagram(Copied(IPv4len, To4(addr.ip)), addr.port, b))

Writer ==
  /\ \E source \in Sources, b \in Payloads, addr \in Addrs : WriteTo(source, b, addr)
  /\ UNCHANGED <<bound, readerVars, draftVars>>

------------------------------------------------------------------------------
(* ReadFrom *)

\* net.IP.Equal
IPEqual(x, y) == x = y \/ (To4(x) # Nil /\ To4(x) = To4(y))

\* Mutant: the forms of an address are told apart.
udpMatchForm(addr) ==
  bound # NoAddr => (bound.ip # Nil => bound.ip = addr.ip) /\ bound.port = addr.port

udpMatch(addr) ==
  bound # NoAddr => (bound.ip # Nil => IPEqual(bound.ip, addr.ip)) /\ bound.port = addr.port

CallRead ==
  /\ pc = "idle"
  /\ pc' = "reading"
  /\ ret' = NoResult
  /\ UNCHANGED queue

\* The raw socket fails: it is closed, or its deadline passes.
ReadFails ==
  /\ pc = "reading"
  /\ pc' = "idle"
  /\ ret' = ReadError
  /\ UNCHANGED queue

\* What the raw socket copies into the buffer made for it.
Raw(bytes) == Upto(IPv4MaximumHeaderSize + UDPMinimumSize + ReadLen, bytes)

HasIPHdr(pkt) == pkt # <<>> /\ Len(pkt) >= HeaderLength(pkt)
IsUDP(pkt) == Protocol(ipHdr(pkt)) = UDPProtocolNumber

\* Mutant: a header with nothing after it is taken for a cut one.
HasUDPHdrStrict(pkt) == Len(AfterIP(pkt)) > UDPMinimumSize

HasUDPHdr(pkt) == Len(AfterIP(pkt)) >= UDPMinimumSize

ReadAll(pkt) == UDPPayload(AfterIP(pkt))

addrOf(pkt) ==
  [ip |-> DestinationAddress(ipHdr(pkt)), port |-> DestinationPort(AfterIP(pkt))]

\* The headers that ReadFrom looks into are there.
HasHeaders(pkt) == HasIPHdr(pkt) /\ (IsUDP(pkt) => HasUDPHdr(pkt))

Matches(pkt) == IsUDP(pkt) /\ udpMatch(addrOf(pkt))

Skip(pkt) ==
  /\ HasHeaders(pkt)
  /\ ~Matches(pkt)
  /\ UNCHANGED readerVars

Return(pkt) ==
  /\ HasHeaders(pkt)
  /\ Matches(pkt)
  /\ pc' = "idle"
  /\ ret' = Datagram(addrOf(pkt).ip, addrOf(pkt).port, Upto(ReadLen, ReadAll(pkt)))

\* A field is read of a header that is not there.
Panic(pkt) ==
  /\ ~HasHeaders(pkt)
  /\ pc' = "panic"
  /\ UNCHANGED ret

\* Mutant: a packet that does not match stays.
ReadFromSticky ==
  /\ pc = "reading"
  /\ queue # <<>>
  /\ LET pkt == Raw(Head(queue).bytes) IN
     \/ Skip(pkt) /\ UNCHANGED queue
     \/ (Return(pkt) \/ Panic(pkt)) /\ queue' = Tail(queue)

\* One iteration of the loop.
ReadFrom ==
  /\ pc = "reading"
  /\ queue # <<>>
  /\ queue' = Tail(queue)
  /\ LET pkt == Raw(Head(queue).bytes) IN Skip(pkt) \/ Return(pkt) \/ Panic(pkt)

Reader ==
  /\ CallRead \/ ReadFails \/ ReadFrom
  /\ UNCHANGED <<bound, packets, draftVars>>

------------------------------------------------------------------------------
(* A program that builds packets itself: it encodes both headers, changes  *)
(* their fields in any order, and sends the packet through a raw socket.   *)

NewDraft(d) ==
  /\ draft = NoDraft
  /\ packets < MaxPackets
  /\ draft' = [ip |-> EncodeIPv4(Zeros(d.ihl), d), udp |-> EncodeUDP(d)]
  /\ want' = d
  /\ UNCHANGED edits

Edit(d, w) ==
  /\ draft # NoDraft
  /\ edits < MaxEdits
  /\ packets < MaxEdited
  /\ edits' = edits + 1
  /\ draft' = d
  /\ want' = w

EditIP(ip, w) == Edit([draft EXCEPT !.ip = ip], w)
EditUDP(udp, w) == Edit([draft EXCEPT !.udp = udp], w)

Setters ==
  \/ \E v \in TOSs : EditIP(SetTOS(draft.ip, v), [want EXCEPT !.tos = v])
  \/ \E v \in IDs : EditIP(SetID(draft.ip, v), [want EXCEPT !.id = v])
  \/ \E f \in Fragments :
       EditIP(SetFlagsFragmentOffset(draft.ip, f.flags, f.offset),
              [want EXCEPT !.flags = f.flags, !.fragmentOffset = f.offset])
  \/ \E ip \in DraftIPs :
       \/ EditIP(SetSourceAddress(draft.ip, ip), [want EXCEPT !.srcAddr = To4(ip)])
       \/ EditIP(SetDestinationAddress(draft.ip, ip), [want EXCEPT !.dstAddr = To4(ip)])
  \/ \E port \in DraftPorts :
       \/ EditUDP(SetSourcePort(draft.udp, port), [want EXCEPT !.srcPort = port])
       \/ EditUDP(SetDestinationPort(draft.udp, port), [want EXCEPT !.dstPort = port])

\* The draft as a packet, its lengths and checksums filled in.
Packet ==
  LET ip == EncodePartial(draft.ip, partialChecksum(draft.ip),
                          Len(draft.ip) + UDPMinimumSize + Len(want.payload))
      xsum == Checksum(want.payload, PseudoHeaderChecksum(Protocol(ip), SourceAddress(ip),
                                                          DestinationAddress(ip)))
  IN ip \o SetUDPChecksum(draft.udp,
                          Complement(CalculateUDPChecksum(draft.udp, xsum, Length(draft.udp))))
        \o want.payload

\* The program sends no fragments.  (A packet with edited fields is not cut short:
\* a bound of the model.)
SendDraft ==
  /\ draft # NoDraft
  /\ want.fragmentOffset = 0
  /\ \/ Arrives(Packet, IF want.protocol = UDPProtocolNumber
                        THEN Datagram(want.dstAddr, want.dstPort, want.payload) ELSE NotUDP)
     \/ /\ edits = 0
        /\ \E n \in CutAt :
             n < Len(draft.ip) + UDPMinimumSize /\ Arrives(Upto(n, Packet), CutShort)
  /\ draft' = NoDraft
  /\ want' = NoResult
  /\ edits' = 0

Builder ==
  /\ \/ (\E d \in Drafts : NewDraft(d)) /\ UNCHANGED <<queue, packets>>
     \/ Setters /\ UNCHANGED <<queue, packets>>
     \/ SendDraft
  /\ UNCHANGED <<bound, readerVars>>

------------------------------------------------------------------------------
Next == Reader \/ Writer \/ Builder

Spec == Init /\ [][Next]_vars

\* The goroutine in ReadFrom runs while there is a packet for it to read.
FairSpec == Spec /\ WF_vars(ReadFrom /\ Reader)

------------------------------------------------------------------------------
(* Properties *)

TypeOK ==
  /\ bound \in Bounds
  /\ \A k \in DOMAIN queue : queue[k].bytes \in Seq(Byte)
  /\ pc \in {"idle", "reading", "panic"}
  /\ ret \in {NoResult, ReadError} \/ (ret.ip \in Seq(Byte) /\ ret.payload \in Seq(Byte))
  /\ packets \in 0 .. MaxPackets
  /\ draft.ip \in Seq(Byte) /\ draft.udp \in Seq(Byte)
  /\ edits \in 0 .. MaxEdits

\* A receiver that verifies checksums takes every packet that WriteTo sends,
\* and every packet built with EncodePartial: ipv4.go folds each sum once and
\* carries it on from part to part, also across a payload of odd length.
ChecksumsVerify ==
  \A k \in DOMAIN queue : queue[k].of # CutShort =>
    LET pkt == queue[k].bytes IN
    /\ SumsToZero(ipHdr(pkt))
    /\ SumsToZero(PseudoHeader(ipHdr(pkt), AfterIP(pkt)) \o AfterIP(pkt))
    /\ IsValid(pkt, Len(pkt))
    /\ Payload(pkt) = AfterIP(pkt)
    /\ Length(AfterIP(pkt)) = Len(AfterIP(pkt))

\* Whatever setters were called and in whatever order, the getters of a header
\* return what each field was last given: no setter of ipv4.go writes into a
\* neighbour of its field.
HeadersReadBack ==
  draft # NoDraft =>
    /\ IPVersion(draft.ip) = 4
    /\ HeaderLength(draft.ip) = want.ihl
    /\ TOS(draft.ip) = want.tos
    /\ TotalLength(draft.ip) = want.totalLength
    /\ ID(draft.ip) = want.id
    /\ Flags(draft.ip) = want.flags
    /\ FragmentOffset(draft.ip) = want.fragmentOffset
    /\ TTL(draft.ip) = want.ttl
    /\ Protocol(draft.ip) = want.protocol
    /\ IPChecksum(draft.ip) = want.checksum
    /\ SourceAddress(draft.ip) = want.srcAddr
    /\ DestinationAddress(draft.ip) = want.dstAddr
    /\ SourcePort(draft.udp) = want.srcPort
    /\ DestinationPort(draft.udp) = want.dstPort
    /\ Length(draft.udp) = want.length
    /\ UDPChecksum(draft.udp) = want.checksum

\* ReadFrom, which validates no header before it reads its fields, panics only
\* at a packet that was cut short, never at a whole one.
PanicsOnlyAtCutShort == [][pc' = "panic" /\ pc # "panic" => Head(queue).of = CutShort]_vars

\* What the datagrams in the raw socket are to the application: those that
\* were sent to the bound address, as much of each as fits its buffer.
Wanted(p) ==
  /\ p.of \notin {NotUDP, CutShort}
  /\ bound # NoAddr => p.of.port = bound.port /\ (bound.ip # Nil => p.of.ip = To4(bound.ip))

Inbox ==
  Joined([k \in DOMAIN queue |->
                IF Wanted(queue[k])
                THEN <<[queue[k].of EXCEPT !.payload = Upto(ReadLen, @)]>> ELSE <<>>])

Port == INSTANCE DatagramPort
          WITH inbox <- Inbox,
               Datagrams <- [ip : Seq(Byte), port : Uint16, payload : Seq(Byte)]

\* A UDPPacketConn is a UDP socket: of everything that the raw socket receives
\* ReadFrom returns exactly the datagrams for boundAddr, in their order, with
\* the payload their sender gave to WriteTo ("Calls to ReadFrom will only
\* return packets destined to this address", conn_linux.go).
ImplementsPort == Port!Spec

\* A call of ReadFrom ends when a datagram for boundAddr has arrived, however
\* many other packets came before it.
ReadReturns == (pc = "reading" /\ Inbox # <<>>) ~> (pc # "reading")
==============================================================================
