-------------------------------- MODULE Server --------------------------------
(***************************************************************************)
(* dhcp4server/server.go: the DHCP server.  One iteration of Serve's loop, *)
(* from ReadFrom to the write of the answer, is one step: Serve is the     *)
(* only goroutine that touches the server's maps.  alloc is taken as one   *)
(* step, which module IPAlloc justifies.                                   *)
(***************************************************************************)
EXTENDS Subnet, Packets

CONSTANTS ServerIP,    \* Server.ip
          Inbound,     \* packets that may arrive
          Source       \* addresses they may come from

ASSUME ServerAssumption ==
  /\ ServerIP \in Addr
  /\ Inbound \subseteq Packet
  /\ Source \subseteq Addr

VARIABLES conns,       \* Server.conns; NoIP where the map has no entry
          serving,     \* Serve has not returned
          req,         \* the packet handled last
          reply        \* what was written for it: a set of at most one packet

vars == <<conns, allocated, serving, req, reply>>

Mac == [1 .. ChaddrLen -> Byte]

\* A hardware address padded with zeros to the key of conns.
getMac(haddr) ==
  [k \in 1 .. ChaddrLen |-> IF k \in DOMAIN haddr THEN haddr[k] ELSE 0]

TypeOK ==
  /\ conns \in [Mac -> Pool \cup {NoIP}]
  /\ allocated \subseteq Pool
  /\ serving \in BOOLEAN
  /\ req \in Packet
  /\ reply \subseteq [dst : Addr, pkt : Packet]

\* New
Init ==
  /\ conns = [m \in Mac |-> NoIP]
  /\ allocated = {}
  /\ serving = TRUE
  /\ req = NoPacket
  /\ reply = {}

responsePacket(request, typ) ==
  [typ |-> typ, xid |-> request.xid, chaddr |-> request.chaddr,
   ciaddr |-> ZeroIP, yiaddr |-> ZeroIP, siaddr |-> ServerIP,
   rip |-> NoIP, sid |-> ServerIP]

\* To the sender, or to everyone when the sender has no address yet.  The
\* write may fail, and Serve then returns, whatever was assigned before it.
writePacket(src, p) ==
  \/ /\ reply' = {[dst |-> IF src = ZeroIP THEN BcastIP ELSE src, pkt |-> p]}
     /\ UNCHANGED serving
  \/ /\ reply' = {}
     /\ serving' = FALSE

getIP(haddr) == conns[getMac(haddr)]

\* Mutant: the address is not marked as allocated.
newIPUnmarked(haddr) ==
  LET ip == lowestUsable(allocated) IN
  /\ getIP(haddr) = NoIP
  /\ ip # NoIP
  /\ conns' = [conns EXCEPT ![getMac(haddr)] = ip]
  /\ UNCHANGED allocated

newIP(haddr) ==
  LET ip == lowestUsable(allocated) IN
  /\ getIP(haddr) = NoIP
  /\ ip # NoIP
  /\ allocated' = allocated \cup {ip}
  /\ conns' = [conns EXCEPT ![getMac(haddr)] = ip]

\* Mutant: no check for an address the client has already.
grabIPAgain(haddr, ip) ==
  /\ grabbable(allocated, ip)
  /\ allocated' = allocated \cup {ip}
  /\ conns' = [conns EXCEPT ![getMac(haddr)] = ip]

grabIP(haddr, ip) ==
  /\ getIP(haddr) = NoIP
  /\ grabbable(allocated, ip)
  /\ allocated' = allocated \cup {ip}
  /\ conns' = [conns EXCEPT ![getMac(haddr)] = ip]

\* Mutant: the address is not given back to the allocator.
releaseLeaks(haddr) ==
  /\ conns' = [conns EXCEPT ![getMac(haddr)] = NoIP]
  /\ UNCHANGED allocated

release(haddr) ==
  LET ip == getIP(haddr) IN
  /\ conns' = [conns EXCEPT ![getMac(haddr)] = NoIP]
  /\ allocated' = allocated \ {ip}

------------------------------------------------------------------------------
(* One case of Serve's switch per action.                                  *)

Receive(p, typs) ==
  /\ serving
  /\ p.typ \in typs
  /\ req' = p

offer(p, src, ip) ==
  writePacket(src, [responsePacket(p, "Offer") EXCEPT !.yiaddr = ip])

\* The client has an address already: offer it again.
DiscoverKnown(p, src) ==
  /\ Receive(p, {"Discover"})
  /\ getIP(p.chaddr) # NoIP
  /\ offer(p, src, getIP(p.chaddr))
  /\ UNCHANGED <<conns, allocated>>

\* The address the client asks for is available.
DiscoverRequested(p, src) ==
  /\ Receive(p, {"Discover"})
  /\ grabIP(p.chaddr, p.rip)
  /\ offer(p, src, p.rip)

DiscoverNew(p, src) ==
  /\ Receive(p, {"Discover"})
  /\ ~grabbable(allocated, p.rip)
  /\ newIP(p.chaddr)
  /\ offer(p, src, lowestUsable(allocated))

\* Mutant: give up when the requested address is not available.
DiscoverGivesUp(p) ==
  /\ Receive(p, {"Discover"})
  /\ getIP(p.chaddr) = NoIP
  /\ ~grabbable(allocated, p.rip)
  /\ reply' = {}
  /\ UNCHANGED <<conns, allocated, serving>>

\* Nothing to offer and nothing said.
DiscoverFull(p) ==
  /\ Receive(p, {"Discover"})
  /\ getIP(p.chaddr) = NoIP
  /\ ~grabbable(allocated, p.rip)
  /\ lowestUsable(allocated) = NoIP
  /\ reply' = {}
  /\ UNCHANGED <<conns, allocated, serving>>

RequestNak(p, src) ==
  /\ Receive(p, {"Request"})
  /\ p.rip # getIP(p.chaddr)
  /\ writePacket(src, responsePacket(p, "NAK"))
  /\ UNCHANGED <<conns, allocated>>

\* Mutant: whatever the client asks for is acknowledged.
RequestAckAny(p, src) ==
  /\ Receive(p, {"Request"})
  /\ writePacket(src, [responsePacket(p, "ACK") EXCEPT
                         !.ciaddr = p.ciaddr,
                         !.yiaddr = writeIP(p.rip)])
  /\ UNCHANGED <<conns, allocated>>

\* Two nil addresses are equal as well.
RequestAck(p, src) ==
  /\ Receive(p, {"Request"})
  /\ p.rip = getIP(p.chaddr)
  /\ writePacket(src, [responsePacket(p, "ACK") EXCEPT
                         !.ciaddr = p.ciaddr,
                         !.yiaddr = writeIP(getIP(p.chaddr))])
  /\ UNCHANGED <<conns, allocated>>

DeclineOrRelease(p) ==
  /\ Receive(p, {"Decline", "Release"})
  /\ release(p.chaddr)
  /\ reply' = {}
  /\ UNCHANGED serving

\* Inform (a TODO), a server's own messages, unknown types, unparsable bytes.
Ignore(p) ==
  /\ Receive(p, {"Inform", "Offer", "ACK", "NAK", "unknown", "invalid"})
  /\ reply' = {}
  /\ UNCHANGED <<conns, allocated, serving>>

\* ReadFrom fails and Serve returns its error.
ReadError ==
  /\ serving
  /\ serving' = FALSE
  /\ reply' = {}
  /\ UNCHANGED <<conns, allocated, req>>

\* The owner of the Server calls Serve once more: what it has assigned is
\* still in its maps.
ServeAgain ==
  /\ ~serving
  /\ serving' = TRUE
  /\ req' = NoPacket
  /\ reply' = {}
  /\ UNCHANGED <<conns, allocated>>

Serve(p, src) ==
  \/ DiscoverKnown(p, src)
  \/ DiscoverRequested(p, src)
  \/ DiscoverNew(p, src)
  \/ DiscoverFull(p)
  \/ RequestNak(p, src)
  \/ RequestAck(p, src)
  \/ DeclineOrRelease(p)
  \/ Ignore(p)

Next ==
  \/ \E p \in Inbound, src \in Source : Serve(p, src)
  \/ ReadError
  \/ ServeAgain

Spec == Init /\ [][Next]_vars

------------------------------------------------------------------------------
(* Properties *)

\* No two clients are given the same address, however requested and
\* allocator-chosen addresses, releases and failed writes follow each other.
LeasesDisjoint ==
  \A m, n \in Mac : conns[m] # NoIP /\ conns[m] = conns[n] => m = n

\* The two maps of the server agree: an address is marked allocated exactly
\* while some client has it, so none leaks and none is handed out twice.  The
\* error of ips.free, which release drops, therefore never occurs.
PoolMatchesLeases == allocated = {conns[m] : m \in Mac} \ {NoIP}

\* A Discover goes unanswered only when the client has no address and the
\* subnet has none left, or because the write failed and Serve returned.
UnansweredOnlyWhenFull ==
  serving /\ req.typ = "Discover" /\ reply = {} =>
    getIP(req.chaddr) = NoIP /\ Pool \subseteq allocated

\* The address in an Offer or an ACK is the one recorded for the client it is
\* sent to, and an Offer always carries one.
AnswerIsLease ==
  \A r \in reply :
    /\ r.pkt.typ \in {"Offer", "ACK"} =>
         r.pkt.yiaddr = writeIP(getIP(r.pkt.chaddr))
    /\ r.pkt.typ = "Offer" => getIP(r.pkt.chaddr) # NoIP

\* An address is taken from a client only by that client's own Decline or
\* Release; in particular a retransmitted Discover, with or without another
\* requested address, and a Discover whose Offer could not be written, keep it.
LeaseStable ==
  [][\A m \in Mac : conns[m] # NoIP /\ conns'[m] # conns[m] =>
       /\ conns'[m] = NoIP
       /\ req'.typ \in {"Decline", "Release"}
       /\ getMac(req'.chaddr) = m]_vars

\* The server is a lease table.
Abstract == INSTANCE Leases WITH Holder <- Mac, Address <- Pool, None <- NoIP,
                                 lease <- conns
ImplementsLeases == Abstract!Spec
==============================================================================
