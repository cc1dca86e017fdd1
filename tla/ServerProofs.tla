----------------------------- MODULE ServerProofs -----------------------------
(* The server's maps stay consistent and it implements Leases, for subnets,  *)
(* hardware addresses and packets of every size; and so does the loop of the *)
(* allocator it calls.                                                       *)
EXTENDS Server, IPAllocBytes, TLAPS, WellFoundedInduction

\* A set of naturals that is not empty has a least element.
LEMMA LeastNatural ==
  ASSUME NEW T, T \subseteq Nat, T # {}
  PROVE  \E x \in T : \A y \in T : x <= y
<1> DEFINE R == {ss \in Nat \X Nat : ss[1] < ss[2]}
<1>1. IsWellFoundedOn(R, Nat)
  BY NatLessThanWellFounded DEF OpToRel
<1>2. PICK x \in T : \A y \in T : ~(<<y, x>> \in R)
  <2> HIDE DEF R
  <2> QED BY <1>1, WFMin
<1>3. \A y \in T : x <= y
  <2> TAKE y \in T
  <2>1. y \in Nat /\ x \in Nat
    OBVIOUS
  <2>2. ~(y < x)
    <3>1. y < x => <<y, x>> \in R
      BY <2>1
    <3> HIDE DEF R
    <3> QED BY <3>1, <1>2
  <2> QED BY <2>1, <2>2
<1> QED BY <1>3

\* What alloc returns: nil exactly when no address is free, and otherwise a
\* free address below which none is free.
LEMMA LowestUsable ==
  ASSUME NEW A
  PROVE  /\ lowestUsable(A) = NoIP <=> Free(A) = {}
         /\ Free(A) # {} => /\ lowestUsable(A) \in Free(A)
                            /\ \A ip \in Free(A) : lowestUsable(A) <= ip
<1> DEFINE F == Free(A)
<1>1. F \subseteq Nat /\ NoIP \notin F
  BY SubnetAssumption, NoIPAssumption, AddrSpaceAssumption DEF Free, Pool, Addr
<1>2. CASE F = {}
  BY <1>2 DEF lowestUsable
<1>3. CASE F # {}
  <2>1. \E x \in F : \A y \in F : x <= y
    <3> HIDE DEF F
    <3> QED BY <1>1, <1>3, LeastNatural
  <2>2. lowestUsable(A) = CHOOSE x \in F : \A y \in F : x <= y
    BY <1>3 DEF lowestUsable
  <2>3. lowestUsable(A) \in F /\ \A y \in F : lowestUsable(A) <= y
    <3> HIDE DEF F
    <3> QED BY <2>1, <2>2
  <2> QED BY <2>3, <1>1, <1>3
<1> QED BY <1>2, <1>3

\* The subnet lies in the address space, with the two special addresses.
LEMMA PoolFacts == Pool \subseteq Addr /\ NoIP \notin Pool /\ ZeroIP \in Addr /\ BcastIP \in Addr
BY SubnetAssumption, NoIPAssumption, AddrSpaceAssumption
DEF Pool, Addr, ZeroIP, BcastIP

\* The key of a hardware address is as long as keys are.
LEMMA GetMacType ==
  ASSUME NEW h \in HardwareAddr
  PROVE  getMac(h) \in Mac
<1>1. PICK n \in 0 .. ChaddrLen : h \in [1 .. n -> Byte]
  BY DEF HardwareAddr
<1>2. \A k \in DOMAIN h : h[k] \in Byte
  BY <1>1
<1> QED BY <1>2, PacketsAssumption DEF getMac, Mac

\* The placeholder for no packet is a packet.
LEMMA NoPacketType == NoPacket \in Packet
<1>1. <<>> \in [1 .. 0 -> Byte]
  OBVIOUS
<1>2. <<>> \in HardwareAddr
  BY <1>1, PacketsAssumption DEF HardwareAddr
<1>3. [k \in 1 .. TxidLen |-> 0] \in TransactionID
  BY PacketsAssumption DEF TransactionID
<1> QED BY <1>2, <1>3, PoolFacts DEF NoPacket, Packet, Typ

\* responsePacket builds packets.
LEMMA ResponseType ==
  ASSUME NEW p \in Packet, NEW typ \in Typ
  PROVE  responsePacket(p, typ) \in Packet
BY ServerAssumption, PoolFacts DEF responsePacket, Packet

\* Taking a free address for a client that has none.
LEMMA AssignKeepsTables ==
  ASSUME LeasesDisjoint, PoolMatchesLeases, conns \in [Mac -> Pool \cup {NoIP}],
         NEW m \in Mac, conns[m] = NoIP,
         NEW ip \in Pool, ip \notin allocated,
         allocated' = allocated \cup {ip},
         conns' = [conns EXCEPT ![m] = ip]
  PROVE  LeasesDisjoint' /\ PoolMatchesLeases'
<1>1. \A n \in Mac : conns[n] # ip
  BY PoolFacts DEF PoolMatchesLeases
<1>2. \A n \in Mac : conns'[n] = IF n = m THEN ip ELSE conns[n]
  OBVIOUS
<1>3. LeasesDisjoint'
  BY <1>1, <1>2 DEF LeasesDisjoint
<1>4. PoolMatchesLeases'
  BY <1>2, PoolFacts DEF PoolMatchesLeases
<1> QED BY <1>3, <1>4

\* Giving up what the client has, be it an address or nothing.
LEMMA ReleaseKeepsTables ==
  ASSUME LeasesDisjoint, PoolMatchesLeases, conns \in [Mac -> Pool \cup {NoIP}],
         NEW m \in Mac,
         allocated' = allocated \ {conns[m]},
         conns' = [conns EXCEPT ![m] = NoIP]
  PROVE  LeasesDisjoint' /\ PoolMatchesLeases'
<1>1. \A n \in Mac : conns'[n] = IF n = m THEN NoIP ELSE conns[n]
  OBVIOUS
<1>2. LeasesDisjoint'
  BY <1>1 DEF LeasesDisjoint
<1>3. PoolMatchesLeases'
  BY <1>1 DEF LeasesDisjoint, PoolMatchesLeases
<1> QED BY <1>2, <1>3

------------------------------------------------------------------------------
(* The inductive invariant.  LeasesDisjoint alone is not inductive: alloc     *)
(* and grab consult allocated only, so it has to agree with conns.            *)

Inv == TypeOK /\ LeasesDisjoint /\ PoolMatchesLeases

\* How a step of the server changes its two maps.
Assign(m, ip) ==
  /\ conns[m] = NoIP
  /\ ip \in Pool \ allocated
  /\ allocated' = allocated \cup {ip}
  /\ conns' = [conns EXCEPT ![m] = ip]

GiveUp(m) ==
  /\ allocated' = allocated \ {conns[m]}
  /\ conns' = [conns EXCEPT ![m] = NoIP]

\* writePacket keeps the types of the variables it writes.
LEMMA WriteType ==
  ASSUME TypeOK, NEW src \in Addr, NEW p \in Packet, writePacket(src, p)
  PROVE  serving' \in BOOLEAN /\ reply' \subseteq [dst : Addr, pkt : Packet]
<1> DEFINE r == [dst |-> IF src = ZeroIP THEN BcastIP ELSE src, pkt |-> p]
<1>1. r \in [dst : Addr, pkt : Packet]
  BY PoolFacts
<1>2. \/ reply' = {r} /\ UNCHANGED serving
      \/ reply' = {} /\ serving' = FALSE
  BY DEF writePacket
<1> HIDE DEF r
<1> QED BY <1>1, <1>2 DEF TypeOK

\* Every case of Serve is a step of one of three kinds.
LEMMA ServeCases ==
  ASSUME TypeOK, NEW p \in Packet, NEW src \in Addr, Serve(p, src)
  PROVE  /\ req' = p
         /\ serving' \in BOOLEAN
         /\ reply' \subseteq [dst : Addr, pkt : Packet]
         /\ \/ UNCHANGED <<conns, allocated>>
            \/ \E ip \in Pool : Assign(getMac(p.chaddr), ip)
            \/ p.typ \in {"Decline", "Release"} /\ GiveUp(getMac(p.chaddr))
<1> DEFINE Changes == \/ UNCHANGED <<conns, allocated>>
                      \/ \E ip \in Pool : Assign(getMac(p.chaddr), ip)
                      \/ p.typ \in {"Decline", "Release"} /\ GiveUp(getMac(p.chaddr))
           Outputs == serving' \in BOOLEAN /\ reply' \subseteq [dst : Addr, pkt : Packet]
<1>m. getMac(p.chaddr) \in Mac /\ p.ciaddr \in Addr
  BY GetMacType DEF Packet
<1>o. ASSUME NEW ip \in Pool, offer(p, src, ip)
      PROVE  Outputs
  <2>1. [responsePacket(p, "Offer") EXCEPT !.yiaddr = ip] \in Packet
    BY ResponseType, PoolFacts DEF Packet, Typ, DHCPMessageType
  <2> QED BY <1>o, <2>1, WriteType DEF offer
<1>1. CASE DiscoverKnown(p, src)
  <2>1. getIP(p.chaddr) \in Pool
    BY <1>1, <1>m DEF TypeOK, DiscoverKnown, getIP
  <2>2. Outputs
    BY <2>1, <1>1, <1>o DEF DiscoverKnown
  <2> QED BY <1>1, <2>2 DEF DiscoverKnown, Receive
<1>2. CASE DiscoverRequested(p, src)
  <2>1. p.rip \in Pool /\ Assign(getMac(p.chaddr), p.rip)
    BY <1>2 DEF DiscoverRequested, grabIP, getIP, grabbable, Contains, usable, Assign
  <2>2. Outputs
    BY <2>1, <1>2, <1>o DEF DiscoverRequested
  <2> QED BY <1>2, <2>1, <2>2 DEF DiscoverRequested, Receive
<1>3. CASE DiscoverNew(p, src)
  <2> DEFINE ip == lowestUsable(allocated)
  <2>1. ip \in Free(allocated)
    BY <1>3, LowestUsable DEF DiscoverNew, newIP
  <2>2. ip \in Pool /\ ip \notin allocated
    BY <2>1 DEF Free, usable
  <2>3. Assign(getMac(p.chaddr), ip)
    BY <1>3, <2>2 DEF DiscoverNew, newIP, getIP, Assign
  <2>4. Outputs
    BY <2>2, <1>3, <1>o DEF DiscoverNew
  <2> QED BY <1>3, <2>2, <2>3, <2>4 DEF DiscoverNew, Receive
<1>4. CASE DiscoverFull(p)
  BY <1>4 DEF DiscoverFull, Receive, TypeOK
<1>5. CASE RequestNak(p, src)
  <2>1. responsePacket(p, "NAK") \in Packet
    BY ResponseType DEF Typ, DHCPMessageType
  <2> QED BY <1>5, <2>1, WriteType DEF RequestNak, Receive
<1>6. CASE RequestAck(p, src)
  <2> DEFINE r == [responsePacket(p, "ACK") EXCEPT
                     !.ciaddr = p.ciaddr,
                     !.yiaddr = writeIP(getIP(p.chaddr))]
  <2>1. writeIP(getIP(p.chaddr)) \in Addr
    BY <1>m, PoolFacts DEF TypeOK, getIP, writeIP
  <2>2. responsePacket(p, "ACK") \in Packet
    BY ResponseType DEF Typ, DHCPMessageType
  <2>3. r \in Packet
    BY <1>m, <2>1, <2>2 DEF Packet
  <2> QED BY <1>6, <2>3, WriteType DEF RequestAck, Receive
<1>7. CASE DeclineOrRelease(p)
  BY <1>7 DEF DeclineOrRelease, release, getIP, GiveUp, Receive, TypeOK
<1>8. CASE Ignore(p)
  BY <1>8 DEF Ignore, Receive, TypeOK
<1> QED BY <1>1, <1>2, <1>3, <1>4, <1>5, <1>6, <1>7, <1>8 DEF Serve

\* Init establishes the invariant and every step keeps it.
LEMMA InitInv == Init => Inv
<1> SUFFICES ASSUME Init PROVE Inv
  OBVIOUS
<1>1. \A m \in Mac : conns[m] = NoIP
  BY DEF Init
<1>2. TypeOK
  BY NoPacketType DEF Init, TypeOK
<1>3. LeasesDisjoint
  BY <1>1 DEF LeasesDisjoint
<1>4. PoolMatchesLeases
  BY <1>1 DEF PoolMatchesLeases, Init
<1> QED BY <1>2, <1>3, <1>4 DEF Inv

\* Every round of Serve's loop keeps the inductive invariant.
LEMMA NextInv == Inv /\ [Next]_vars => Inv'
<1> SUFFICES ASSUME Inv, [Next]_vars PROVE Inv'
  OBVIOUS
<1> USE DEF Inv
<1>1. ASSUME NEW p \in Inbound, NEW src \in Source, Serve(p, src)
      PROVE  Inv'
  <2> DEFINE m == getMac(p.chaddr)
  <2>1. p \in Packet /\ src \in Addr
    BY ServerAssumption
  <2>2. m \in Mac
    BY <2>1, GetMacType DEF Packet
  <2>3. /\ req' = p
        /\ serving' \in BOOLEAN
        /\ reply' \subseteq [dst : Addr, pkt : Packet]
        /\ \/ UNCHANGED <<conns, allocated>>
           \/ \E ip \in Pool : Assign(m, ip)
           \/ GiveUp(m)
    BY <1>1, <2>1, ServeCases
  <2> HIDE DEF m
  <2>4. CASE UNCHANGED <<conns, allocated>>
    BY <2>1, <2>3, <2>4 DEF TypeOK, LeasesDisjoint, PoolMatchesLeases
  <2>5. ASSUME NEW ip \in Pool, Assign(m, ip)
        PROVE  Inv'
    <3>1. LeasesDisjoint' /\ PoolMatchesLeases'
      BY <2>2, <2>5, AssignKeepsTables DEF Assign, TypeOK
    <3>2. TypeOK'
      BY <2>1, <2>3, <2>5 DEF Assign, TypeOK
    <3> QED BY <3>1, <3>2
  <2>6. CASE GiveUp(m)
    <3>1. LeasesDisjoint' /\ PoolMatchesLeases'
      BY <2>2, <2>6, ReleaseKeepsTables DEF GiveUp, TypeOK
    <3>2. TypeOK'
      BY <2>1, <2>3, <2>6 DEF GiveUp, TypeOK
    <3> QED BY <3>1, <3>2
  <2> QED BY <2>3, <2>4, <2>5, <2>6
<1>2. CASE ReadError
  BY <1>2 DEF ReadError, TypeOK, LeasesDisjoint, PoolMatchesLeases
<1>3. CASE ServeAgain
  BY <1>3, NoPacketType DEF ServeAgain, TypeOK, LeasesDisjoint, PoolMatchesLeases
<1>4. CASE UNCHANGED vars
  BY <1>4 DEF vars, TypeOK, LeasesDisjoint, PoolMatchesLeases
<1> QED BY <1>1, <1>2, <1>3, <1>4 DEF Next

\* The inductive invariant holds always.
LEMMA Invariance == Spec => []Inv
BY InitInv, NextInv, PTL DEF Spec

\* The server's state keeps its types: in particular every recorded address
\* lies in the subnet.
THEOREM TypeCorrect == Spec => []TypeOK
BY Invariance, PTL DEF Inv

\* No two clients share an address, for every subnet and every traffic.
THEOREM LeasesAreDisjoint == Spec => []LeasesDisjoint
BY Invariance, PTL DEF Inv

\* The allocator's map and the table of clients always agree.
THEOREM PoolAgrees == Spec => []PoolMatchesLeases
BY Invariance, PTL DEF Inv

------------------------------------------------------------------------------
(* What the answers say.                                                      *)

\* The shape of the answer every case of Serve may write.
LEMMA Answers ==
  ASSUME TypeOK, NEW p \in Packet, NEW src \in Addr, Serve(p, src)
  PROVE  \A r \in reply' :
           /\ r.pkt.chaddr = p.chaddr
           /\ \/ /\ r.pkt.typ = "Offer"
                 /\ r.pkt.yiaddr = conns'[getMac(p.chaddr)]
                 /\ conns'[getMac(p.chaddr)] \in Pool
              \/ /\ r.pkt.typ = "ACK"
                 /\ r.pkt.yiaddr = writeIP(conns'[getMac(p.chaddr)])
              \/ r.pkt.typ = "NAK"
<1> DEFINE m == getMac(p.chaddr)
           D(src0) == IF src0 = ZeroIP THEN BcastIP ELSE src0
<1>m. m \in Mac /\ conns[m] \in Pool \cup {NoIP}
  BY GetMacType DEF Packet, TypeOK
<1>w. ASSUME NEW q, writePacket(src, q)
      PROVE  \A r \in reply' : r = [dst |-> D(src), pkt |-> q]
  BY <1>w DEF writePacket
<1>o. ASSUME NEW ip \in Pool, offer(p, src, ip), conns'[m] = ip
      PROVE  \A r \in reply' : /\ r.pkt.chaddr = p.chaddr
                               /\ r.pkt.typ = "Offer"
                               /\ r.pkt.yiaddr = conns'[m]
                               /\ conns'[m] \in Pool
  BY <1>w, <1>o DEF offer, responsePacket
<1>1. CASE DiscoverKnown(p, src)
  BY <1>1, <1>m, <1>o DEF DiscoverKnown, getIP
<1>2. CASE DiscoverRequested(p, src)
  <2>1. p.rip \in Pool /\ conns' = [conns EXCEPT ![m] = p.rip]
    BY <1>2 DEF DiscoverRequested, grabIP, grabbable, Contains
  <2>2. conns'[m] = p.rip
    BY <2>1, <1>m DEF TypeOK
  <2> QED BY <1>2, <2>1, <2>2, <1>o DEF DiscoverRequested
<1>3. CASE DiscoverNew(p, src)
  <2> DEFINE ip == lowestUsable(allocated)
  <2>1. ip \in Pool
    BY <1>3, LowestUsable DEF DiscoverNew, newIP, Free
  <2>2. conns'[m] = ip
    BY <1>3, <1>m DEF DiscoverNew, newIP, TypeOK
  <2>3. offer(p, src, ip)
    BY <1>3 DEF DiscoverNew
  <2> QED BY <2>1, <2>2, <2>3, <1>o
<1>4. CASE RequestNak(p, src)
  BY <1>4, <1>w DEF RequestNak, responsePacket
<1>5. CASE RequestAck(p, src)
  <2> DEFINE y == writeIP(conns[m])
             a == [responsePacket(p, "ACK") EXCEPT !.ciaddr = p.ciaddr, !.yiaddr = y]
  <2>1. writePacket(src, a) /\ conns' = conns
    BY <1>5 DEF RequestAck, getIP
  <2>2. a.chaddr = p.chaddr /\ a.typ = "ACK" /\ a.yiaddr = y
    <3> HIDE DEF y
    <3> QED BY DEF responsePacket
  <2> HIDE DEF a
  <2> QED BY <2>1, <2>2, <1>w
<1>6. CASE DiscoverFull(p) \/ DeclineOrRelease(p) \/ Ignore(p)
  BY <1>6 DEF DiscoverFull, DeclineOrRelease, Ignore
<1> QED BY <1>1, <1>2, <1>3, <1>4, <1>5, <1>6 DEF Serve

\* An Offer or an ACK carries the address recorded for its client.
THEOREM AnswersCarryLeases == Spec => []AnswerIsLease
<1>1. Init => AnswerIsLease
  BY DEF Init, AnswerIsLease
<1>2. Inv /\ AnswerIsLease /\ [Next]_vars => AnswerIsLease'
  <2> SUFFICES ASSUME Inv, AnswerIsLease, [Next]_vars PROVE AnswerIsLease'
    OBVIOUS
  <2>1. ASSUME NEW p \in Inbound, NEW src \in Source, Serve(p, src)
        PROVE  AnswerIsLease'
    <3>1. p \in Packet /\ src \in Addr /\ TypeOK
      BY ServerAssumption DEF Inv
    <3>2. \A ip \in Pool : writeIP(ip) = ip /\ ip # NoIP
      BY PoolFacts DEF writeIP
    <3> QED BY <2>1, <3>1, <3>2, Answers DEF AnswerIsLease, getIP
  <2>2. CASE ReadError \/ ServeAgain
    BY <2>2 DEF ReadError, ServeAgain, AnswerIsLease
  <2>3. CASE UNCHANGED vars
    BY <2>3 DEF vars, AnswerIsLease, getIP
  <2> QED BY <2>1, <2>2, <2>3 DEF Next
<1> QED BY <1>1, <1>2, Invariance, PTL DEF Spec

\* A Discover is left unanswered only when the subnet is exhausted.
THEOREM UnansweredWhenFull == Spec => []UnansweredOnlyWhenFull
<1>1. Init => UnansweredOnlyWhenFull
  BY DEF Init, UnansweredOnlyWhenFull, NoPacket
<1>2. UnansweredOnlyWhenFull /\ [Next]_vars => UnansweredOnlyWhenFull'
  <2> SUFFICES ASSUME UnansweredOnlyWhenFull, [Next]_vars
               PROVE  UnansweredOnlyWhenFull'
    OBVIOUS
  <2>1. ASSUME NEW p \in Inbound, NEW src \in Source, Serve(p, src)
        PROVE  UnansweredOnlyWhenFull'
    <3>1. CASE DiscoverKnown(p, src) \/ DiscoverRequested(p, src) \/ DiscoverNew(p, src)
      <4>1. reply' # {} \/ serving' = FALSE
        BY <3>1 DEF DiscoverKnown, DiscoverRequested, DiscoverNew, offer, writePacket
      <4> QED BY <4>1 DEF UnansweredOnlyWhenFull
    <3>2. CASE DiscoverFull(p)
      <4>1. Pool \subseteq allocated
        BY <3>2, LowestUsable DEF DiscoverFull, Free, usable
      <4> QED BY <3>2, <4>1 DEF DiscoverFull, Receive, UnansweredOnlyWhenFull, getIP
    <3>3. CASE RequestNak(p, src) \/ RequestAck(p, src) \/ DeclineOrRelease(p) \/ Ignore(p)
      <4>1. req'.typ # "Discover"
        BY <3>3 DEF RequestNak, RequestAck, DeclineOrRelease, Ignore, Receive
      <4> QED BY <4>1 DEF UnansweredOnlyWhenFull
    <3> QED BY <2>1, <3>1, <3>2, <3>3 DEF Serve
  <2>2. CASE ReadError
    BY <2>2 DEF ReadError, UnansweredOnlyWhenFull
  <2>3. CASE ServeAgain
    BY <2>3 DEF ServeAgain, UnansweredOnlyWhenFull, NoPacket
  <2>4. CASE UNCHANGED vars
    BY <2>4 DEF vars, UnansweredOnlyWhenFull, getIP
  <2> QED BY <2>1, <2>2, <2>3, <2>4 DEF Next
<1> QED BY <1>1, <1>2, PTL DEF Spec

------------------------------------------------------------------------------
(* Leases change only as Leases allows.                                       *)

\* The effect of one step on the table of clients.
LEMMA TableStep ==
  ASSUME Inv, [Next]_vars
  PROVE  \/ conns' = conns
         \/ \E m \in Mac, ip \in Pool : Assign(m, ip)
         \/ /\ req'.typ \in {"Decline", "Release"}
            /\ getMac(req'.chaddr) \in Mac
            /\ GiveUp(getMac(req'.chaddr))
<1>1. ASSUME NEW p \in Inbound, NEW src \in Source, Serve(p, src)
      PROVE  \/ conns' = conns
             \/ \E m \in Mac, ip \in Pool : Assign(m, ip)
             \/ /\ req'.typ \in {"Decline", "Release"}
                /\ getMac(req'.chaddr) \in Mac
                /\ GiveUp(getMac(req'.chaddr))
  <2>1. p \in Packet /\ src \in Addr /\ TypeOK
    BY ServerAssumption DEF Inv
  <2>2. getMac(p.chaddr) \in Mac
    BY <2>1, GetMacType DEF Packet
  <2> QED BY <1>1, <2>1, <2>2, ServeCases
<1>2. CASE ReadError \/ ServeAgain \/ UNCHANGED vars
  BY <1>2 DEF ReadError, ServeAgain, vars
<1> QED BY <1>1, <1>2 DEF Next

\* A client loses its address only by its own Decline or Release.
THEOREM LeasesAreStable == Spec => LeaseStable
<1> DEFINE Kept == \A m \in Mac : conns[m] # NoIP /\ conns'[m] # conns[m] =>
                     /\ conns'[m] = NoIP
                     /\ req'.typ \in {"Decline", "Release"}
                     /\ getMac(req'.chaddr) = m
<1>1. Inv /\ [Next]_vars => [Kept]_vars
  <2> SUFFICES ASSUME Inv, [Next]_vars PROVE Kept
    OBVIOUS
  <2>1. conns \in [Mac -> Pool \cup {NoIP}]
    BY DEF Inv, TypeOK
  <2>2. ASSUME NEW m \in Mac, NEW ip \in Pool, Assign(m, ip) PROVE Kept
    <3>1. \A n \in Mac : conns'[n] # conns[n] => n = m
      BY <2>1, <2>2 DEF Assign
    <3> QED BY <2>2, <3>1 DEF Assign
  <2>3. CASE /\ req'.typ \in {"Decline", "Release"}
             /\ getMac(req'.chaddr) \in Mac
             /\ GiveUp(getMac(req'.chaddr))
    <3> DEFINE m == getMac(req'.chaddr)
    <3>1. \A n \in Mac : conns'[n] # conns[n] => n = m /\ conns'[n] = NoIP
      BY <2>1, <2>3 DEF GiveUp
    <3> QED BY <2>3, <3>1
  <2> QED BY TableStep, <2>2, <2>3
<1> QED BY <1>1, Invariance, PTL DEF Spec, LeaseStable

\* The server implements the lease table: every step of it is a grant of a
\* free address, a return, or leaves the table alone.
THEOREM ServerIsLeaseTable == Spec => ImplementsLeases
<1>1. Init => Abstract!Init
  BY DEF Init, Abstract!Init
<1>2. Inv /\ [Next]_vars => [Abstract!Next]_conns
  <2> SUFFICES ASSUME Inv, [Next]_vars, conns' # conns
               PROVE  Abstract!Next
    OBVIOUS
  <2>1. conns \in [Mac -> Pool \cup {NoIP}]
    BY DEF Inv, TypeOK
  <2>2. ASSUME NEW m \in Mac, NEW ip \in Pool, Assign(m, ip)
        PROVE  Abstract!Next
    <3>1. \A n \in Mac : conns[n] # ip
      BY <2>2, PoolFacts DEF Assign, Inv, PoolMatchesLeases
    <3>2. Abstract!Grant(m)
      BY <2>2, <3>1 DEF Assign, Abstract!Grant
    <3> QED BY <3>2 DEF Abstract!Next
  <2>3. CASE getMac(req'.chaddr) \in Mac /\ GiveUp(getMac(req'.chaddr))
    <3> DEFINE m == getMac(req'.chaddr)
    <3> HIDE DEF m
    <3>1. m \in Mac /\ GiveUp(m)
      BY <2>3 DEF m
    <3>2. conns[m] # NoIP
      BY <2>1, <3>1 DEF GiveUp
    <3>3. Abstract!GiveBack(m)
      BY <3>1, <3>2 DEF GiveUp, Abstract!GiveBack
    <3> QED BY <3>1, <3>3 DEF Abstract!Next
  <2> QED BY TableStep, <2>2, <2>3
<1> QED BY <1>1, <1>2, Invariance, PTL DEF Spec, ImplementsLeases, Abstract!Spec

------------------------------------------------------------------------------
(* The allocator's loop is right for every subnet: it implements AddressPool, *)
(* each call of which is one step, as the server takes alloc above.           *)

BP == INSTANCE BytesProofs

\* The increment of an address: its successor, or 0.0.0.0 from the last one.
LEMMA NextIP ==
  ASSUME NEW ip \in Addr
  PROVE  nextIP(ip) = IF ip + 1 = AddrSpace THEN 0 ELSE ip + 1
<1> USE AddrSpaceAssumption DEF Addr, nextIP
<1>1. CASE ip + 1 = AddrSpace
  BY <1>1
<1>2. CASE ip + 1 < AddrSpace
  BY <1>2
<1> QED BY <1>1, <1>2

\* The subnet lies in the address space, and nil is not an address of it.
LEMMA PoolInAddr == Pool \subseteq Addr /\ SubnetIP \in Pool /\ NoIP \notin Pool
BY SubnetAssumption, NoIPAssumption, AddrSpaceAssumption DEF Pool, Addr

\* The types of the allocator's state; in particular only addresses of the
\* subnet are ever allocated.
THEOREM AllocatorTypes == AllocSpec => []AllocTypeOK
<1>1. newIPAllocator => AllocTypeOK
  BY PoolInAddr DEF newIPAllocator, AllocTypeOK
<1>2. AllocTypeOK /\ [AllocNext]_allocVars => AllocTypeOK'
  <2> SUFFICES ASSUME AllocTypeOK, [AllocNext]_allocVars PROVE AllocTypeOK'
    OBVIOUS
  <2> USE DEF AllocTypeOK
  <2>1. ASSUME NEW ip \in Addr \cup {NoIP}, grab(ip) PROVE AllocTypeOK'
    BY <2>1 DEF grab, grabbable, Contains, usable
  <2>2. ASSUME NEW ip \in Addr, free(ip) PROVE AllocTypeOK'
    BY <2>2 DEF free, usable
  <2>3. CASE alloc
    BY <2>3, PoolInAddr DEF alloc
  <2>4. CASE allocTake
    BY <2>4 DEF allocTake, Contains
  <2>5. CASE allocSkip
    <3>1. nextIP(try) \in Addr
      BY NextIP, AddrSpaceAssumption DEF Addr
    <3> QED BY <2>5, <3>1 DEF allocSkip
  <2>6. CASE allocNil
    BY <2>6 DEF allocNil
  <2>7. CASE UNCHANGED allocVars
    BY <2>7 DEF allocVars
  <2> QED BY <2>1, <2>2, <2>3, <2>4, <2>5, <2>6, <2>7 DEF AllocNext, Scan
<1> QED BY <1>1, <1>2, PTL DEF AllocSpec

\* Every step keeps what the scan has passed over allocated.
LEMMA ScanInvStep == AllocTypeOK /\ ScanInv /\ [AllocNext]_allocVars => ScanInv'
<1> SUFFICES ASSUME AllocTypeOK, ScanInv, [AllocNext]_allocVars PROVE ScanInv'
  OBVIOUS
<1> USE DEF AllocTypeOK, ScanInv
<1>1. ASSUME NEW ip \in Addr \cup {NoIP}, grab(ip) PROVE ScanInv'
  BY <1>1 DEF grab
<1>2. ASSUME NEW ip \in Addr, free(ip) PROVE ScanInv'
  BY <1>2 DEF free
<1>3. CASE alloc
  BY <1>3, SubnetAssumption DEF alloc, Contains, Pool, Addr
<1>4. CASE allocTake
  BY <1>4 DEF allocTake
<1>5. CASE allocSkip
  <2>1. PICK t \in Addr : t = try
    OBVIOUS
  <2>2. t \in Pool /\ t \in allocated /\ try' = nextIP(t) /\ UNCHANGED <<allocated, pc>>
    BY <1>5, <2>1 DEF allocSkip, Contains, usable
  <2>3. CASE Pool \subseteq allocated
    BY <2>2, <2>3
  <2>4. CASE \A ip \in Pool : ip < t => ip \in allocated
    <3>1. \A ip \in Pool : ip <= t => ip \in allocated
      BY <2>2, <2>4, SubnetAssumption DEF Pool, Addr
    <3>2. CASE t = SubnetIP + BlockSize - 1
      <4>1. Pool \subseteq allocated
        BY <3>1, <3>2, SubnetAssumption DEF Pool, Addr
      <4> QED BY <4>1, <2>2
    <3>3. CASE t # SubnetIP + BlockSize - 1
      <4>1. t + 1 \in Pool /\ nextIP(t) = t + 1
        BY <2>2, <3>3, NextIP, SubnetAssumption, AddrSpaceAssumption DEF Pool, Addr
      <4>2. \A ip \in Pool : ip < t + 1 => ip \in allocated
        BY <3>1, SubnetAssumption DEF Pool, Addr
      <4> QED BY <4>1, <4>2, <2>2 DEF Contains
    <3> QED BY <3>2, <3>3
  <2> QED BY <1>5, <2>1, <2>3, <2>4 DEF allocSkip
<1>6. CASE allocNil
  BY <1>6 DEF allocNil
<1>7. CASE UNCHANGED allocVars
  BY <1>7 DEF allocVars, Contains
<1> QED BY <1>1, <1>2, <1>3, <1>4, <1>5, <1>6, <1>7 DEF AllocNext, Scan

\* The loop of alloc never passes a free address.
THEOREM ScanPassesAllocated == AllocSpec => []ScanInv
<1>1. newIPAllocator => ScanInv
  BY DEF newIPAllocator, ScanInv
<1> QED BY <1>1, AllocatorTypes, ScanInvStep, PTL DEF AllocSpec

\* The abstract pool reads the subnet the way the allocator does.
LEMMA SameOperators ==
  ASSUME NEW A
  PROVE  /\ CallersView!Free(A) = Free(A)
         /\ CallersView!lowestUsable(A) = lowestUsable(A)
<1>1. CallersView!Free(A) = Free(A)
  BY DEF CallersView!Free, Free, CallersView!Pool, Pool, CallersView!usable, usable
<1>2. CallersView!lowestUsable(A) = lowestUsable(A)
  BY <1>1 DEF CallersView!lowestUsable, lowestUsable
<1> QED BY <1>1, <1>2

\* When the scan stops at a usable address, that is the lowest free one.
LEMMA TakesLowest ==
  ASSUME AllocTypeOK, ScanInv, allocTake
  PROVE  try = lowestUsable(allocated) /\ Free(allocated) # {}
<1>1. try \in Free(allocated)
  BY DEF allocTake, Free, Contains
<1>2. \A ip \in Free(allocated) : try <= ip
  <2>1. \A ip \in Pool : ip < try => ip \in allocated
    BY <1>1 DEF ScanInv, allocTake, Free, usable
  <2> QED BY <2>1, SubnetAssumption DEF AllocTypeOK, Free, usable, Pool, Addr
<1>3. /\ lowestUsable(allocated) \in Free(allocated)
      /\ lowestUsable(allocated) <= try
      /\ try <= lowestUsable(allocated)
  <2>1. \E ip \in Free(allocated) : \A other \in Free(allocated) : ip <= other
    BY <1>1, <1>2
  <2>2. /\ lowestUsable(allocated) \in Free(allocated)
        /\ \A other \in Free(allocated) : lowestUsable(allocated) <= other
    BY <2>1 DEF lowestUsable
  <2> QED BY <1>1, <1>2, <2>2
<1> QED BY <1>1, <1>3, SubnetAssumption DEF AllocTypeOK, Free, Pool, Addr

\* The allocator, loop and all, implements the pool of which each call is one
\* step: alloc returns the lowest free address, and nil only when there is none.
THEOREM AllocatorIsPool == AllocSpec => ImplementsPool
<1>1. newIPAllocator => CallersView!Init
  BY DEF newIPAllocator, CallersView!Init
<1>2. AllocTypeOK /\ ScanInv /\ [AllocNext]_allocVars => [CallersView!Next]_(CallersView!vars)
  <2> SUFFICES ASSUME AllocTypeOK, ScanInv, [AllocNext]_allocVars
               PROVE  CallersView!Next \/ UNCHANGED <<allocated, ret>>
    BY DEF CallersView!vars
  <2>1. ASSUME NEW ip \in Addr \cup {NoIP}, grab(ip) PROVE CallersView!Next
    <3>1. grabbable(allocated, ip) = (ip \in Free(allocated))
      BY DEF grabbable, Contains, Free
    <3>2. allocated' = allocated \cup ({ip} \cap Free(allocated))
      BY <2>1, <3>1 DEF grab
    <3>3. CallersView!Grab(ip)
      BY <2>1, <3>1, <3>2, SameOperators DEF grab, CallersView!Grab
    <3> QED BY <3>3 DEF CallersView!Next, CallersView!Addr, Addr
  <2>2. ASSUME NEW ip \in Addr, free(ip) PROVE CallersView!Next
    <3>1. CallersView!GiveBack(ip)
      BY <2>2 DEF free, usable, CallersView!GiveBack
    <3> QED BY <3>1 DEF CallersView!Next, CallersView!Addr, Addr
  <2>3. CASE alloc
    BY <2>3 DEF alloc
  <2>4. CASE allocTake
    <3>1. try # NoIP
      BY NoIPAssumption DEF AllocTypeOK
    <3>2. CallersView!Alloc
      BY <2>4, <3>1, TakesLowest, SameOperators DEF allocTake, CallersView!Alloc
    <3> QED BY <3>2 DEF CallersView!Next
  <2>5. CASE allocSkip
    BY <2>5 DEF allocSkip
  <2>6. CASE allocNil
    <3>1. Free(allocated) = {}
      BY <2>6 DEF allocNil, ScanInv, Free, usable
    <3>2. lowestUsable(allocated) = NoIP
      BY <3>1 DEF lowestUsable
    <3>3. CallersView!Alloc
      BY <2>6, <3>1, <3>2, SameOperators DEF allocNil, CallersView!Alloc
    <3> QED BY <3>3 DEF CallersView!Next
  <2>7. CASE UNCHANGED allocVars
    BY <2>7 DEF allocVars
  <2> QED BY <2>1, <2>2, <2>3, <2>4, <2>5, <2>6, <2>7 DEF AllocNext, Scan
<1> QED
  BY <1>1, <1>2, AllocatorTypes, ScanPassesAllocated, PTL
  DEF AllocSpec, ImplementsPool, CallersView!Spec

------------------------------------------------------------------------------
(* The same on bytes: what ipalloc.go computes on the slices of a net.IP is   *)
(* what the allocator above does with numbers.                                *)

\* The allocator and the lemmas about bytes mean the same by them.
LEMMA SameBytes ==
  /\ B!Base = BP!Base
  /\ \A n : B!Power(n) = BP!Power(n)
  /\ \A n, v : B!PutUint(n, v) = BP!PutUint(n, v)
  /\ \A x : B!To16(x) = BP!To16(x)
  /\ \A x : B!nextIP(x) = BP!nextIP(x)
  /\ \A x : B!ipToUint32(x) = BP!ipToUint32(x)
  /\ \A x, y, z : B!SubnetContains(x, y, z) = BP!SubnetContains(x, y, z)
<1> USE DEF B!Base, BP!Base, B!Power, BP!Power
<1>1. B!Base = BP!Base
  OBVIOUS
<1>2. \A n : B!Power(n) = BP!Power(n)
  OBVIOUS
<1>3. \A n, v : B!PutUint(n, v) = BP!PutUint(n, v)
  BY DEF B!PutUint, BP!PutUint
<1>4. \A x : B!To16(x) = BP!To16(x)
  BY DEF B!To16, BP!To16
<1>5. \A x : B!nextIP(x) = BP!nextIP(x)
  BY DEF B!nextIP, BP!nextIP
<1>6. \A x : B!To4(x) = BP!To4(x)
  BY DEF B!To4, BP!To4, B!Nil, BP!Nil
<1>7. \A x : B!ipToUint32(x) = BP!ipToUint32(x)
  <2>1. \A x : B!LittleUint(x) = BP!LittleUint(x)
    BY DEF B!LittleUint, BP!LittleUint, B!Uint, BP!Uint
  <2> QED BY <1>6, <2>1 DEF B!ipToUint32, BP!ipToUint32
<1>8. \A x, y, z : B!SubnetContains(x, y, z) = BP!SubnetContains(x, y, z)
  BY <1>6 DEF B!SubnetContains, BP!SubnetContains, B!Masked, BP!Masked, B!Nil, BP!Nil
<1> QED BY <1>1, <1>2, <1>3, <1>4, <1>5, <1>7, <1>8

\* What the lemmas about bytes assume of addresses.
LEMMA BytesAssumptions ==
  /\ MaxUint8 \in Nat \ {0} /\ IPv4len \in Nat \ {0}
  /\ V4InV6Prefix \in Seq(BP!Byte) /\ Len(V4InV6Prefix) >= IPv4len
  /\ AddrSpace = BP!Power(IPv4len) /\ IPv4len \in Nat
BY AddressesAssumption, SameBytes DEF BP!Byte

\* An address has IPv4len bytes, which tell it from every other.
LEMMA BytesTell ==
  ASSUME NEW ip \in Addr
  PROVE  /\ ip \in Nat /\ ip < BP!Power(IPv4len)
         /\ Bytes(ip) = BP!PutUint(IPv4len, ip)
         /\ BP!PutUint(IPv4len, ip) \in Seq(BP!Byte) /\ Len(BP!PutUint(IPv4len, ip)) = IPv4len
         /\ BP!Uint(BP!PutUint(IPv4len, ip)) = ip
<1>1. ip \in Nat /\ ip < BP!Power(IPv4len)
  BY BytesAssumptions, AddrSpaceAssumption DEF Addr
<1>2. Bytes(ip) = BP!PutUint(IPv4len, ip)
  BY SameBytes DEF Bytes
<1>3. BP!PutUint(IPv4len, ip) \in Seq(BP!Byte) /\ Len(BP!PutUint(IPv4len, ip)) = IPv4len
  BY <1>1, BytesAssumptions, BP!PutUintType
<1>4. BP!Uint(BP!PutUint(IPv4len, ip)) = ip
  BY <1>1, BytesAssumptions, BP!UintOfPutUint
<1> QED BY <1>1, <1>2, <1>3, <1>4

\* nextIP turns the bytes of an address into those of the next one, and the
\* bytes are in the subnet when the number is.
LEMMA BytesOfTry ==
  ASSUME AllocTypeOK
  PROVE  ScanOnBytes
<1>1. try \in Addr
  BY DEF AllocTypeOK
<1>2. PICK t \in Addr : t = try
  BY <1>1
<1> DEFINE n == IPv4len
           b == BP!PutUint(n, t)
<1>3. t \in Nat /\ t < BP!Power(n) /\ Bytes(t) = b
  BY BytesTell
<1>4. B!nextIP(Bytes(t)) = Bytes(nextIP(t))
  <2>1. BP!nextIP(b) = BP!PutUint(n, IF t + 1 = BP!Power(n) THEN 0 ELSE t + 1)
    BY <1>3, BytesAssumptions, BP!NextIPOfBytes
  <2>2. nextIP(t) = IF t + 1 = BP!Power(n) THEN 0 ELSE t + 1
    BY NextIP, BytesAssumptions
  <2> QED BY <1>3, <2>1, <2>2, SameBytes DEF Bytes
<1>5. ASSUME NEW f \in Forms(t)
      PROVE  B!SubnetContains(subnetIP, subnetMask, f) <=> Contains(t)
  <2>1. PICK m \in 0 .. n - 1 : \E P \in 1 .. BP!Base, D \in 1 .. BP!Base, q \in 0 .. AddrSpace :
           P * D = BP!Base /\ BlockSize = P * BP!Power(m) /\ SubnetIP = q * BlockSize
    BY CIDRAssumption, SameBytes
  <2>2. PICK P \in 1 .. BP!Base, D \in 1 .. BP!Base, q \in 0 .. AddrSpace :
           P * D = BP!Base /\ BlockSize = P * BP!Power(m) /\ SubnetIP = q * BlockSize
    BY <2>1
  <2>3. P \in Nat \ {0} /\ D \in Nat \ {0} /\ q \in Nat
    BY AddrSpaceAssumption
  <2>4. f \in {b, BP!To16(b)}
    BY <1>3, SameBytes DEF Forms
  <2>5. SubnetIP \in Nat /\ SubnetIP < BP!Power(n) /\ SubnetIP = q * (P * BP!Power(m))
    BY <2>2, BytesTell, SubnetAssumption
  <2>6. BP!SubnetContains(BP!PutUint(n, SubnetIP), BP!PutUint(n, BP!Power(n) - P * BP!Power(m)), f)
          <=> t \in SubnetIP .. SubnetIP + P * BP!Power(m) - 1
    BY <2>2, <2>3, <2>4, <2>5, <1>3, BytesAssumptions, BP!ContainsTellsBlock
  <2>7. /\ subnetIP = BP!PutUint(n, SubnetIP)
        /\ subnetMask = BP!PutUint(n, BP!Power(n) - P * BP!Power(m))
    BY <2>2, SameBytes, BytesAssumptions DEF subnetIP, subnetMask, Bytes
  <2> QED BY <2>2, <2>6, <2>7, SameBytes DEF Contains, Pool
<1> QED BY <1>2, <1>4, <1>5 DEF ScanOnBytes

\* At every address the scan looks at, the carry of nextIP and the masks of
\* IPNet.Contains do on the bytes what the scan does with numbers, for every
\* subnet in CIDR notation.
THEOREM ScanIsOnBytes == AllocSpec => []ScanOnBytes
<1>1. AllocTypeOK => ScanOnBytes
  BY BytesOfTry
<1> QED BY <1>1, AllocatorTypes, PTL

\* The keys of the allocator's map tell the addresses of the subnet apart, in
\* whichever form an address is given.
LEMMA KeysOfAllocated ==
  ASSUME AllocTypeOK
  PROVE  KeysTellAddresses
<1> DEFINE K(f) == B!ipToUint32(f)
<1>1. ASSUME NEW ip \in Addr, NEW f \in Forms(ip), NEW other \in Addr
      PROVE  K(f) = K(Bytes(other)) <=> ip = other
  <2> DEFINE x == BP!PutUint(IPv4len, ip)
             y == BP!PutUint(IPv4len, other)
  <2>1. /\ x \in Seq(BP!Byte) /\ Len(x) = IPv4len /\ BP!Uint(x) = ip /\ Bytes(ip) = x
        /\ y \in Seq(BP!Byte) /\ Len(y) = IPv4len /\ BP!Uint(y) = other /\ Bytes(other) = y
    BY BytesTell
  <2>2. f \in {x, BP!To16(x)}
    BY <2>1, SameBytes DEF Forms
  <2> HIDE DEF x, y
  <2>3. BP!ipToUint32(f) = BP!ipToUint32(y) <=> x = y
    BY <2>1, <2>2, BytesAssumptions, BP!KeyTells
  <2>4. x = y <=> ip = other
    BY <2>1 DEF x, y
  <2> QED BY <2>1, <2>3, <2>4, SameBytes
<1>2. allocated \subseteq Addr
  BY PoolInAddr DEF AllocTypeOK
<1> HIDE DEF K
<1>3. ASSUME NEW ip \in Addr, NEW f \in Forms(ip)
      PROVE  K(f) \in {K(Bytes(a)) : a \in allocated} <=> ~usable(allocated, ip)
  BY <1>1, <1>2 DEF usable
<1> QED BY <1>3 DEF KeysTellAddresses, K

\* What the map of allocated addresses is asked, by 32-bit keys, is answered
\* for the address that was meant.
THEOREM KeysAreAddresses == AllocSpec => []KeysTellAddresses
<1>1. AllocTypeOK => KeysTellAddresses
  BY KeysOfAllocated
<1> QED BY <1>1, AllocatorTypes, PTL
==============================================================================
