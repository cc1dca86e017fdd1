----------------------------- MODULE SystemProofs -----------------------------
(* However packets are lost, delayed, duplicated and reordered, clients hold *)
(* what the server has recorded for them and no two hold the same address,   *)
(* for any number of clients whose transaction IDs differ.                   *)
EXTENDS System, TLAPS, WellFoundedInduction

\* A set of naturals that is not empty has a least element.
LEMMA LeastNatural ==
  ASSUME NEW T, T \subseteq Nat, T # {}
  PROVE  \E x \in T : \A y \in T : x <= y
<1> DEFINE R == {ss \in Nat \X Nat : ss[1] < ss[2]}
<1>1. IsWellFoundedOn(R, Nat)
  BY NatLessThanWellFounded DEF OpToRel
<1>2. PICK x \in T : \A y \in T : ~(<<y, x>> \in R)
  <2> HIDE DEF R
  <2> QED BY <1>1, WFMin
<1>3. \A y \in T : x <= y
  <2> TAKE y \in T
  <2>1. y \in Nat /\ x \in Nat
    OBVIOUS
  <2>2. ~(y < x)
    <3>1. y < x => <<y, x>> \in R
      BY <2>1
    <3> HIDE DEF R
    <3> QED BY <3>1, <1>2
  <2> QED BY <2>1, <2>2
<1> QED BY <1>3

\* What alloc returns: nil exactly when no address is free, and otherwise a
\* free address below which none is free.
LEMMA LowestUsable ==
  ASSUME NEW A
  PROVE  /\ lowestUsable(A) = NoIP <=> Free(A) = {}
         /\ Free(A) # {} => /\ lowestUsable(A) \in Free(A)
                            /\ \A ip \in Free(A) : lowestUsable(A) <= ip
<1> DEFINE F == Free(A)
<1>1. F \subseteq Nat /\ NoIP \notin F
  BY SubnetAssumption, NoIPAssumption, AddrSpaceAssumption DEF Free, Pool, Addr
<1>2. CASE F = {}
  BY <1>2 DEF lowestUsable
<1>3. CASE F # {}
  <2>1. \E x \in F : \A y \in F : x <= y
    <3> HIDE DEF F
    <3> QED BY <1>1, <1>3, LeastNatural
  <2>2. lowestUsable(A) = CHOOSE x \in F : \A y \in F : x <= y
    BY <1>3 DEF lowestUsable
  <2>3. lowestUsable(A) \in F /\ \A y \in F : lowestUsable(A) <= y
    <3> HIDE DEF F
    <3> QED BY <2>1, <2>2
  <2> QED BY <2>3, <1>1, <1>3
<1> QED BY <1>2, <1>3

\* What dhcp4client takes for granted: the ends of two clients' hardware
\* addresses, of which they make their transaction IDs, differ.
DistinctIDs ==
  \A c, d \in Client : macToID(HwAddr[c]) = macToID(HwAddr[d]) => c = d

Key(c) == S!getMac(HwAddr[c])

\* Packets of client c to the server, and of the server to client c.
FromClient(c, p) ==
  /\ p.typ \in {"Discover", "Request"}
  /\ p.xid = macToID(HwAddr[c])
  /\ p.chaddr = HwAddr[c]
  /\ p.typ = "Request" => p.rip \in Addr

ToClient(c, p) ==
  /\ p.xid = macToID(HwAddr[c])
  /\ p.chaddr = HwAddr[c]
  /\ p.yiaddr \in Addr
  /\ p.typ = "ACK" => conns[Key(c)] = p.yiaddr

\* The inductive invariant has four parts: the server's tables agree (with
\* them S!LeasesDisjoint is inductive), every packet in flight belongs to a
\* client, an ACK in flight carries what is recorded now, and what a client was
\* given was in flight.
Tables ==
  /\ conns \in [S!Mac -> Pool \cup {NoIP}]
  /\ S!LeasesDisjoint
  /\ S!PoolMatchesLeases

Clients ==
  /\ pc \in [Client -> {"idle", "recv", "join"}]
  /\ req = [c \in Client |-> req[c]]
  /\ result = [c \in Client |-> result[c]]
  /\ \A c \in Client : pc[c] = "recv" => FromClient(c, req[c])
  /\ \A c \in Client : result[c].err = "nil" =>
       result[c].pkt \in toClients /\ result[c].pkt.xid = macToID(HwAddr[c])

Network ==
  /\ \A p \in toServer : \E c \in Client : FromClient(c, p)
  /\ \A p \in toClients : \E c \in Client : ToClient(c, p)

Inv == Tables /\ Clients /\ Network

------------------------------------------------------------------------------
(* The server *)

\* The server reads the subnet the way the system does.
LEMMA SameSubnet ==
  ASSUME NEW A
  PROVE  S!Pool = Pool /\ S!lowestUsable(A) = lowestUsable(A)
<1>1. S!Pool = Pool
  BY DEF S!Pool, Pool
<1>2. S!Free(A) = Free(A)
  BY <1>1 DEF S!Free, Free, S!usable, usable
<1> QED BY <1>1, <1>2 DEF S!lowestUsable, lowestUsable

\* A client's key is one of the keys of the server's map.
LEMMA KeyType ==
  ASSUME NEW c \in Client
  PROVE  Key(c) \in S!Mac
BY HwAssumption, PacketsAssumption DEF Key, S!getMac, S!Mac

\* The keys of different clients differ.
LEMMA KeyTellsClients ==
  ASSUME DistinctIDs, NEW c \in Client, NEW d \in Client, Key(c) = Key(d)
  PROVE  c = d
<1>1. HwAddr[c] \in [1 .. HwLen -> Byte] /\ HwAddr[d] \in [1 .. HwLen -> Byte]
  BY HwAssumption
<1>2. \A k \in 1 .. HwLen : /\ k \in 1 .. ChaddrLen
                           /\ k \in DOMAIN HwAddr[c] /\ k \in DOMAIN HwAddr[d]
  BY <1>1, HwAssumption, PacketsAssumption
<1>3. \A k \in 1 .. HwLen : HwAddr[c][k] = HwAddr[d][k]
  BY <1>2 DEF S!getMac, Key
<1>4. macToID(HwAddr[c]) = macToID(HwAddr[d])
  <2>1. \A k \in 1 .. TxidLen : HwLen + 1 - k \in 1 .. HwLen
    BY HwAssumption, PacketsAssumption
  <2> QED BY <1>3, <2>1 DEF macToID
<1> QED BY <1>4 DEF DistinctIDs

\* How a step of the server changes its maps.
Assign(m, ip) ==
  /\ conns[m] = NoIP
  /\ ip \in Pool \ allocated
  /\ allocated' = allocated \cup {ip}
  /\ conns' = [conns EXCEPT ![m] = ip]

Written(p) == \A r \in reply' : r.pkt = p

\* writePacket sends the packet it is given or nothing.
LEMMA WritePacket ==
  ASSUME NEW src, NEW p, S!writePacket(src, p)
  PROVE  Written(p)
BY DEF S!writePacket, Written

\* The answer to a client's packet is for that client, an ACK carries the
\* address recorded for it, and no address is taken away.
LEMMA ServeStep ==
  ASSUME Inv, NEW c \in Client, NEW p, FromClient(c, p), S!Serve(p, ZeroIP)
  PROVE  /\ \/ UNCHANGED <<conns, allocated>>
            \/ \E ip \in Pool : Assign(Key(c), ip)
         /\ \A r \in reply' : /\ r.pkt.xid = macToID(HwAddr[c])
                              /\ r.pkt.chaddr = HwAddr[c]
                              /\ r.pkt.yiaddr \in Addr
                              /\ r.pkt.typ = "ACK" => conns'[Key(c)] = r.pkt.yiaddr
<1> DEFINE Changes == \/ UNCHANGED <<conns, allocated>>
                      \/ \E ip \in Pool : Assign(Key(c), ip)
           Answers == \A r \in reply' :
                        /\ r.pkt.xid = macToID(HwAddr[c])
                        /\ r.pkt.chaddr = HwAddr[c]
                        /\ r.pkt.yiaddr \in Addr
                        /\ r.pkt.typ = "ACK" => conns'[Key(c)] = r.pkt.yiaddr
<1>p. /\ p.typ \in {"Discover", "Request"}
      /\ p.xid = macToID(HwAddr[c])
      /\ p.chaddr = HwAddr[c]
      /\ p.typ = "Request" => p.rip \in Addr
  BY DEF FromClient
<1>k. Key(c) \in S!Mac /\ S!getIP(p.chaddr) = conns[Key(c)]
  BY <1>p, KeyType DEF S!getIP, Key
<1>c. conns[Key(c)] \in Pool \cup {NoIP}
  BY <1>k DEF Inv, Tables
<1>a. Pool \subseteq Addr /\ 0 \in Addr /\ NoIP \notin Addr
  BY SubnetAssumption, AddrSpaceAssumption, NoIPAssumption DEF Pool, Addr
<1>o. ASSUME NEW ip \in Pool, S!offer(p, ZeroIP, ip)
      PROVE  Answers
  <2> DEFINE q == [S!responsePacket(p, "Offer") EXCEPT !.yiaddr = ip]
  <2>1. Written(q)
    BY <1>o, WritePacket DEF S!offer
  <2>2. q.xid = p.xid /\ q.chaddr = p.chaddr /\ q.yiaddr = ip /\ q.typ = "Offer"
    BY DEF S!responsePacket
  <2> HIDE DEF q
  <2> QED BY <2>1, <2>2, <1>p, <1>a DEF Written
<1>1. CASE S!DiscoverKnown(p, ZeroIP)
  <2>1. conns[Key(c)] \in Pool
    BY <1>1, <1>k, <1>c DEF S!DiscoverKnown
  <2> QED BY <1>1, <2>1, <1>o, <1>k DEF S!DiscoverKnown
<1>2. CASE S!DiscoverRequested(p, ZeroIP)
  <2>1. p.rip \in Pool /\ Assign(Key(c), p.rip)
    BY <1>2, <1>k, <1>p, SameSubnet
    DEF S!DiscoverRequested, S!grabIP, S!grabbable, S!Contains, S!usable, Assign, Key
  <2> QED BY <1>2, <2>1, <1>o DEF S!DiscoverRequested
<1>3. CASE S!DiscoverNew(p, ZeroIP)
  <2> DEFINE ip == lowestUsable(allocated)
  <2>1. S!lowestUsable(allocated) = ip
    BY SameSubnet
  <2>2. ip # NoIP /\ S!newIP(p.chaddr)
    BY <1>3, <2>1 DEF S!DiscoverNew, S!newIP
  <2>3. ip \in Pool /\ ip \notin allocated
    BY <2>2, LowestUsable DEF Free, usable
  <2>4. Assign(Key(c), ip)
    BY <2>1, <2>2, <2>3, <1>k, <1>p DEF S!newIP, Assign, Key
  <2>5. S!offer(p, ZeroIP, ip)
    BY <1>3, <2>1 DEF S!DiscoverNew
  <2> HIDE DEF ip
  <2> QED BY <2>3, <2>4, <2>5, <1>o
<1>4. CASE S!DiscoverFull(p)
  BY <1>4 DEF S!DiscoverFull
<1>5. CASE S!RequestNak(p, ZeroIP)
  <2> DEFINE q == S!responsePacket(p, "NAK")
  <2>1. Written(q)
    BY <1>5, WritePacket DEF S!RequestNak
  <2>2. q.xid = p.xid /\ q.chaddr = p.chaddr /\ q.yiaddr = 0 /\ q.typ = "NAK"
    BY DEF S!responsePacket, S!ZeroIP
  <2> HIDE DEF q
  <2> QED BY <2>1, <2>2, <1>5, <1>p, <1>a DEF Written, S!RequestNak
<1>6. CASE S!RequestAck(p, ZeroIP)
  <2>1. p.typ = "Request" /\ p.rip = conns[Key(c)]
    BY <1>6, <1>k DEF S!RequestAck, S!Receive
  <2>2. conns[Key(c)] \in Pool /\ conns[Key(c)] # NoIP
    BY <2>1, <1>p, <1>c, <1>a
  <2> DEFINE q == [S!responsePacket(p, "ACK") EXCEPT
                     !.ciaddr = p.ciaddr, !.yiaddr = S!writeIP(S!getIP(p.chaddr))]
  <2>3. Written(q)
    BY <1>6, WritePacket DEF S!RequestAck
  <2>4. q.xid = p.xid /\ q.chaddr = p.chaddr /\ q.yiaddr = conns[Key(c)]
    BY <2>2, <1>k DEF S!responsePacket, S!writeIP
  <2>5. UNCHANGED <<conns, allocated>>
    BY <1>6 DEF S!RequestAck
  <2> HIDE DEF q
  <2> QED BY <2>2, <2>3, <2>4, <2>5, <1>p, <1>a DEF Written
<1>7. CASE S!DeclineOrRelease(p)
  BY <1>7, <1>p DEF S!DeclineOrRelease, S!Receive
<1>8. CASE S!Ignore(p)
  BY <1>8, <1>p DEF S!Ignore, S!Receive
<1> QED BY <1>1, <1>2, <1>3, <1>4, <1>5, <1>6, <1>7, <1>8 DEF S!Serve

\* The server's tables agree after it has assigned a free address.
LEMMA AssignKeepsTables ==
  ASSUME Tables, NEW m \in S!Mac, NEW ip \in Pool, Assign(m, ip)
  PROVE  Tables'
<1>1. /\ conns \in [S!Mac -> Pool \cup {NoIP}]
      /\ allocated = {conns[n] : n \in S!Mac} \ {NoIP}
      /\ \A n, k \in S!Mac : conns[n] # NoIP /\ conns[n] = conns[k] => n = k
  BY DEF Tables, S!PoolMatchesLeases, S!LeasesDisjoint
<1>2. NoIP \notin Pool
  BY SubnetAssumption, AddrSpaceAssumption, NoIPAssumption DEF Pool, Addr
<1>3. \A n \in S!Mac : conns[n] # ip
  BY <1>1, <1>2 DEF Assign
<1>4. /\ conns' \in [S!Mac -> Pool \cup {NoIP}]
      /\ \A n \in S!Mac : conns'[n] = IF n = m THEN ip ELSE conns[n]
  BY <1>1 DEF Assign
<1>5. S!LeasesDisjoint'
  BY <1>1, <1>3, <1>4 DEF S!LeasesDisjoint
<1>6. S!PoolMatchesLeases'
  <2>1. allocated' = {conns'[n] : n \in S!Mac} \ {NoIP}
    BY <1>1, <1>2, <1>4 DEF Assign
  <2> QED BY <2>1 DEF S!PoolMatchesLeases
<1> QED BY <1>4, <1>5, <1>6 DEF Tables

\* Assigning a free address changes none that is recorded.
LEMMA AssignKeepsLeases ==
  ASSUME Tables, NEW m \in S!Mac, NEW ip \in Pool, Assign(m, ip),
         NEW n \in S!Mac, conns[n] # NoIP
  PROVE  conns'[n] = conns[n]
BY DEF Tables, Assign

------------------------------------------------------------------------------
(* The system *)

\* Before anything was sent the invariant holds.
LEMMA InitInv == Init => Inv
<1> SUFFICES ASSUME Init PROVE Inv
  OBVIOUS
<1>1. conns = [m \in S!Mac |-> NoIP] /\ allocated = {} /\ toServer = {} /\ toClients = {}
  BY DEF Init, S!Init
<1>2. Tables
  BY <1>1 DEF Tables, S!LeasesDisjoint, S!PoolMatchesLeases
<1>3. Clients
  BY <1>1 DEF Init, E!Init, Clients
<1> QED BY <1>1, <1>2, <1>3 DEF Inv, Network

\* A packet a client was given is one it may answer with a Request.
LEMMA RequestIsFromClient ==
  ASSUME Inv, NEW c \in Client, result[c].err = "nil"
  PROVE  FromClient(c, E!RequestPacket(c, result[c].pkt))
<1>1. result[c].pkt \in toClients /\ result[c].pkt.xid = macToID(HwAddr[c])
  BY DEF Inv, Clients
<1>2. result[c].pkt.yiaddr \in Addr
  BY <1>1 DEF Inv, Network, ToClient
<1> QED BY <1>1, <1>2 DEF E!RequestPacket, FromClient

\* An exchange begins with a packet of its client.
LEMMA BeginKeepsClients ==
  ASSUME Inv, NEW c \in Client, NEW name, NEW p, FromClient(c, p),
         E!Begin(c, name, p), UNCHANGED network
  PROVE  Clients'
<1>1. /\ pc' = [pc EXCEPT ![c] = "recv"]
      /\ req' = [req EXCEPT ![c] = p]
      /\ result' = result /\ toClients' = toClients
  BY DEF E!Begin, network
<1>2. /\ pc \in [Client -> {"idle", "recv", "join"}]
      /\ req = [d \in Client |-> req[d]]
      /\ result = [d \in Client |-> result[d]]
  BY DEF Inv, Clients
<1>3. \A d \in Client : /\ pc'[d] = IF d = c THEN "recv" ELSE pc[d]
                        /\ req'[d] = IF d = c THEN p ELSE req[d]
  BY <1>1, <1>2
<1>4. /\ pc' \in [Client -> {"idle", "recv", "join"}]
      /\ req' = [d \in Client |-> req'[d]]
  BY <1>1, <1>2
<1>5. \A d \in Client : pc'[d] = "recv" => FromClient(d, req'[d])
  BY <1>3 DEF Inv, Clients
<1>6. \A d \in Client : result'[d].err = "nil" =>
        result'[d].pkt \in toClients' /\ result'[d].pkt.xid = macToID(HwAddr[d])
  BY <1>1 DEF Inv, Clients
<1>7. \A d \in Client : pc'[d] = "recv" => FromClient(d, req[d])'
  BY <1>5 DEF FromClient
<1> QED BY <1>1, <1>2, <1>4, <1>6, <1>7 DEF Clients

\* An exchange ends with an error, or with a packet of the network that has the
\* client's transaction ID.
LEMMA DecideKeepsClients ==
  ASSUME Inv, NEW c \in Client, NEW r, E!Decide(c, r), UNCHANGED network,
         r.err = "nil" => r.pkt \in toClients /\ r.pkt.xid = macToID(HwAddr[c])
  PROVE  Clients'
<1>1. /\ pc' = [pc EXCEPT ![c] = "join"]
      /\ result' = [result EXCEPT ![c] = r]
      /\ req' = req /\ toClients' = toClients
  BY DEF E!Decide, network
<1>2. /\ pc \in [Client -> {"idle", "recv", "join"}]
      /\ req = [d \in Client |-> req[d]]
      /\ result = [d \in Client |-> result[d]]
  BY DEF Inv, Clients
<1>3. \A d \in Client : /\ pc'[d] = IF d = c THEN "join" ELSE pc[d]
                        /\ result'[d] = IF d = c THEN r ELSE result[d]
  BY <1>1, <1>2
<1>4. /\ pc' \in [Client -> {"idle", "recv", "join"}]
      /\ result' = [d \in Client |-> result'[d]]
  BY <1>1, <1>2
<1>5. \A d \in Client : pc'[d] = "recv" => FromClient(d, req[d])
  BY <1>3 DEF Inv, Clients
<1>6. \A d \in Client : result'[d].err = "nil" =>
        result'[d].pkt \in toClients' /\ result'[d].pkt.xid = macToID(HwAddr[d])
  BY <1>1, <1>3 DEF Inv, Clients
<1>7. \A d \in Client : pc'[d] = "recv" => FromClient(d, req[d])'
  BY <1>1, <1>5 DEF FromClient
<1> QED BY <1>1, <1>2, <1>4, <1>6, <1>7 DEF Clients

\* Steps of the clients' exchanges keep the invariant.
LEMMA ExchangeKeepsInv ==
  ASSUME Inv, NEW c \in Client, Begin(c) \/ End(c)
  PROVE  Inv'
<1>1. UNCHANGED <<server, network>>
  BY DEF Begin, End
<1>2. Tables' /\ Network'
  <2>1. Tables'
    BY <1>1 DEF Inv, Tables, server, S!LeasesDisjoint, S!PoolMatchesLeases
  <2>2. \A p \in toClients', d \in Client : ToClient(d, p) => ToClient(d, p)'
    BY <1>1 DEF ToClient, server
  <2>3. \A p \in toServer', d \in Client : FromClient(d, p) => FromClient(d, p)'
    BY DEF FromClient
  <2>4. toServer' = toServer /\ toClients' = toClients
    BY <1>1 DEF network
  <2>5. /\ \A p \in toServer' : \E d \in Client : FromClient(d, p)
        /\ \A p \in toClients' : \E d \in Client : ToClient(d, p)
    BY <2>4 DEF Inv, Network
  <2>6. Network'
    BY <2>2, <2>3, <2>5 DEF Network
  <2> QED BY <2>1, <2>6
<1>3. CASE E!CallDiscover(c)
  <2>1. PICK name : E!Begin(c, name, E!DiscoverPacket(c))
    BY <1>3 DEF E!CallDiscover
  <2>2. FromClient(c, E!DiscoverPacket(c))
    BY DEF E!DiscoverPacket, FromClient, E!macToID, macToID
  <2> QED BY <2>1, <2>2, <1>1, <1>2, BeginKeepsClients DEF Inv
<1>4. CASE E!CallRenew(c)
  BY <1>4, <1>1, <1>2, RequestIsFromClient, BeginKeepsClients DEF Inv, E!CallRenew
<1>5. CASE E!GoOn(c)
  BY <1>5, <1>1, <1>2, RequestIsFromClient, BeginKeepsClients DEF Inv, E!GoOn
<1>6. CASE \E p \in toClients : E!Succeed(c, p)
  <2>1. PICK p \in toClients : E!Succeed(c, p)
    BY <1>6
  <2>2. E!Decide(c, [err |-> "nil", pkt |-> p]) /\ p.xid = req[c].xid /\ pc[c] = "recv"
    BY <2>1 DEF E!Succeed, E!Decide
  <2>3. p.xid = macToID(HwAddr[c])
    BY <2>2 DEF Inv, Clients, FromClient
  <2> QED BY <2>2, <2>3, <1>1, <1>2, DecideKeepsClients DEF Inv
<1>7. CASE E!Fail(c)
  <2>1. PICK err : err # "nil" /\ E!Decide(c, [err |-> err, pkt |-> E!NoPacket])
    BY <1>7 DEF E!Fail
  <2> QED BY <2>1, <1>1, <1>2, DecideKeepsClients DEF Inv
<1>8. CASE E!Return(c)
  <2>1. /\ pc' = [pc EXCEPT ![c] = "idle"]
        /\ req' = req /\ result' = result /\ toClients' = toClients
    BY <1>8, <1>1 DEF E!Return, network
  <2>2. pc' \in [Client -> {"idle", "recv", "join"}]
    BY <2>1 DEF Inv, Clients
  <2>3. \A d \in Client : pc'[d] = "recv" => FromClient(d, req[d])'
    BY <2>1 DEF Inv, Clients, FromClient
  <2>4. Clients'
    BY <2>1, <2>2, <2>3 DEF Inv, Clients
  <2> QED BY <2>4, <1>2 DEF Inv
<1> QED BY <1>3, <1>4, <1>5, <1>6, <1>7, <1>8 DEF Begin, End

\* A transmission puts a packet of its sender on the network.
LEMMA SendKeepsInv ==
  ASSUME Inv, NEW c \in Client, Send(c)
  PROVE  Inv'
<1>1. /\ UNCHANGED <<clients, server, toClients>>
      /\ toServer' = toServer \cup {req[c]}
      /\ FromClient(c, req[c])
  BY DEF Send, Inv, Clients
<1>2. /\ pc' = pc /\ req' = req /\ result' = result
      /\ conns' = conns /\ allocated' = allocated /\ toClients' = toClients
  BY <1>1 DEF clients, server
<1>3. Tables' /\ Clients'
  BY <1>2 DEF Inv, Tables, Clients, S!LeasesDisjoint, S!PoolMatchesLeases, FromClient
<1>4. \A p \in toServer' : \E d \in Client : FromClient(d, p)
  BY <1>1 DEF Inv, Network
<1>5. \A p \in toClients' : \E d \in Client : ToClient(d, p)
  BY <1>2 DEF Inv, Network
<1>6. \A p, d : FromClient(d, p)' <=> FromClient(d, p)
  BY DEF FromClient
<1>7. \A p, d : ToClient(d, p)' <=> ToClient(d, p)
  BY <1>2 DEF ToClient
<1>8. Network'
  BY <1>4, <1>5, <1>6, <1>7 DEF Network
<1> QED BY <1>3, <1>8 DEF Inv

\* Serving a packet keeps the tables, and no address is taken from a client
\* that has an ACK for it on the way.
LEMMA ServeKeepsInv ==
  ASSUME Inv, NEW p \in toServer, Serve(p)
  PROVE  Inv'
<1>1. PICK c \in Client : FromClient(c, p)
  BY DEF Inv, Network
<1>2. /\ S!Serve(p, ZeroIP)
      /\ toClients' = toClients \cup {r.pkt : r \in reply'}
      /\ toServer' = toServer /\ pc' = pc /\ req' = req /\ result' = result
  BY DEF Serve, clients
<1>3. /\ \/ UNCHANGED <<conns, allocated>>
         \/ \E ip \in Pool : Assign(Key(c), ip)
      /\ \A r \in reply' : /\ r.pkt.xid = macToID(HwAddr[c])
                           /\ r.pkt.chaddr = HwAddr[c]
                           /\ r.pkt.yiaddr \in Addr
                           /\ r.pkt.typ = "ACK" => conns'[Key(c)] = r.pkt.yiaddr
  BY <1>1, <1>2, ServeStep
<1>4. Key(c) \in S!Mac
  BY KeyType
<1>5. Tables'
  <2>1. CASE UNCHANGED <<conns, allocated>>
    BY <2>1 DEF Inv, Tables, S!LeasesDisjoint, S!PoolMatchesLeases
  <2>2. CASE \E ip \in Pool : Assign(Key(c), ip)
    BY <2>2, <1>4, AssignKeepsTables DEF Inv
  <2> QED BY <1>3, <2>1, <2>2
<1>6. \A d \in Client : conns[Key(d)] # NoIP => conns'[Key(d)] = conns[Key(d)]
  BY <1>3, <1>4, KeyType, AssignKeepsLeases DEF Inv
<1>7. NoIP \notin Addr
  BY NoIPAssumption
<1>8. \A q, d : ToClient(d, q)' <=> /\ q.xid = macToID(HwAddr[d])
                                    /\ q.chaddr = HwAddr[d]
                                    /\ q.yiaddr \in Addr
                                    /\ q.typ = "ACK" => conns'[Key(d)] = q.yiaddr
  BY DEF ToClient, Key, S!getMac
<1>9. \A q \in toClients' : \E d \in Client : ToClient(d, q)'
  <2> SUFFICES ASSUME NEW q \in toClients' PROVE \E d \in Client : ToClient(d, q)'
    OBVIOUS
  <2>1. CASE q \in toClients
    <3>1. PICK d \in Client : ToClient(d, q)
      BY <2>1 DEF Inv, Network
    <3>2. ToClient(d, q)'
      BY <3>1, <1>6, <1>7, <1>8 DEF ToClient
    <3> QED BY <3>2
  <2>2. CASE q \in {r.pkt : r \in reply'}
    <3>1. ToClient(c, q)'
      BY <2>2, <1>3, <1>8
    <3> QED BY <3>1
  <2> QED BY <1>2, <2>1, <2>2
<1>10. \A q, d : FromClient(d, q)' <=> FromClient(d, q)
  BY DEF FromClient
<1>11. Network'
  BY <1>2, <1>9, <1>10 DEF Inv, Network
<1>12. Clients'
  BY <1>2, <1>10 DEF Inv, Clients, FromClient
<1> QED BY <1>5, <1>11, <1>12 DEF Inv

\* Every step of the system keeps the invariant.
LEMMA NextInv == Inv /\ [Next]_vars => Inv'
<1> SUFFICES ASSUME Inv, [Next]_vars PROVE Inv'
  OBVIOUS
<1>1. CASE \E c \in Client : Begin(c) \/ End(c) \/ Send(c)
  BY <1>1, ExchangeKeepsInv, SendKeepsInv
<1>2. CASE \E p \in toServer : Serve(p)
  BY <1>2, ServeKeepsInv
<1>3. ASSUME /\ pc' = pc /\ req' = req /\ result' = result
             /\ conns' = conns /\ allocated' = allocated
             /\ toServer' = toServer /\ toClients' = toClients
      PROVE  Inv'
  <2>1. Tables' /\ Clients'
    BY <1>3 DEF Inv, Tables, Clients, S!LeasesDisjoint, S!PoolMatchesLeases, FromClient
  <2>2. Network'
    BY <1>3 DEF Inv, Network, FromClient, ToClient, Key, S!getMac
  <2> QED BY <2>1, <2>2 DEF Inv
<1>4. CASE ServeAgain
  BY <1>3, <1>4 DEF ServeAgain, S!ServeAgain, clients, network
<1>5. CASE UNCHANGED vars
  BY <1>3, <1>5 DEF vars, clients, server, network
<1> QED BY <1>1, <1>2, <1>4, <1>5 DEF Next

\* The invariant holds in every state of the system.
LEMMA Invariance == Spec => []Inv
BY InitInv, NextInv, PTL DEF Spec

\* What a client holds is what the server has recorded for it.
LEMMA HeldIsLeased ==
  ASSUME DistinctIDs, Inv, NEW c \in Client, NEW ip \in Addr, Holds(c, ip)
  PROVE  conns[Key(c)] = ip
<1>1. /\ result[c].pkt \in toClients
      /\ result[c].pkt.xid = macToID(HwAddr[c])
      /\ result[c].pkt.typ = "ACK"
      /\ result[c].pkt.yiaddr = ip
  BY DEF Holds, Returned, Inv, Clients
<1>2. PICK d \in Client : ToClient(d, result[c].pkt)
  BY <1>1 DEF Inv, Network
<1>3. d = c
  BY <1>1, <1>2 DEF ToClient, DistinctIDs
<1> QED BY <1>1, <1>2, <1>3 DEF ToClient

\* The address in an ACK that Request or Renew returns is the one the server has
\* recorded for the client, in systems of any number of clients whose
\* transaction IDs differ.
THEOREM AcksAreLeases == DistinctIDs => (Spec => []AckedIsLeased)
<1> SUFFICES ASSUME DistinctIDs PROVE Spec => []AckedIsLeased
  OBVIOUS
<1>1. Inv => AckedIsLeased
  BY HeldIsLeased DEF AckedIsLeased, Key
<1> QED BY <1>1, Invariance, PTL

\* No two of them hold the same address, whatever the network does to packets.
THEOREM AddressesNotShared == DistinctIDs => (Spec => []NoSharedAddress)
<1> SUFFICES ASSUME DistinctIDs PROVE Spec => []NoSharedAddress
  OBVIOUS
<1>1. ASSUME Inv, NEW c \in Client, NEW d \in Client, NEW ip \in Addr,
             Holds(c, ip), Holds(d, ip)
      PROVE  c = d
  <2>1. conns[Key(c)] = ip /\ conns[Key(d)] = ip /\ ip # NoIP
    BY <1>1, HeldIsLeased, NoIPAssumption
  <2>2. Key(c) = Key(d)
    BY <2>1, <1>1, KeyType DEF Inv, Tables, S!LeasesDisjoint
  <2> QED BY <2>2, KeyTellsClients
<1>2. Inv => NoSharedAddress
  BY <1>1 DEF NoSharedAddress
<1> QED BY <1>2, Invariance, PTL
==============================================================================
