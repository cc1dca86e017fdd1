-------------------------------- MODULE System --------------------------------
(***************************************************************************)
(* Clients and one server on a broadcast segment.  The network keeps every *)
(* packet ever sent and delivers any of them at any time: packets may be   *)
(* lost, delayed, duplicated and reordered.  The clients have no address   *)
(* yet, so their packets come from 0.0.0.0 and every answer is broadcast.  *)
(* The clients are the abstract ones of module Exchange, which module      *)
(* Client implements.                                                      *)
(***************************************************************************)
EXTENDS Subnet, ClientPackets

CONSTANT ServerIP

VARIABLES pc, call, req, result,                      \* of the clients
          conns, serving, sreq, reply,                \* of the server, with allocated
          toServer, toClients   \* packets ever sent to port 67, to port 68

E == INSTANCE Exchange WITH arrived <- [c \in Client |-> toClients],
       HasIface <- TRUE, UserPacket <- {}, Arrivals <- {}
S == INSTANCE Server WITH req <- sreq, Inbound <- {}, Source <- {}

clients == <<pc, call, req, result>>
server == <<conns, allocated, serving, sreq, reply>>
network == <<toServer, toClients>>
vars == <<clients, server, network>>

Init ==
  /\ toServer = {}
  /\ toClients = {}
  /\ E!Init
  /\ S!Init

\* An exchange of client c begins.
Begin(c) ==
  /\ UNCHANGED <<server, network>>
  /\ E!CallDiscover(c) \/ E!CallRenew(c) \/ E!GoOn(c)

\* It ends: with any packet on the network that fits, or with an error.
End(c) ==
  /\ UNCHANGED <<server, network>>
  /\ \/ \E p \in toClients : E!Succeed(c, p)
     \/ E!Fail(c)
     \/ E!Return(c)

\* A transmission or a retransmission.
Send(c) ==
  /\ pc[c] = "recv"
  /\ toServer' = toServer \cup {req[c]}
  /\ UNCHANGED <<clients, server, toClients>>

Serve(p) ==
  /\ S!Serve(p, ZeroIP)
  /\ toClients' = toClients \cup {r.pkt : r \in reply'}
  /\ UNCHANGED <<clients, toServer>>

ServeAgain ==
  /\ S!ServeAgain
  /\ UNCHANGED <<clients, network>>

Next ==
  \/ \E c \in Client : Begin(c) \/ End(c) \/ Send(c)
  \/ \E p \in toServer : Serve(p)
  \/ ServeAgain

Spec == Init /\ [][Next]_vars

------------------------------------------------------------------------------
(* Properties *)

\* The packet Request or Renew returned, once it has returned.
Returned(c, names) ==
  /\ pc[c] = "idle"
  /\ call[c] \in names
  /\ result[c].err = "nil"

\* The address c was told is its own.
Holds(c, ip) ==
  /\ Returned(c, {"RequestRequest", "Renew"})
  /\ result[c].pkt.typ = "ACK"
  /\ result[c].pkt.yiaddr = ip

\* The address in an ACK a client returns is the one the server has recorded
\* for that client, however late the ACK was and whatever came between.
AckedIsLeased ==
  \A c \in Client, ip \in Addr :
    Holds(c, ip) => conns[S!getMac(HwAddr[c])] = ip

\* Two clients never hold the same address.
NoSharedAddress ==
  \A c, d \in Client, ip \in Addr : Holds(c, ip) /\ Holds(d, ip) => c = d

\* Request completes the handshake: what it returns answers its Request
\* message, it is not one more offer.
RequestNotAnsweredByOffer ==
  \A c \in Client :
    Returned(c, {"RequestRequest"}) => result[c].pkt.typ # "Offer"
==============================================================================
