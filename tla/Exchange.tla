------------------------------- MODULE Exchange -------------------------------
(***************************************************************************)
(* What the calls of dhcp4client promise, without goroutines, channels,    *)
(* contexts and timers: a call sends its packet any number of times while  *)
(* it waits, and then returns an error or some packet that has arrived and *)
(* carries the transaction ID of the one it sent.                          *)
(***************************************************************************)
EXTENDS ClientPackets

CONSTANTS HasIface,    \* clients were made with an interface
          UserPacket,  \* packets handed to SendAndReadOne, SimpleSendAndRead
          Arrivals     \* packets that may arrive

VARIABLES pc,          \* "idle", "recv" while waiting, "join" when decided
          call,        \* which call is running
          req,         \* the packet it sends
          result,      \* what it returns
          arrived      \* arrived[c]: the packets that have reached client c

vars == <<pc, call, req, result, arrived>>

Init ==
  /\ pc = [c \in Client |-> "idle"]
  /\ call = [c \in Client |-> "DiscoverOffer"]
  /\ req = [c \in Client |-> NoPacket]
  /\ result = [c \in Client |-> [err |-> "no packet", pkt |-> NoPacket]]
  /\ arrived = [c \in Client |-> {}]

Begin(c, name, p) ==
  /\ pc' = [pc EXCEPT ![c] = "recv"]
  /\ call' = [call EXCEPT ![c] = name]
  /\ req' = [req EXCEPT ![c] = p]
  /\ UNCHANGED <<result, arrived>>

CallDiscover(c) ==
  /\ pc[c] = "idle" /\ HasIface
  /\ \E name \in {"DiscoverOffer", "RequestDiscover"} :
       Begin(c, name, DiscoverPacket(c))

CallRenew(c) ==
  /\ pc[c] = "idle" /\ HasIface
  /\ result[c].err = "nil"
  /\ Begin(c, "Renew", RequestPacket(c, result[c].pkt))

CallUser(c) ==
  /\ pc[c] = "idle"
  /\ \E p \in UserPacket, name \in {"SendAndReadOne", "SimpleSendAndRead"} :
       Begin(c, name, p)

WantsOffer(c) == call[c] \in {"DiscoverOffer", "RequestDiscover"}

Decide(c, r) ==
  /\ pc[c] = "recv"
  /\ pc' = [pc EXCEPT ![c] = "join"]
  /\ result' = [result EXCEPT ![c] = r]
  /\ UNCHANGED <<call, req, arrived>>

\* Mutant: the transaction ID is not looked at.
SucceedAnyID(c, p) ==
  /\ call[c] # "SimpleSendAndRead"
  /\ p \in arrived[c]
  /\ p.typ # "invalid"
  /\ WantsOffer(c) => p.typ = "Offer"
  /\ Decide(c, [err |-> "nil", pkt |-> p])

\* A packet that has arrived, with the right ID, and from DiscoverOffer an offer.
Succeed(c, p) ==
  /\ call[c] # "SimpleSendAndRead"
  /\ p \in arrived[c]
  /\ p.typ # "invalid"
  /\ p.xid = req[c].xid
  /\ WantsOffer(c) => p.typ = "Offer"
  /\ Decide(c, [err |-> "nil", pkt |-> p])

\* Only DiscoverOffer can be left without packet and error, and no call is
\* cancelled but by its user.
Fail(c) ==
  \E err \in IF call[c] = "SimpleSendAndRead" THEN Err \ {"nil"}
             ELSE {"write", "read", "DeadlineExceeded"}
                  \cup (IF WantsOffer(c) THEN {"no packet"} ELSE {}) :
    Decide(c, [err |-> err, pkt |-> NoPacket])

Return(c) ==
  /\ pc[c] = "join"
  /\ ~(call[c] = "RequestDiscover" /\ result[c].err = "nil")
  /\ pc' = [pc EXCEPT ![c] = "idle"]
  /\ UNCHANGED <<call, req, result, arrived>>

GoOn(c) ==
  /\ pc[c] = "join"
  /\ call[c] = "RequestDiscover"
  /\ result[c].err = "nil"
  /\ Begin(c, "RequestRequest", RequestPacket(c, result[c].pkt))

Arrive(c, p) ==
  /\ arrived' = [arrived EXCEPT ![c] = @ \cup {p}]
  /\ UNCHANGED <<pc, call, req, result>>

Next ==
  \E c \in Client :
    \/ CallDiscover(c) \/ CallRenew(c) \/ CallUser(c)
    \/ Fail(c) \/ Return(c) \/ GoOn(c)
    \/ \E p \in arrived[c] : Succeed(c, p)
    \/ \E p \in Arrivals : Arrive(c, p)

Spec == Init /\ [][Next]_vars
==============================================================================
