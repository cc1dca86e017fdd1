----------------------------- MODULE ClientPackets -----------------------------
(***************************************************************************)
(* The packets dhcp4client builds, and what its callers can get back.      *)
(***************************************************************************)
EXTENDS Packets

CONSTANTS Client,      \* the clients
          HwLen,       \* 6: length of an Ethernet address
          HwAddr       \* HwAddr[c]: hardware address of c's interface

ASSUME HwAssumption ==
  /\ HwLen \in TxidLen .. ChaddrLen
  /\ HwAddr \in [Client -> [1 .. HwLen -> Byte]]

\* The last bytes of the hardware address, last first.
macToID(mac) == [k \in 1 .. TxidLen |-> mac[HwLen + 1 - k]]

DiscoverPacket(c) ==
  [typ |-> "Discover", xid |-> macToID(HwAddr[c]), chaddr |-> HwAddr[c],
   ciaddr |-> ZeroIP, yiaddr |-> ZeroIP, siaddr |-> ZeroIP,
   rip |-> NoIP, sid |-> NoIP]

RequestPacket(c, offer) ==
  [typ |-> "Request", xid |-> offer.xid, chaddr |-> HwAddr[c],
   ciaddr |-> offer.ciaddr, yiaddr |-> ZeroIP, siaddr |-> offer.siaddr,
   rip |-> offer.yiaddr, sid |-> offer.sid]

\* The calls, that of Request in two halves.
Calls == {"DiscoverOffer", "RequestDiscover", "RequestRequest", "Renew",
          "SendAndReadOne", "SimpleSendAndRead"}

\* What a call returns: a packet when err is "nil", or the kind of error.
Err == {"nil", "write", "read", "Canceled", "DeadlineExceeded", "no packet"}
Result == [err : Err, pkt : Packet]
==============================================================================
