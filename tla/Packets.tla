-------------------------------- MODULE Packets --------------------------------
(***************************************************************************)
(* DHCP packets, reduced to the fields the client and the server act on.   *)
(* The BOOTP header fields xid, chaddr, ciaddr, yiaddr and siaddr are      *)
(* always there; the options rip (requested IP address) and sid (server    *)
(* identifier) are NoIP when absent.                                       *)
(***************************************************************************)
EXTENDS Addresses

CONSTANTS Byte,        \* 0 .. 255 in the code
          ChaddrLen,   \* 16: longest hardware address in the header
          TxidLen      \* 4: length of a transaction ID

ASSUME PacketsAssumption ==
  /\ 0 \in Byte
  /\ ChaddrLen \in Nat
  /\ TxidLen \in Nat

\* The message types of option 53.
DHCPMessageType ==
  {"Discover", "Offer", "Request", "Decline", "ACK", "NAK", "Release", "Inform"}

\* "unknown": the type is missing or none of the above.
\* "invalid": bytes that do not parse as a DHCP packet at all.
Typ == DHCPMessageType \cup {"unknown", "invalid"}

HardwareAddr == UNION {[1 .. n -> Byte] : n \in 0 .. ChaddrLen}
TransactionID == [1 .. TxidLen -> Byte]

Packet == [typ : Typ, xid : TransactionID, chaddr : HardwareAddr,
           ciaddr : Addr, yiaddr : Addr, siaddr : Addr,
           rip : Addr \cup {NoIP}, sid : Addr \cup {NoIP}]

\* No packet at all, where a variable must have a value.
NoPacket == [typ |-> "invalid", xid |-> [k \in 1 .. TxidLen |-> 0],
             chaddr |-> <<>>, ciaddr |-> ZeroIP, yiaddr |-> ZeroIP,
             siaddr |-> ZeroIP, rip |-> NoIP, sid |-> NoIP]
==============================================================================
