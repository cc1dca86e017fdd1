------------------------------- MODULE MCServer -------------------------------
(* Hardware addresses of up to two bytes, some of which pad to the same key; *)
(* fewer addresses than clients; requested addresses absent, outside and     *)
(* inside the subnet.                                                        *)
EXTENDS Server

MCXid == [k \in 1 .. TxidLen |-> 0]

MCPacket(t, h, r) ==
  [typ |-> t, xid |-> MCXid, chaddr |-> h, ciaddr |-> ZeroIP,
   yiaddr |-> ZeroIP, siaddr |-> ZeroIP, rip |-> r, sid |-> NoIP]

MCInbound ==
  {MCPacket(t, h, r) : t \in {"Discover", "Request"}, h \in HardwareAddr,
                       r \in {NoIP, 1} \cup Pool}
  \cup {MCPacket(t, h, NoIP) : t \in Typ \ {"Discover", "Request"},
                               h \in HardwareAddr}
==============================================================================
