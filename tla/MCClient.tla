------------------------------- MODULE MCClient -------------------------------
(* One client and a network that delivers offers and acknowledgements for    *)
(* the transactions of some of its calls, and bytes that are not DHCP.       *)
EXTENDS Client

CONSTANT c1

MCHwAddr == [c \in Client |-> <<0, 1>>]

MCPacket(t, x) ==
  [typ |-> t, xid |-> x, chaddr |-> <<0, 1>>, ciaddr |-> ZeroIP,
   yiaddr |-> ZeroIP, siaddr |-> ZeroIP, rip |-> NoIP, sid |-> NoIP]

MCForever == -1

MCUserPacket == {MCPacket("Inform", <<0>>), MCPacket("Inform", <<1>>)}

MCArrivals == {MCPacket("Offer", <<1>>), MCPacket("ACK", <<1>>), NoPacket}
==============================================================================
