------------------------------- MODULE MCUDPConn -------------------------------
(* An instance of UDPConn: two ports, addresses in both forms and nil, and *)
(* payloads that are empty, or odd, longer than the buffer, and such that  *)
(* folding their checksum carries a second time.                           *)
EXTENDS UDPConn

MCPrefix == Zeros(10) \o <<255, 255>>

ServerIP == <<10, 0, 0, 255>>
Broadcast == <<255, 255, 255, 255>>
UDPAddr(ip, port) == [ip |-> ip, port |-> port]

MCPayloads == {<<>>, <<255, 255, 241, 240, 3>>}
MCAddrs == {UDPAddr(To16(Broadcast), 67), UDPAddr(ServerIP, 68)}
MCBounds == {NoAddr, UDPAddr(Nil, 68), UDPAddr(To16(ServerIP), 68)}

MCSources == MCBounds \ {NoAddr}

Draft(h, p) ==
  [ihl |-> h, tos |-> 0, totalLength |-> 0, id |-> 513, flags |-> 2, fragmentOffset |-> 0,
   ttl |-> 64, protocol |-> p, checksum |-> 0, srcAddr |-> Broadcast, dstAddr |-> ServerIP,
   srcPort |-> 67, dstPort |-> 68, length |-> 9, payload |-> <<7>>]
MCDrafts == {Draft(24, UDPProtocolNumber), Draft(20, 6)}
MCTOSs == {255}
MCIDs == {65535}
MCFragments == {[flags |-> 5, offset |-> 65528], [flags |-> 7, offset |-> 0]}
MCDraftIPs == {To16(Broadcast)}
MCDraftPorts == {65535}
MCCutAt == {0, 10, 27}
==============================================================================
