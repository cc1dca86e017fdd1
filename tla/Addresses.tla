------------------------------ MODULE Addresses ------------------------------
(***************************************************************************)
(* IPv4 addresses as the DHCP code uses them.  An address is the number    *)
(* its four bytes spell in network order; AddrSpace is 2^32 in the code    *)
(* and small under TLC.  A nil net.IP is NoIP, which is not an address.    *)
(***************************************************************************)
EXTENDS Integers

CONSTANTS AddrSpace,   \* number of addresses
          NoIP         \* the nil net.IP

Addr == 0 .. AddrSpace - 1

ASSUME AddrSpaceAssumption == AddrSpace \in Nat \ {0}
ASSUME NoIPAssumption == NoIP \notin Addr

ZeroIP == 0                  \* net.IPv4zero, 0.0.0.0
BcastIP == AddrSpace - 1     \* net.IPv4bcast, 255.255.255.255

\* The header fields have four bytes whatever the address: nil is written
\* as 0.0.0.0, and read back as 0.0.0.0, not as nil.
writeIP(ip) == IF ip = NoIP THEN ZeroIP ELSE ip

\* Increment with carry into the higher bytes; the carry out of the highest
\* byte is lost.
nextIP(ip) == (ip + 1) % AddrSpace
==============================================================================
