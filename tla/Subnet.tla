-------------------------------- MODULE Subnet --------------------------------
(***************************************************************************)
(* The range of addresses one server may hand out, the map of those that   *)
(* are handed out, and the pure part of ipAllocator.  The subnet comes     *)
(* from net.ParseCIDR: SubnetIP is its network address (host bits zero)    *)
(* and BlockSize the number of addresses under its mask, so that           *)
(* IPNet.Contains is membership in one interval.  The keys of the map are  *)
(* the addresses' 32-bit encodings, which differ for different addresses,  *)
(* so the map is a set of addresses.                                       *)
(***************************************************************************)
EXTENDS Addresses

CONSTANTS SubnetIP,    \* subnet.IP
          BlockSize    \* 2^(32 - prefix length)

VARIABLE allocated     \* ipAllocator.allocated

Pool == SubnetIP .. SubnetIP + BlockSize - 1

ASSUME SubnetAssumption ==
  /\ SubnetIP \in Addr
  /\ BlockSize \in Nat \ {0}
  /\ SubnetIP + BlockSize <= AddrSpace

\* net.IPNet.Contains; false for nil, whose length is not the subnet's.
Contains(ip) == ip \in Pool

usable(A, ip) == ip \notin A

\* Mutants: one half of grab's condition is missing.
grabbableAnywhere(A, ip) == usable(A, ip)
grabbableUsed(A, ip) == Contains(ip)

\* The value of grab's condition.
grabbable(A, ip) == Contains(ip) /\ usable(A, ip)

Free(A) == {ip \in Pool : usable(A, ip)}

\* What alloc returns: the lowest usable address of the subnet, or nil.
lowestUsable(A) ==
  IF Free(A) = {} THEN NoIP
  ELSE CHOOSE ip \in Free(A) :
         \A other \in Free(A) : ip <= other
==============================================================================
