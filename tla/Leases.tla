-------------------------------- MODULE Leases --------------------------------
(***************************************************************************)
(* What a DHCP server promises: an address is held by at most one client   *)
(* at a time, a client holds at most one, and it keeps the one it was      *)
(* given until it gives it back.                                           *)
(***************************************************************************)
CONSTANTS Holder,      \* clients, as the server tells them apart
          Address,     \* addresses there are to lease
          None         \* no address

VARIABLE lease         \* lease[h] is the address h holds, or None

Init == lease = [h \in Holder |-> None]

Grant(h) ==
  /\ lease[h] = None
  /\ \E a \in Address :
       /\ \A other \in Holder : lease[other] # a
       /\ lease' = [lease EXCEPT ![h] = a]

GiveBack(h) ==
  /\ lease[h] # None
  /\ lease' = [lease EXCEPT ![h] = None]

Next == \E h \in Holder : Grant(h) \/ GiveBack(h)

Spec == Init /\ [][Next]_lease
==============================================================================
