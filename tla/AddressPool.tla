------------------------------ MODULE AddressPool ------------------------------
(***************************************************************************)
(* What ipAllocator promises its caller, each call taken as one step: a    *)
(* set of allocated addresses, from which alloc takes the lowest free one  *)
(* and answers nil only when none is free.                                 *)
(***************************************************************************)
EXTENDS Subnet

VARIABLE ret     \* what the last call returned

vars == <<allocated, ret>>

Init ==
  /\ allocated = {}
  /\ ret = [op |-> "none", ip |-> NoIP, ok |-> TRUE]

Grab(ip) ==
  /\ allocated' = allocated \cup ({ip} \cap Free(allocated))
  /\ ret' = [op |-> "grab", ip |-> ip, ok |-> ip \in Free(allocated)]

Alloc ==
  LET ip == lowestUsable(allocated) IN
  /\ allocated' = allocated \cup ({ip} \ {NoIP})
  /\ ret' = [op |-> "alloc", ip |-> ip, ok |-> Free(allocated) # {}]

GiveBack(ip) ==
  /\ allocated' = allocated \ {ip}
  /\ ret' = [op |-> "free", ip |-> ip, ok |-> ip \in allocated]

Next ==
  \/ \E ip \in Addr \cup {NoIP} : Grab(ip)
  \/ Alloc
  \/ \E ip \in Addr : GiveBack(ip)

Spec == Init /\ [][Next]_vars
==============================================================================
