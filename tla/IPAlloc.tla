-------------------------------- MODULE IPAlloc --------------------------------
(***************************************************************************)
(* dhcp4server/ipalloc.go: the address allocator, with the loop of alloc   *)
(* taken one iteration at a time.  Calls never overlap (Serve is the only  *)
(* caller), so grab and free wait for a scan to end.                       *)
(***************************************************************************)
EXTENDS Subnet

VARIABLES pc,          \* "idle", or "scan" at the head of alloc's loop
          try,         \* alloc's local copy of the address it looks at
          ret          \* the value the last call returned

allocVars == <<allocated, pc, try, ret>>

AllocTypeOK ==
  /\ allocated \subseteq Pool
  /\ pc \in {"idle", "scan"}
  /\ try \in Addr
  /\ ret \in [op : {"none", "grab", "alloc", "free"},
              ip : Addr \cup {NoIP}, ok : BOOLEAN]

newIPAllocator ==
  /\ allocated = {}
  /\ pc = "idle"
  /\ try = SubnetIP
  /\ ret = [op |-> "none", ip |-> NoIP, ok |-> TRUE]

grab(ip) ==
  /\ pc = "idle"
  /\ allocated' = IF grabbable(allocated, ip) THEN allocated \cup {ip} ELSE allocated
  /\ ret' = [op |-> "grab", ip |-> ip, ok |-> grabbable(allocated, ip)]
  /\ UNCHANGED <<pc, try>>

free(ip) ==
  /\ pc = "idle"
  /\ allocated' = allocated \ {ip}
  /\ ret' = [op |-> "free", ip |-> ip, ok |-> ~usable(allocated, ip)]
  /\ UNCHANGED <<pc, try>>

\* Mutant: the scan leaves the network address out.
allocFromFirstHost ==
  /\ pc = "idle"
  /\ pc' = "scan"
  /\ try' = nextIP(SubnetIP)
  /\ UNCHANGED <<allocated, ret>>

\* alloc, up to the head of its loop
alloc ==
  /\ pc = "idle"
  /\ pc' = "scan"
  /\ try' = SubnetIP
  /\ UNCHANGED <<allocated, ret>>

allocTake ==
  /\ pc = "scan"
  /\ Contains(try)
  /\ usable(allocated, try)
  /\ allocated' = allocated \cup {try}
  /\ ret' = [op |-> "alloc", ip |-> try, ok |-> TRUE]
  /\ pc' = "idle"
  /\ UNCHANGED try

\* Mutant: two increments per iteration.
allocSkipTwo ==
  /\ pc = "scan"
  /\ Contains(try)
  /\ ~usable(allocated, try)
  /\ try' = nextIP(nextIP(try))
  /\ UNCHANGED <<allocated, pc, ret>>

\* Mutant: the increment does not carry out of the last address.
allocSkipStuck ==
  /\ pc = "scan"
  /\ Contains(try)
  /\ ~usable(allocated, try)
  /\ try' = IF try = BcastIP THEN try ELSE nextIP(try)
  /\ UNCHANGED <<allocated, pc, ret>>

allocSkip ==
  /\ pc = "scan"
  /\ Contains(try)
  /\ ~usable(allocated, try)
  /\ try' = nextIP(try)
  /\ UNCHANGED <<allocated, pc, ret>>

allocNil ==
  /\ pc = "scan"
  /\ ~Contains(try)
  /\ ret' = [op |-> "alloc", ip |-> NoIP, ok |-> FALSE]
  /\ pc' = "idle"
  /\ UNCHANGED <<allocated, try>>

Scan == allocTake \/ allocSkip \/ allocNil

AllocNext ==
  \/ \E ip \in Addr \cup {NoIP} : grab(ip)
  \/ \E ip \in Addr : free(ip)
  \/ alloc
  \/ Scan

AllocSpec == newIPAllocator /\ [][AllocNext]_allocVars

\* The loop runs on its goroutine without waiting for anything.
FairAllocSpec == AllocSpec /\ WF_allocVars(Scan)

------------------------------------------------------------------------------
(* Properties *)

\* The loop of alloc has passed over allocated addresses only: either the
\* address it looks at is in the subnet and all below it are taken, or it has
\* run off the subnet's end, through the wrap at 255.255.255.255 if the
\* subnet ends there, and the whole subnet is taken.
ScanInv ==
  pc = "scan" =>
    \/ Contains(try) /\ \A ip \in Pool : ip < try => ip \in allocated
    \/ Pool \subseteq allocated

\* Seen from outside a call, the allocator is a pool from which alloc takes
\* the lowest free address, and nil is returned only from an empty pool.
CallersView == INSTANCE AddressPool
ImplementsPool == CallersView!Spec

\* alloc returns, also when every address is taken and when the subnet ends
\* at the last address there is.  (It does not for a full 0.0.0.0/0, where
\* the increment never leaves the subnet: BlockSize < AddrSpace is needed.)
AllocReturns == pc = "scan" ~> pc = "idle"
==============================================================================
