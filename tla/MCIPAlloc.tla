------------------------------ MODULE MCIPAlloc ------------------------------
(* A subnet of four addresses at the very end of a space of sixteen, four    *)
(* bytes of two values each: the scan carries from one byte to the next      *)
(* within the subnet and leaves it through the wrap to address 0.            *)
EXTENDS IPAllocBytes

MCPrefix == <<0, 0, 0, 0, 1>>
==============================================================================
