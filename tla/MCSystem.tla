------------------------------- MODULE MCSystem -------------------------------
(* Two clients.  With MCApart the last bytes of their hardware addresses,    *)
(* from which they take their transaction IDs, differ; with MCAlike only the *)
(* first bytes do.                                                           *)
EXTENDS System

CONSTANTS c1, c2

MCApart == [c \in Client |-> IF c = c1 THEN <<0, 1>> ELSE <<1, 0>>]
MCAlike == [c \in Client |-> IF c = c1 THEN <<0, 1>> ELSE <<1, 1>>]
==============================================================================
