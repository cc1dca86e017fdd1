--------------------------------- MODULE Bytes ---------------------------------
(***************************************************************************)
(* Byte strings, numbers in network byte order, and the uio.Lexer that the *)
(* codecs read from.  A byte is a number up to MaxUint8, which is small    *)
(* under TLC; a string of bytes is a sequence of them.                     *)
(***************************************************************************)
EXTENDS Integers, Sequences

CONSTANT MaxUint8      \* 255: the greatest byte

ASSUME BytesAssumption == MaxUint8 \in Nat \ {0}

Base == MaxUint8 + 1
Byte == 0 .. MaxUint8

Zeros(n) == [k \in 1 .. n |-> 0]

\* copy(dst, s) into an array of n zeros
Copied(n, s) == [k \in 1 .. n |-> IF k <= Len(s) THEN s[k] ELSE 0]

\* The number of values n bytes have.
Power(n) ==
  LET power[k \in 0 .. n] == IF k = 0 THEN 1 ELSE power[k - 1] * Base
  IN power[n]

\* binary.BigEndian
Uint(b) ==
  LET value[k \in 0 .. Len(b)] == IF k = 0 THEN 0 ELSE value[k - 1] * Base + b[k]
  IN value[Len(b)]

\* binary.LittleEndian
LittleUint(b) == Uint([k \in DOMAIN b |-> b[Len(b) + 1 - k]])

\* Mutant: the higher digits stay in each byte.
PutUintWide(n, v) == [k \in 1 .. n |-> v \div Power(n - k)]

PutUint(n, v) == [k \in 1 .. n |-> (v \div Power(n - k)) % Base]

\* What a buffer holds after the parts were written to it, one after the other.
Joined(parts) ==
  LET joined[k \in 0 .. Len(parts)] == IF k = 0 THEN <<>> ELSE joined[k - 1] \o parts[k]
  IN joined[Len(parts)]

------------------------------------------------------------------------------
(* uio.Lexer: the bytes left to be read, and an error that stays. *)

NewLexer(bytes) == [data |-> bytes, err |-> FALSE]

Has(l, n) == Len(l.data) >= n

\* Consume: a read of more than there is takes nothing and leaves the error;
\* shorter reads after it succeed again.
Consume(l, n) ==
  IF Has(l, n) THEN [l EXCEPT !.data = SubSeq(@, n + 1, Len(@))]
  ELSE [l EXCEPT !.err = TRUE]

\* What Read8, Read16, Read32 and ReadBytes put into zeroed memory.
Read(l, n) == IF Has(l, n) THEN SubSeq(l.data, 1, n) ELSE Zeros(n)

\* Mutant: only left-over data counts.
FinErrorData(l) == l.data # <<>>

FinError(l) == l.err \/ l.data # <<>>
==============================================================================
