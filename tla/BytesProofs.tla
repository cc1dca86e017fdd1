------------------------------ MODULE BytesProofs ------------------------------
(* Facts about byte strings, numbers in them and the recursive functions of  *)
(* Bytes, for bytes and strings of every size.  Induction is over sets of    *)
(* numbers, and the functions that recursive definitions choose are shown to *)
(* exist.                                                                    *)
EXTENDS AddressBytes, TLAPS, WellFoundedInduction

------------------------------------------------------------------------------
(* Sequences *)

\* A sequence is a function on the numbers up to its length.
LEMMA LenProperties ==
  ASSUME NEW S, NEW s \in Seq(S)
  PROVE  Len(s) \in Nat /\ s \in [1 .. Len(s) -> S] /\ DOMAIN s = 1 .. Len(s)
OBVIOUS

\* The elements of a sequence.
LEMMA ElementOfSeq ==
  ASSUME NEW S, NEW s \in Seq(S), NEW k \in 1 .. Len(s)
  PROVE  s[k] \in S
OBVIOUS

\* A sequence over a set is one over every larger set.
LEMMA SeqMonotonic ==
  ASSUME NEW S, NEW T, NEW s \in Seq(S), S \subseteq T
  PROVE  s \in Seq(T)
<1>1. s \in [1 .. Len(s) -> S] /\ Len(s) \in Nat
  BY LenProperties
<1>2. s \in [1 .. Len(s) -> T]
  BY <1>1
<1> QED BY <1>1, <1>2

\* The empty sequence, and only it, has no element.
LEMMA EmptySeq ==
  ASSUME NEW S
  PROVE  /\ <<>> \in Seq(S) /\ Len(<<>>) = 0
         /\ \A s \in Seq(S) : s # <<>> => Len(s) \in Nat \ {0}
OBVIOUS

\* Sequences of the same elements in the same places are the same.
LEMMA SeqEqual ==
  ASSUME NEW S, NEW s \in Seq(S), NEW t \in Seq(S),
         Len(s) = Len(t), \A k \in 1 .. Len(s) : s[k] = t[k]
  PROVE  s = t
<1>1. /\ s = [k \in 1 .. Len(s) |-> s[k]] /\ t = [k \in 1 .. Len(t) |-> t[k]]
  BY LenProperties
<1> QED BY <1>1, Zenon

\* What append(s, t...) holds.
LEMMA ConcatProperties ==
  ASSUME NEW S, NEW s \in Seq(S), NEW t \in Seq(S)
  PROVE  /\ s \o t \in Seq(S) /\ Len(s \o t) = Len(s) + Len(t)
         /\ \A k \in 1 .. Len(s) + Len(t) :
              (s \o t)[k] = IF k <= Len(s) THEN s[k] ELSE t[k - Len(s)]
OBVIOUS

\* Nothing before or after a sequence.
LEMMA ConcatEmptySeq ==
  ASSUME NEW S, NEW s \in Seq(S)
  PROVE  s \o <<>> = s /\ <<>> \o s = s
OBVIOUS

\* Appending is joining with a sequence of one.
LEMMA AppendIsConcat ==
  ASSUME NEW S, NEW s \in Seq(S), NEW e \in S
  PROVE  Append(s, e) = s \o <<e>>
OBVIOUS

\* It does not matter which two of three are joined first.
LEMMA ConcatAssociative ==
  ASSUME NEW S, NEW s \in Seq(S), NEW t \in Seq(S), NEW u \in Seq(S)
  PROVE  (s \o t) \o u = s \o (t \o u)
OBVIOUS

\* What s[m-1:n] holds.
LEMMA SubSeqProperties ==
  ASSUME NEW S, NEW s, NEW m \in Int, NEW n \in Int, \A k \in m .. n : s[k] \in S
  PROVE  /\ SubSeq(s, m, n) \in Seq(S)
         /\ Len(SubSeq(s, m, n)) = IF m <= n THEN n - m + 1 ELSE 0
         /\ \A k \in 1 .. n - m + 1 : SubSeq(s, m, n)[k] = s[m + k - 1]
OBVIOUS

\* All of a sequence.
LEMMA SubSeqFull ==
  ASSUME NEW S, NEW s \in Seq(S)
  PROVE  SubSeq(s, 1, Len(s)) = s
OBVIOUS

\* s[m-1:k] and s[k:n] together are s[m-1:n].
LEMMA ConcatAdjacentSubSeq ==
  ASSUME NEW S, NEW s \in Seq(S), NEW m \in 1 .. Len(s) + 1,
         NEW k \in m - 1 .. Len(s), NEW n \in k .. Len(s)
  PROVE  SubSeq(s, m, k) \o SubSeq(s, k + 1, n) = SubSeq(s, m, n)
OBVIOUS

------------------------------------------------------------------------------
(* Induction and recursion *)

\* A set of numbers has a least one.
LEMMA Least ==
  ASSUME NEW T, T \subseteq Nat, T # {}
  PROVE  \E x \in T : \A y \in T : x <= y
<1> DEFINE R == {ss \in Nat \X Nat : ss[1] < ss[2]}
<1>1. IsWellFoundedOn(R, Nat)
  BY NatLessThanWellFounded DEF OpToRel
<1>2. PICK x \in T : \A y \in T : ~(<<y, x>> \in R)
  <2> HIDE DEF R
  <2> QED BY <1>1, WFMin, Zenon
<1>3. ASSUME NEW y \in T PROVE x <= y
  <2>1. x \in Nat /\ y \in Nat
    OBVIOUS
  <2>2. y < x => <<y, x>> \in R
    BY <2>1
  <2> QED BY <2>1, <2>2, <1>2
<1> QED BY <1>3, Zenon

\* A set that has 0, and with every number the next one, has all numbers.
LEMMA SetInduction ==
  ASSUME NEW S, 0 \in S, \A n \in Nat : n \in S => n + 1 \in S
  PROVE  Nat \subseteq S
<1> DEFINE T == Nat \ S
<1> SUFFICES ASSUME T # {} PROVE FALSE
  OBVIOUS
<1>2. PICK x \in T : \A y \in T : x <= y
  <2>1. T \subseteq Nat /\ T # {}
    OBVIOUS
  <2> HIDE DEF T
  <2> QED BY <2>1, Least
<1>3. x \in Nat /\ x \notin S /\ x # 0
  OBVIOUS
<1>4. x - 1 \in Nat /\ x = (x - 1) + 1 /\ ~(x <= x - 1)
  BY <1>3
<1>5. x - 1 \in S
  BY <1>2, <1>4
<1>6. (x - 1) + 1 \in S
  BY <1>4, <1>5
<1> QED BY <1>3, <1>4, <1>6

\* A set of numbers up to N that has 0, and with every number below N the next.
LEMMA UpTo ==
  ASSUME NEW N \in Nat, NEW S, 0 \in S, \A n \in 0 .. N - 1 : n \in S => n + 1 \in S
  PROVE  0 .. N \subseteq S
<1> DEFINE T == {n \in Nat : n <= N => n \in S}
<1>1. 0 \in T
  OBVIOUS
<1>2. \A n \in Nat : n \in T => n + 1 \in T
  OBVIOUS
<1>3. Nat \subseteq T
  <2> HIDE DEF T
  <2> QED BY <1>1, <1>2, SetInduction
<1> QED BY <1>3

\* The values of a recursive function on 0 .. N, as a sequence of steps g.
IsRec(f, N, V, a, g) ==
  f \in [0 .. N -> V] /\ f[0] = a /\ \A k \in 1 .. N : f[k] = g[k][f[k - 1]]

\* There is such a function.
LEMMA Recursion ==
  ASSUME NEW V, NEW a \in V, NEW N \in Nat, NEW g \in [1 .. N -> [V -> V]]
  PROVE  \E f : IsRec(f, N, V, a, g)
<1> DEFINE S == {n \in Nat : n <= N => \E f : IsRec(f, n, V, a, g)}
<1>1. 0 \in S
  <2>1. IsRec([k \in 0 .. 0 |-> a], 0, V, a, g)
    BY DEF IsRec
  <2> QED BY <2>1
<1>2. \A n \in Nat : n \in S => n + 1 \in S
  <2> SUFFICES ASSUME NEW n \in Nat, n + 1 <= N, NEW f, IsRec(f, n, V, a, g)
               PROVE  \E h : IsRec(h, n + 1, V, a, g)
    OBVIOUS
  <2> DEFINE h == [k \in 0 .. n + 1 |-> IF k = n + 1 THEN g[n + 1][f[n]] ELSE f[k]]
  <2>1. f[n] \in V /\ n + 1 \in 1 .. N
    BY DEF IsRec
  <2>2. g[n + 1][f[n]] \in V
    BY <2>1
  <2>3. h \in [0 .. n + 1 -> V] /\ h[0] = a
    BY <2>2 DEF IsRec
  <2>4. ASSUME NEW k \in 1 .. n + 1 PROVE h[k] = g[k][h[k - 1]]
    BY DEF IsRec
  <2> QED BY <2>3, <2>4, Zenon DEF IsRec
<1>3. Nat \subseteq S
  <2> HIDE DEF S
  <2> QED BY <1>1, <1>2, SetInduction
<1> QED BY <1>3

------------------------------------------------------------------------------
(* Powers of the base *)

\* A byte has more than one value.
LEMMA BaseType == Base \in Nat /\ Base >= 2 /\ Byte = 0 .. Base - 1 /\ 0 \in Byte
BY BytesAssumption DEF Base, Byte

\* The function in the definition of Power.
Powers(n) == CHOOSE p : p = [k \in 0 .. n |-> IF k = 0 THEN 1 ELSE p[k - 1] * Base]

\* It exists, and its values are positive.
LEMMA PowersRec ==
  ASSUME NEW n \in Nat
  PROVE  /\ Power(n) = Powers(n)[n]
         /\ Powers(n) \in [0 .. n -> Nat \ {0}]
         /\ Powers(n)[0] = 1
         /\ \A k \in 1 .. n : Powers(n)[k] = Powers(n)[k - 1] * Base
<1> DEFINE V == Nat \ {0}
           g == [k \in 1 .. n |-> [v \in V |-> v * Base]]
           F(p) == [k \in 0 .. n |-> IF k = 0 THEN 1 ELSE p[k - 1] * Base]
           P == Powers(n)
<1>1. g \in [1 .. n -> [V -> V]] /\ 1 \in V
  <2>1. \A v \in V, b \in V : v * b \in V
    OBVIOUS
  <2> QED BY <2>1, BaseType
<1>2. PICK f : IsRec(f, n, V, 1, g)
  <2> HIDE DEF V, g
  <2> QED BY <1>1, Recursion
<1>3. f = F(f)
  <2>1. f \in [0 .. n -> V] /\ f[0] = 1
    BY <1>2 DEF IsRec
  <2>2. \A k \in 1 .. n : f[k - 1] \in V /\ g[k][f[k - 1]] = f[k - 1] * Base
    BY <2>1
  <2>3. \A k \in 1 .. n : f[k] = f[k - 1] * Base
    BY <1>2, <2>2, Zenon DEF IsRec
  <2> QED BY <2>1, <2>3
<1>4. P = F(P)
  BY <1>3, Zenon DEF Powers
<1>5. P[0] = 1 /\ \A k \in 1 .. n : P[k] = P[k - 1] * Base
  <2> HIDE DEF P
  <2> QED BY <1>4
<1>6. P \in [0 .. n -> V]
  <2> DEFINE S == {k \in 0 .. n : P[k] \in V}
  <2> HIDE DEF P
  <2>1. 0 \in S
    BY <1>5
  <2>2. ASSUME NEW k \in 0 .. n - 1, k \in S PROVE k + 1 \in S
    <3>1. P[k + 1] = P[k] * Base
      BY <1>5
    <3> QED BY <3>1, <2>2, BaseType
  <2>3. 0 .. n \subseteq S
    <3> HIDE DEF S
    <3> QED BY <2>1, <2>2, UpTo
  <2> QED BY <2>3, <1>4
<1> QED BY <1>5, <1>6 DEF Power, Powers

\* Power is what its name says.
LEMMA PowerIs ==
  /\ Power(0) = 1
  /\ \A n \in Nat : Power(n) \in Nat \ {0} /\ Power(n + 1) = Power(n) * Base
<1>1. Power(0) = 1
  <2>1. 0 \in Nat
    OBVIOUS
  <2> QED BY <2>1, PowersRec, Zenon
<1>2. ASSUME NEW n \in Nat PROVE Power(n) \in Nat \ {0} /\ Power(n + 1) = Power(n) * Base
  <2> DEFINE p == Powers(n)
             q == Powers(n + 1)
             S == {k \in 0 .. n : p[k] = q[k]}
  <2>1. /\ Power(n) = p[n] /\ p \in [0 .. n -> Nat \ {0}] /\ p[0] = 1
        /\ \A k \in 1 .. n : p[k] = p[k - 1] * Base
    BY PowersRec
  <2>2. /\ Power(n + 1) = q[n + 1] /\ q[0] = 1
        /\ \A k \in 1 .. n + 1 : q[k] = q[k - 1] * Base
    <3>1. n + 1 \in Nat
      OBVIOUS
    <3> QED BY <3>1, PowersRec, Zenon
  <2> HIDE DEF p, q
  <2>3. 0 \in S
    BY <2>1, <2>2
  <2>4. ASSUME NEW k \in 0 .. n - 1, k \in S PROVE k + 1 \in S
    <3>1. k + 1 \in 1 .. n /\ k + 1 \in 1 .. n + 1 /\ (k + 1) - 1 = k
      OBVIOUS
    <3>2. p[k + 1] = p[k] * Base /\ q[k + 1] = q[k] * Base
      BY <3>1, <2>1, <2>2
    <3> QED BY <3>1, <3>2, <2>4
  <2>5. 0 .. n \subseteq S
    <3> HIDE DEF S
    <3> QED BY <2>3, <2>4, UpTo
  <2>6. q[n + 1] = q[n] * Base
    <3>1. n + 1 \in 1 .. n + 1 /\ (n + 1) - 1 = n
      OBVIOUS
    <3> QED BY <3>1, <2>2
  <2> QED BY <2>1, <2>2, <2>5, <2>6
<1> QED BY <1>1, <1>2

\* The numbers that one and two bytes can tell.
LEMMA SmallPowers == Power(1) = Base /\ Power(2) = Base * Base
<1>1. Power(0 + 1) = Power(0) * Base /\ Power(1 + 1) = Power(1) * Base
  BY PowerIs
<1> QED BY <1>1, PowerIs, BaseType

------------------------------------------------------------------------------
(* Division *)

\* A quotient and a remainder in range are those of the division.
LEMMA DivUnique ==
  ASSUME NEW v \in Nat, NEW d \in Nat \ {0}, NEW q \in Int, NEW r \in 0 .. d - 1, v = q * d + r
  PROVE  v \div d = q /\ v % d = r
<1> DEFINE a == v \div d
           b == v % d
<1>1. a \in Int /\ b \in 0 .. d - 1 /\ v = a * d + b
  OBVIOUS
<1> HIDE DEF a, b
<1>2. ~(a < q)
  <2> SUFFICES ASSUME a < q PROVE FALSE
    OBVIOUS
  <2>1. \A x \in Int, y \in Int : x < y => y * d >= x * d + d
    OBVIOUS
  <2>2. q * d >= a * d + d
    BY <2>1, <1>1
  <2> QED BY <2>2, <1>1
<1>3. ~(q < a)
  <2> SUFFICES ASSUME q < a PROVE FALSE
    OBVIOUS
  <2>1. \A x \in Int, y \in Int : x < y => y * d >= x * d + d
    OBVIOUS
  <2>2. a * d >= q * d + d
    BY <2>1, <1>1
  <2> QED BY <2>2, <1>1
<1>4. a = q
  BY <1>1, <1>2, <1>3
<1>5. b = r
  BY <1>1, <1>4
<1> QED BY <1>4, <1>5 DEF a, b

\* A division gives such a quotient and remainder.
LEMMA DivIs ==
  ASSUME NEW v \in Nat, NEW d \in Nat \ {0}
  PROVE  v \div d \in Nat /\ v % d \in 0 .. d - 1 /\ v = (v \div d) * d + (v % d)
OBVIOUS

\* Division by a product is division by its factors, one after the other.
LEMMA DivDiv ==
  ASSUME NEW v \in Nat, NEW c \in Nat \ {0}, NEW d \in Nat \ {0}
  PROVE  v \div (c * d) = (v \div c) \div d
<1> DEFINE a == v \div c
           b == v % c
           e == a \div d
           f == a % d
<1>1. a \in Nat /\ b \in 0 .. c - 1 /\ v = a * c + b
  BY DivIs, Zenon
<1>2. e \in Nat /\ f \in 0 .. d - 1 /\ a = e * d + f
  <2> HIDE DEF a
  <2> QED BY <1>1, DivIs, Zenon DEF e, f
<1> HIDE DEF a, b, e, f
<1>3. v = e * (c * d) + (f * c + b)
  <2>1. (e * d + f) * c = e * (c * d) + f * c
    BY <1>2
  <2> QED BY <2>1, <1>1, <1>2
<1>4. f * c + b \in 0 .. c * d - 1
  <2>1. (f + 1) * c <= d * c
    <3>1. \A x \in Nat, y \in Nat, z \in Nat : x <= y => x * z <= y * z
      OBVIOUS
    <3>2. f + 1 \in Nat /\ f + 1 <= d
      BY <1>2
    <3> QED BY <3>1, <3>2
  <2>2. (f + 1) * c = f * c + c /\ d * c = c * d
    BY <1>2
  <2>3. f * c \in Nat
    BY <1>2
  <2> QED BY <2>1, <2>2, <2>3, <1>1
<1>5. c * d \in Nat \ {0}
  OBVIOUS
<1>6. v \div (c * d) = e
  <2> DEFINE m == c * d
             r == f * c + b
  <2>1. m \in Nat \ {0} /\ r \in 0 .. m - 1 /\ v = e * m + r /\ e \in Int
    BY <1>2, <1>3, <1>4, <1>5
  <2> HIDE DEF m, r
  <2>2. v \div m = e
    BY <2>1, DivUnique
  <2> QED BY <2>2 DEF m
<1> QED BY <1>6 DEF a, e

------------------------------------------------------------------------------
(* Numbers in bytes *)

\* The values that the definition of Uint computes one after the other.
LEMMA UintRec ==
  ASSUME NEW b \in Seq(Nat)
  PROVE  \E f \in [0 .. Len(b) -> Nat] :
            /\ f[0] = 0
            /\ \A k \in 1 .. Len(b) : f[k] = f[k - 1] * Base + b[k]
            /\ Uint(b) = f[Len(b)]
<1> DEFINE N == Len(b)
           g == [k \in 1 .. N |-> [v \in Nat |-> v * Base + b[k]]]
           F(p) == [k \in 0 .. N |-> IF k = 0 THEN 0 ELSE p[k - 1] * Base + b[k]]
           U == CHOOSE p : p = F(p)
<1>0. N \in Nat /\ \A k \in 1 .. N : b[k] \in Nat
  OBVIOUS
<1>1. g \in [1 .. N -> [Nat -> Nat]]
  <2>1. \A v \in Nat : v * Base \in Nat
    BY BaseType
  <2>2. \A x \in Nat, y \in Nat : x + y \in Nat
    OBVIOUS
  <2>3. \A k \in 1 .. N : \A v \in Nat : v * Base + b[k] \in Nat
    <3> HIDE DEF N
    <3> QED BY <2>1, <2>2, <1>0, Zenon
  <2> QED BY <2>3, Zenon
<1>2. PICK f : IsRec(f, N, Nat, 0, g)
  <2> HIDE DEF g
  <2> QED BY <1>0, <1>1, Recursion, Zenon
<1>3. f = F(f)
  <2>1. f \in [0 .. N -> Nat] /\ f[0] = 0
    BY <1>2 DEF IsRec
  <2>2. \A k \in 1 .. N : f[k - 1] \in Nat /\ g[k][f[k - 1]] = f[k - 1] * Base + b[k]
    <3> SUFFICES ASSUME NEW k \in 1 .. N
                 PROVE  f[k - 1] \in Nat /\ g[k][f[k - 1]] = f[k - 1] * Base + b[k]
      OBVIOUS
    <3>1. k - 1 \in 0 .. N
      BY <1>0
    <3>2. f[k - 1] \in Nat
      BY <2>1, <3>1, Zenon
    <3> QED BY <3>2
  <2>3. \A k \in 1 .. N : f[k] = f[k - 1] * Base + b[k]
    BY <1>2, <2>2, Zenon DEF IsRec
  <2> QED BY <2>1, <2>3, <1>0
<1>4. U = F(U)
  BY <1>3, Zenon
<1>5. Uint(b) = U[N]
  BY DEF Uint
<1> HIDE DEF U
<1>6. U[0] = 0 /\ \A k \in 1 .. N : U[k] = U[k - 1] * Base + b[k]
  <2> HIDE DEF N
  <2>1. \A k \in 0 .. N : U[k] = IF k = 0 THEN 0 ELSE U[k - 1] * Base + b[k]
    BY <1>4, Zenon
  <2>2. 0 \in 0 .. N /\ \A k \in 1 .. N : k \in 0 .. N /\ k # 0
    BY <1>0
  <2> QED BY <2>1, <2>2, Zenon
<1>7. U \in [0 .. N -> Nat]
  <2> DEFINE S == {k \in 0 .. N : U[k] \in Nat}
  <2>1. 0 \in S
    BY <1>6, <1>0
  <2>2. ASSUME NEW k \in 0 .. N - 1, k \in S PROVE k + 1 \in S
    <3>0. k + 1 \in 1 .. N /\ (k + 1) - 1 = k
      BY <1>0
    <3>1. U[k + 1] = U[k] * Base + b[k + 1] /\ b[k + 1] \in Nat
      BY <1>6, <1>0, <3>0
    <3>2. U[k] * Base \in Nat
      BY <2>2, BaseType
    <3> QED BY <3>0, <3>1, <3>2
  <2>3. 0 .. N \subseteq S
    <3> HIDE DEF S
    <3> QED BY <2>1, <2>2, <1>0, UpTo, Zenon
  <2> QED BY <2>3, <1>4
<1> QED BY <1>5, <1>6, <1>7, Zenon

\* PutUint writes n bytes.
LEMMA PutUintType ==
  ASSUME NEW n \in Nat, NEW v \in Nat
  PROVE  PutUint(n, v) \in Seq(Byte) /\ Len(PutUint(n, v)) = n
<1>1. ASSUME NEW k \in 1 .. n PROVE (v \div Power(n - k)) % Base \in Byte
  <2>1. Power(n - k) \in Nat \ {0}
    BY PowerIs
  <2>2. v \div Power(n - k) \in Nat
    BY <2>1, DivIs
  <2> QED BY <2>2, BaseType
<1>2. PutUint(n, v) \in [1 .. n -> Byte]
  BY <1>1 DEF PutUint
<1> QED BY <1>2

\* binary.BigEndian reads back what it wrote, if it fits into the bytes.
LEMMA UintOfPutUint ==
  ASSUME NEW n \in Nat, NEW v \in Nat, v < Power(n)
  PROVE  Uint(PutUint(n, v)) = v
<1> DEFINE b == PutUint(n, v)
<1>1. b \in Seq(Nat) /\ Len(b) = n
  <2>1. Byte \subseteq Nat
    BY BaseType
  <2> QED BY <2>1, PutUintType, SeqMonotonic, Zenon
<1>2. PICK f \in [0 .. n -> Nat] :
         /\ f[0] = 0 /\ Uint(b) = f[n]
         /\ \A k \in 1 .. n : f[k] = f[k - 1] * Base + b[k]
  <2> HIDE DEF b
  <2> QED BY <1>1, UintRec, Zenon
<1> DEFINE S == {k \in 0 .. n : f[k] = v \div Power(n - k)}
<1>3. 0 \in S
  <2>0. Power(n) \in Nat \ {0}
    BY PowerIs
  <2>1. 0 \in Int /\ v \in 0 .. Power(n) - 1 /\ v = 0 * Power(n) + v
    BY <2>0
  <2>2. v \div Power(n) = 0
    BY <2>0, <2>1, DivUnique
  <2>3. n - 0 = n
    OBVIOUS
  <2> QED BY <2>2, <2>3, <1>2
<1>4. ASSUME NEW k \in 0 .. n - 1, k \in S PROVE k + 1 \in S
  <2> DEFINE m == n - (k + 1)
             q == v \div Power(m)
  <2>1. m \in Nat /\ n - k = m + 1
    OBVIOUS
  <2>2. Power(m) \in Nat \ {0} /\ Power(n - k) = Power(m) * Base
    <3> HIDE DEF m
    <3> QED BY <2>1, PowerIs, Zenon
  <2>3. q \in Nat
    <3> HIDE DEF m
    <3> QED BY <2>2, DivIs, Zenon
  <2>4. v \div Power(n - k) = q \div Base
    <3> HIDE DEF m
    <3> QED BY <2>2, BaseType, DivDiv
  <2>5. k + 1 \in 1 .. n /\ (k + 1) - 1 = k
    OBVIOUS
  <2>6. b[k + 1] = q % Base
    BY <2>5 DEF PutUint
  <2>7. f[k + 1] = (q \div Base) * Base + (q % Base)
    <3> HIDE DEF q, m, b
    <3> QED BY <1>2, <1>4, <2>4, <2>5, <2>6
  <2>8. q = (q \div Base) * Base + (q % Base)
    <3> HIDE DEF q, m
    <3> QED BY <2>3, BaseType, DivIs
  <2>9. f[k + 1] = v \div Power(n - (k + 1))
    BY <2>7, <2>8
  <2> QED BY <2>9, <2>5
<1>5. 0 .. n \subseteq S
  <2> HIDE DEF S
  <2> QED BY <1>3, <1>4, UpTo, Zenon
<1>6. f[n] = v \div Power(n - n) /\ n - n = 0
  BY <1>5
<1> QED BY <1>2, <1>6, PowerIs

\* The numbers that the first k bytes of b tell, for each k.
IsPrefixes(f, b, n) ==
  /\ f \in [0 .. n -> Nat] /\ f[0] = 0
  /\ \A k \in 1 .. n : b[k] \in 0 .. Base - 1 /\ f[k] = f[k - 1] * Base + b[k]
  /\ \A k \in 0 .. n : f[k] < Power(k)

\* There are such numbers, and the last of them is the number of all bytes.
LEMMA PrefixesExist ==
  ASSUME NEW b \in Seq(Byte)
  PROVE  \E f : IsPrefixes(f, b, Len(b)) /\ Uint(b) = f[Len(b)]
<1> DEFINE n == Len(b)
<1>1. b \in Seq(Nat) /\ n \in Nat /\ \A k \in 1 .. n : b[k] \in 0 .. Base - 1
  <2>1. Byte \subseteq Nat
    BY BaseType
  <2> QED BY <2>1, SeqMonotonic, BaseType
<1>2. PICK f \in [0 .. n -> Nat] :
         /\ f[0] = 0 /\ Uint(b) = f[n]
         /\ \A k \in 1 .. n : f[k] = f[k - 1] * Base + b[k]
  BY <1>1, UintRec
<1> HIDE DEF n
<1> DEFINE S == {k \in 0 .. n : f[k] < Power(k)}
<1>3. 0 \in S
  BY <1>1, <1>2, PowerIs
<1>4. ASSUME NEW k \in 0 .. n - 1, k \in S PROVE k + 1 \in S
  <2>1. k \in Nat /\ k + 1 \in 1 .. n /\ (k + 1) - 1 = k /\ k \in 0 .. n
    BY <1>1
  <2>2. f[k + 1] = f[k] * Base + b[k + 1] /\ b[k + 1] \in 0 .. Base - 1 /\ f[k] \in Nat
    BY <1>1, <1>2, <2>1
  <2>3. Power(k) \in Nat /\ Power(k + 1) = Power(k) * Base
    BY <2>1, PowerIs
  <2>4. \A x \in Nat, y \in Nat, d \in Nat : x < y => x * d + d <= y * d
    OBVIOUS
  <2>5. f[k] * Base + Base <= Power(k) * Base
    BY <2>2, <2>3, <2>4, <1>4, BaseType, Zenon
  <2>6. f[k] * Base \in Nat /\ Power(k) * Base \in Nat
    <3>1. \A x \in Nat, y \in Nat : x * y \in Nat
      OBVIOUS
    <3> QED BY <3>1, <2>2, <2>3, BaseType, Zenon
  <2>7. f[k + 1] < Power(k + 1)
    <3> DEFINE x == f[k] * Base
               y == Power(k) * Base
               c == b[k + 1]
    <3>1. x \in Nat /\ y \in Nat /\ c \in 0 .. Base - 1 /\ x + Base <= y
      BY <2>2, <2>5, <2>6
    <3>2. f[k + 1] = x + c /\ Power(k + 1) = y
      BY <2>2, <2>3
    <3> HIDE DEF x, y, c
    <3>3. x + c < y
      BY <3>1, BaseType
    <3> QED BY <3>2, <3>3
  <2> QED BY <2>1, <2>7
<1>5. 0 .. n \subseteq S
  <2> HIDE DEF S
  <2> QED BY <1>1, <1>3, <1>4, UpTo, Zenon
<1>6. IsPrefixes(f, b, n)
  BY <1>1, <1>2, <1>5 DEF IsPrefixes
<1> QED BY <1>2, <1>6 DEF n

\* What n bytes can tell is less than Power(n).
LEMMA UintBound ==
  ASSUME NEW b \in Seq(Byte)
  PROVE  Uint(b) \in 0 .. Power(Len(b)) - 1
<1> DEFINE n == Len(b)
<1>1. n \in Nat
  BY LenProperties
<1>2. PICK f : IsPrefixes(f, b, n) /\ Uint(b) = f[n]
  BY PrefixesExist
<1> HIDE DEF n
<1>3. f[n] < Power(n) /\ f[n] \in Nat /\ Power(n) \in Nat
  BY <1>1, <1>2, PowerIs DEF IsPrefixes
<1> QED BY <1>2, <1>3 DEF n

------------------------------------------------------------------------------
(* Sequences *)

\* An array is a sequence.
LEMMA ArrayIsSeq ==
  ASSUME NEW W, NEW n \in Nat, NEW s \in [1 .. n -> W]
  PROVE  s \in Seq(W) /\ Len(s) = n
OBVIOUS

\* The parts of a concatenation.
LEMMA PartsOfCat ==
  ASSUME NEW V, NEW s \in Seq(V), NEW t \in Seq(V)
  PROVE  /\ s \o t \in Seq(V)
         /\ Len(s \o t) = Len(s) + Len(t)
         /\ SubSeq(s \o t, 1, Len(s)) = s
         /\ SubSeq(s \o t, Len(s) + 1, Len(s \o t)) = t
<1> DEFINE c == s \o t
<1>1. /\ c \in Seq(V) /\ Len(c) = Len(s) + Len(t) /\ Len(s) \in Nat /\ Len(t) \in Nat
      /\ \A i \in 1 .. Len(s) + Len(t) : c[i] = IF i <= Len(s) THEN s[i] ELSE t[i - Len(s)]
  BY ConcatProperties
<1> HIDE DEF c
<1>2. \A i \in 1 .. Len(c) : c[i] \in V
  BY <1>1, ElementOfSeq
<1>3. SubSeq(c, 1, Len(s)) = s
  <2> DEFINE u == SubSeq(c, 1, Len(s))
  <2>1. u \in Seq(V) /\ Len(u) = Len(s) /\ \A i \in 1 .. Len(s) : u[i] = c[i]
    BY <1>1, <1>2, SubSeqProperties
  <2>2. \A i \in 1 .. Len(s) : u[i] = s[i]
    <3> HIDE DEF u
    <3> QED BY <2>1, <1>1
  <2> HIDE DEF u
  <2>3. u = s
    BY <2>1, <2>2, SeqEqual
  <2> QED BY <2>3 DEF u
<1>4. SubSeq(c, Len(s) + 1, Len(c)) = t
  <2> DEFINE u == SubSeq(c, Len(s) + 1, Len(c))
  <2>1. u \in Seq(V) /\ Len(u) = Len(t) /\ \A i \in 1 .. Len(t) : u[i] = c[Len(s) + i]
    BY <1>1, <1>2, SubSeqProperties
  <2>2. \A i \in 1 .. Len(t) : u[i] = t[i]
    <3> SUFFICES ASSUME NEW i \in 1 .. Len(t) PROVE u[i] = t[i]
      BY Zenon
    <3>1. Len(s) + i \in 1 .. Len(s) + Len(t) /\ ~(Len(s) + i <= Len(s)) /\ (Len(s) + i) - Len(s) = i
      BY <1>1
    <3> HIDE DEF u
    <3> QED BY <2>1, <1>1, <3>1, Zenon
  <2> HIDE DEF u
  <2>3. u = t
    BY <2>1, <2>2, SeqEqual
  <2> QED BY <2>3 DEF u
<1> QED BY <1>1, <1>3, <1>4 DEF c

\* The first n elements and the rest.
LEMMA CutAfter ==
  ASSUME NEW V, NEW s \in Seq(V), NEW n \in 0 .. Len(s)
  PROVE  /\ SubSeq(s, 1, n) \in Seq(V) /\ Len(SubSeq(s, 1, n)) = n
         /\ SubSeq(s, n + 1, Len(s)) \in Seq(V) /\ Len(SubSeq(s, n + 1, Len(s))) = Len(s) - n
         /\ SubSeq(s, 1, n) \o SubSeq(s, n + 1, Len(s)) = s
         /\ \A i \in 1 .. n : SubSeq(s, 1, n)[i] = s[i]
         /\ \A i \in 1 .. Len(s) - n : SubSeq(s, n + 1, Len(s))[i] = s[n + i]
<1>1. Len(s) \in Nat /\ n \in Nat /\ n <= Len(s) /\ \A i \in 1 .. Len(s) : s[i] \in V
  BY ElementOfSeq
<1>2. /\ SubSeq(s, 1, n) \in Seq(V) /\ Len(SubSeq(s, 1, n)) = n
      /\ \A i \in 1 .. n : SubSeq(s, 1, n)[i] = s[i]
  BY <1>1, SubSeqProperties
<1>3. /\ SubSeq(s, n + 1, Len(s)) \in Seq(V) /\ Len(SubSeq(s, n + 1, Len(s))) = Len(s) - n
      /\ \A i \in 1 .. Len(s) - n : SubSeq(s, n + 1, Len(s))[i] = s[n + i]
  BY <1>1, SubSeqProperties
<1>4. SubSeq(s, 1, n) \o SubSeq(s, n + 1, Len(s)) = s
  <2>1. 1 \in 1 .. Len(s) + 1 /\ n \in 1 - 1 .. Len(s) /\ Len(s) \in n .. Len(s)
    BY <1>1
  <2>2. SubSeq(s, 1, n) \o SubSeq(s, n + 1, Len(s)) = SubSeq(s, 1, Len(s))
    BY <2>1, ConcatAdjacentSubSeq, Zenon
  <2> QED BY <2>2, SubSeqFull, Zenon
<1> QED BY <1>2, <1>3, <1>4, Zenon

\* What a part of the rest of a sequence is.
LEMMA PartsOfRest ==
  ASSUME NEW V, NEW s \in Seq(V), NEW o \in 0 .. Len(s), NEW n \in 0 .. Len(s) - o
  PROVE  LET d == SubSeq(s, o + 1, Len(s)) IN
         /\ SubSeq(d, 1, n) = SubSeq(s, o + 1, o + n)
         /\ SubSeq(d, n + 1, Len(d)) = SubSeq(s, o + n + 1, Len(s))
<1> DEFINE L == Len(s)
           d == SubSeq(s, o + 1, L)
           a == SubSeq(d, 1, n)
           b == SubSeq(d, n + 1, Len(d))
           x == SubSeq(s, o + 1, o + n)
           y == SubSeq(s, o + n + 1, L)
<1>1. L \in Nat /\ o \in Nat /\ n \in Nat /\ o + n <= L /\ \A i \in 1 .. L : s[i] \in V
  BY LenProperties, ElementOfSeq
<1>2. d \in Seq(V) /\ Len(d) = L - o /\ \A i \in 1 .. L - o : d[i] = s[o + i]
  BY CutAfter
<1>3. /\ x \in Seq(V) /\ Len(x) = n
      /\ \A i \in 1 .. n : x[i] = s[o + i]
  <2> HIDE DEF L
  <2>1. o + 1 \in Int /\ o + n \in Int /\ \A i \in o + 1 .. o + n : s[i] \in V
    BY <1>1
  <2>2. /\ x \in Seq(V) /\ Len(x) = IF o + 1 <= o + n THEN (o + n) - (o + 1) + 1 ELSE 0
        /\ \A i \in 1 .. (o + n) - (o + 1) + 1 : x[i] = s[(o + 1) + i - 1]
    BY <2>1, SubSeqProperties
  <2> HIDE DEF x
  <2>3. (o + n) - (o + 1) + 1 = n /\ \A i \in 1 .. n : (o + 1) + i - 1 = o + i
    BY <1>1
  <2>4. Len(x) = n
    BY <2>2, <2>3, <1>1
  <2> QED BY <2>2, <2>3, <2>4
<1>4. /\ y \in Seq(V) /\ Len(y) = L - (o + n)
      /\ \A i \in 1 .. L - (o + n) : y[i] = s[(o + n) + i]
  <2>1. o + n \in 0 .. Len(s)
    BY <1>1
  <2> QED BY <2>1, CutAfter
<1> HIDE DEF L, d
<1>5. n \in 0 .. Len(d)
  BY <1>1, <1>2
<1>6. /\ a \in Seq(V) /\ Len(a) = n /\ b \in Seq(V) /\ Len(b) = (L - o) - n
      /\ \A i \in 1 .. n : a[i] = d[i]
      /\ \A i \in 1 .. (L - o) - n : b[i] = d[n + i]
  BY <1>2, <1>5, CutAfter
<1> HIDE DEF a, b, x, y
<1>7. a = x
  <2>1. \A i \in 1 .. n : i \in 1 .. L - o
    BY <1>1
  <2>2. \A i \in 1 .. n : a[i] = x[i]
    BY <2>1, <1>2, <1>3, <1>6, Zenon
  <2> QED BY <2>2, <1>3, <1>6, SeqEqual
<1>8. b = y
  <2>1. (L - o) - n = L - (o + n)
    BY <1>1
  <2>2. \A i \in 1 .. L - (o + n) : n + i \in 1 .. L - o /\ o + (n + i) = (o + n) + i
    BY <1>1
  <2>3. ASSUME NEW i \in 1 .. L - (o + n) PROVE b[i] = y[i]
    <3>1. b[i] = d[n + i]
      BY <2>1, <1>6
    <3>2. d[n + i] = s[o + (n + i)]
      BY <2>2, <1>2
    <3> QED BY <3>1, <3>2, <2>2, <1>4
  <2>4. Len(b) = L - (o + n) /\ b \in Seq(V)
    BY <2>1, <1>6
  <2> QED BY <2>3, <2>4, <1>4, SeqEqual, Zenon
<1> QED BY <1>7, <1>8 DEF a, b, x, y, d, L

------------------------------------------------------------------------------
(* Joined *)

\* c is a, b and d, one after the other.
SameJoin(c, a, b, d) == c = a \o (b \o d)

\* In whichever order they are put together.
LEMMA CatAssociates ==
  ASSUME NEW V, NEW a \in Seq(V), NEW b \in Seq(V), NEW d \in Seq(V)
  PROVE  SameJoin((a \o b) \o d, a, b, d)
<1>1. (a \o b) \o d = a \o (b \o d)
  BY ConcatAssociative
<1> QED BY <1>1 DEF SameJoin

\* What the first k sequences are joined to.
IsFlat(f, seqs, V) ==
  /\ f \in [0 .. Len(seqs) -> Seq(V)]
  /\ f[0] = <<>>
  /\ \A k \in 1 .. Len(seqs) : f[k] = f[k - 1] \o seqs[k]

\* There is such a function.
LEMMA FlatExists ==
  ASSUME NEW V, NEW seqs \in Seq(Seq(V))
  PROVE  \E f : IsFlat(f, seqs, V)
<1> DEFINE N == Len(seqs)
           W == Seq(V)
           g == [k \in 1 .. N |-> [s \in W |-> s \o seqs[k]]]
<1>1. N \in Nat /\ <<>> \in W /\ \A k \in 1 .. N : seqs[k] \in W
  BY EmptySeq
<1>2. g \in [1 .. N -> [W -> W]]
  <2>1. \A s \in W, t \in W : s \o t \in W
    BY ConcatProperties
  <2> QED BY <2>1, <1>1
<1>3. PICK f : IsRec(f, N, W, <<>>, g)
  <2> HIDE DEF g, W, N
  <2> QED BY <1>1, <1>2, Recursion
<1>4. f \in [0 .. N -> W] /\ f[0] = <<>> /\ \A k \in 1 .. N : f[k] = g[k][f[k - 1]]
  BY <1>3, Zenon DEF IsRec
<1>5. ASSUME NEW k \in 1 .. N PROVE f[k] = f[k - 1] \o seqs[k]
  <2>1. k - 1 \in 0 .. N
    BY <1>1
  <2>2. f[k - 1] \in W
    BY <2>1, <1>4, Zenon
  <2> QED BY <2>2, <1>4, Zenon
<1> QED BY <1>4, <1>5, Zenon DEF IsFlat

\* What parts are joined to is the last of their running concatenations.
LEMMA JoinedIs ==
  ASSUME NEW V, NEW seqs \in Seq(Seq(V)), NEW f, IsFlat(f, seqs, V)
  PROVE  Joined(seqs) = f[Len(seqs)]
<1> DEFINE N == Len(seqs)
           F(h) == [k \in 0 .. N |-> IF k = 0 THEN <<>> ELSE h[k - 1] \o seqs[k]]
           U == CHOOSE h : h = F(h)
           S == {k \in 0 .. N : U[k] = f[k]}
<1>1. N \in Nat
  BY LenProperties
<1>2. /\ f \in [0 .. N -> Seq(V)] /\ f[0] = <<>>
      /\ \A k \in 1 .. N : f[k] = f[k - 1] \o seqs[k]
  BY Zenon DEF IsFlat
<1>3. Joined(seqs) = U[N]
  BY DEF Joined
<1>4. f = F(f)
  <2>1. ASSUME NEW k \in 0 .. N PROVE f[k] = IF k = 0 THEN <<>> ELSE f[k - 1] \o seqs[k]
    <3>1. k = 0 \/ k \in 1 .. N
      BY <1>1
    <3> HIDE DEF N
    <3>2. 0 \notin 1 .. N
      BY <1>1
    <3> QED BY <3>1, <3>2, <1>2, Zenon
  <2> HIDE DEF N
  <2> QED BY <2>1, <1>2, Zenon
<1>5. U = F(U)
  BY <1>4, Zenon
<1> HIDE DEF U, N
<1>6. \A k \in 0 .. N : U[k] = IF k = 0 THEN <<>> ELSE U[k - 1] \o seqs[k]
  BY <1>5, Zenon
<1>7. 0 \in S
  <2>1. 0 \in 0 .. N
    BY <1>1
  <2> QED BY <2>1, <1>2, <1>6, Zenon
<1>8. ASSUME NEW k \in 0 .. N - 1, k \in S PROVE k + 1 \in S
  <2>1. k + 1 \in 0 .. N /\ k + 1 \in 1 .. N /\ k + 1 # 0 /\ (k + 1) - 1 = k
    BY <1>1
  <2>2. U[k] = f[k]
    BY <1>8
  <2> QED BY <2>1, <2>2, <1>2, <1>6, Zenon
<1>9. 0 .. N \subseteq S
  <2> HIDE DEF S
  <2> QED BY <1>1, <1>7, <1>8, UpTo, Zenon
<1>10. N \in 0 .. N
  BY <1>1
<1> QED BY <1>3, <1>9, <1>10, Zenon DEF N

Begins(s, t, V) == \E u \in Seq(V) : t = s \o u

\* What the first parts are joined to begins what all are joined to.
LEMMA FlatPrefix ==
  ASSUME NEW V, NEW seqs \in Seq(Seq(V)), NEW f, IsFlat(f, seqs, V),
         NEW k \in 0 .. Len(seqs), NEW m \in k .. Len(seqs)
  PROVE  Begins(f[k], f[m], V)
<1> DEFINE N == Len(seqs)
           S == {i \in 0 .. N - k : \E t \in Seq(V) : f[k + i] = f[k] \o t}
<1>1. /\ N \in Nat /\ k \in 0 .. N /\ k \in Nat /\ N - k \in Nat /\ f \in [0 .. N -> Seq(V)]
      /\ \A j \in 1 .. N : f[j] = f[j - 1] \o seqs[j] /\ seqs[j] \in Seq(V)
  <2>1. N \in Nat /\ \A j \in 1 .. N : seqs[j] \in Seq(V)
    BY LenProperties, ElementOfSeq
  <2>2. k \in Nat /\ N - k \in Nat
    BY <2>1
  <2> QED BY <2>1, <2>2 DEF IsFlat
<1>2. 0 \in S
  <2>0. f[k] \in Seq(V) /\ k + 0 = k
    <3> HIDE DEF N
    <3> QED BY <1>1
  <2>1. <<>> \in Seq(V) /\ f[k] \o <<>> = f[k]
    BY <2>0, ConcatEmptySeq, EmptySeq
  <2>2. 0 \in 0 .. N - k
    BY <1>1
  <2> QED BY <2>0, <2>1, <2>2, Zenon
<1>3. ASSUME NEW i \in 0 .. (N - k) - 1, i \in S PROVE i + 1 \in S
  <2>1. PICK t \in Seq(V) : f[k + i] = f[k] \o t
    BY <1>3, Zenon
  <2>2. k + (i + 1) \in 1 .. N /\ (k + (i + 1)) - 1 = k + i /\ i + 1 \in 0 .. N - k
    BY <1>1
  <2>3. f[k + (i + 1)] = (f[k] \o t) \o seqs[k + (i + 1)]
    BY <1>1, <2>1, <2>2, Zenon
  <2>4. f[k] \in Seq(V) /\ seqs[k + (i + 1)] \in Seq(V)
    BY <1>1, <2>2, Zenon
  <2>5. (f[k] \o t) \o seqs[k + (i + 1)] = f[k] \o (t \o seqs[k + (i + 1)])
    <3> DEFINE x == f[k]
               z == seqs[k + (i + 1)]
    <3>1. x \in Seq(V) /\ z \in Seq(V)
      BY <2>4
    <3> HIDE DEF x, z
    <3>2. SameJoin((x \o t) \o z, x, t, z)
      BY <3>1, CatAssociates, Zenon
    <3> QED BY <3>2, Zenon DEF SameJoin, x, z
  <2>6. t \o seqs[k + (i + 1)] \in Seq(V)
    BY <2>4, ConcatProperties
  <2> QED BY <2>2, <2>3, <2>5, <2>6, Zenon
<1>4. 0 .. N - k \subseteq S
  <2> HIDE DEF S, N
  <2> QED BY <1>1, <1>2, <1>3, UpTo, Zenon
<1>5. m - k \in 0 .. N - k /\ k + (m - k) = m
  BY <1>1
<1> QED BY <1>4, <1>5, Zenon DEF Begins

\* Nothing is joined to nothing.
LEMMA JoinedEmpty == Joined(<<>>) = <<>>
<1>1. <<>> \in Seq(Seq({})) /\ Len(<<>>) = 0
  OBVIOUS
<1>2. PICK f : IsFlat(f, <<>>, {})
  BY <1>1, FlatExists, Zenon
<1>3. Joined(<<>>) = f[0]
  BY <1>1, <1>2, JoinedIs, Zenon
<1> QED BY <1>2, <1>3 DEF IsFlat

\* What is joined has the elements of its parts.
LEMMA JoinedType ==
  ASSUME NEW V, NEW seqs \in Seq(Seq(V))
  PROVE  Joined(seqs) \in Seq(V)
<1>1. PICK f : IsFlat(f, seqs, V)
  BY FlatExists
<1>2. Joined(seqs) = f[Len(seqs)]
  BY <1>1, JoinedIs
<1>3. Len(seqs) \in 0 .. Len(seqs)
  BY LenProperties
<1> QED BY <1>1, <1>2, <1>3 DEF IsFlat

\* Parts that follow one another are joined one after the other.
LEMMA JoinedCat ==
  ASSUME NEW V, NEW a \in Seq(Seq(V)), NEW b \in Seq(Seq(V))
  PROVE  Joined(a \o b) = Joined(a) \o Joined(b)
<1> DEFINE W == Seq(V)
           c == a \o b
           M == Len(a)
           N == Len(b)
<1>1. PICK f : IsFlat(f, a, V)
  BY FlatExists
<1>2. PICK g : IsFlat(g, b, V)
  BY FlatExists
<1>3. M \in Nat /\ N \in Nat
  BY LenProperties
<1>c. /\ c \in Seq(W) /\ Len(c) = M + N
      /\ \A i \in 1 .. M + N : c[i] = IF i <= M THEN a[i] ELSE b[i - M]
  BY ConcatProperties
<1>4. /\ f \in [0 .. M -> W] /\ f[0] = <<>>
      /\ \A k \in 1 .. M : f[k] = f[k - 1] \o a[k] /\ a[k] \in W
  BY <1>1, ElementOfSeq, Zenon DEF IsFlat
<1>5. /\ g \in [0 .. N -> W] /\ g[0] = <<>>
      /\ \A k \in 1 .. N : g[k] = g[k - 1] \o b[k] /\ b[k] \in W
  BY <1>2, ElementOfSeq, Zenon DEF IsFlat
<1>6. Joined(a) = f[M] /\ Joined(b) = g[N]
  BY <1>1, <1>2, JoinedIs
<1> DEFINE h == [k \in 0 .. M + N |-> IF k <= M THEN f[k] ELSE f[M] \o g[k - M]]
<1>7. f[M] \in W
  <2>1. M \in 0 .. M
    BY <1>3
  <2> QED BY <1>4, <2>1, Zenon
<1>8. h \in [0 .. M + N -> W]
  <2>1. ASSUME NEW k \in 0 .. M + N PROVE h[k] \in W
    <3>1. CASE k <= M
      <4>1. k \in 0 .. M
        BY <3>1, <1>3
      <4>2. f[k] \in W
        BY <4>1, <1>4, Zenon
      <4> QED BY <4>2, <3>1
    <3>2. CASE ~(k <= M)
      <4>1. k - M \in 0 .. N
        BY <3>2, <1>3
      <4>2. g[k - M] \in W
        BY <4>1, <1>5, Zenon
      <4>3. f[M] \o g[k - M] \in W
        BY <4>2, <1>7, ConcatProperties
      <4> QED BY <4>3, <3>2
    <3> QED BY <3>1, <3>2
  <2> QED BY <2>1
<1>9. ASSUME NEW k \in 1 .. M + N PROVE h[k] = h[k - 1] \o c[k]
  <2>1. k - 1 \in 0 .. M + N /\ k \in 0 .. M + N
    BY <1>3
  <2>2. CASE k <= M
    <3>1. k \in 1 .. M /\ k - 1 <= M /\ c[k] = a[k]
      BY <2>2, <1>3, <1>c
    <3>2. h[k] = f[k] /\ h[k - 1] = f[k - 1]
      BY <3>1, <2>1, <2>2
    <3> QED BY <3>1, <3>2, <1>4, Zenon
  <2>3. CASE ~(k <= M)
    <3> DEFINE j == k - M
    <3>1. j \in 1 .. N /\ j - 1 \in 0 .. N /\ c[k] = b[j]
      BY <2>3, <1>3, <1>c
    <3>2. h[k] = f[M] \o g[j]
      BY <2>1, <2>3, Zenon
    <3>3. g[j] = g[j - 1] \o b[j] /\ g[j - 1] \in W /\ b[j] \in W
      <4> HIDE DEF j
      <4> QED BY <3>1, <1>5, Zenon
    <3>4. h[k - 1] = f[M] \o g[j - 1]
      <4>1. CASE k - 1 <= M
        <5>1. k - 1 = M /\ j - 1 = 0
          BY <4>1, <2>3, <1>3
        <5>2. h[k - 1] = f[M]
          BY <5>1, <2>1, <4>1
        <5>3. f[M] \o <<>> = f[M]
          BY <1>7, ConcatEmptySeq
        <5> QED BY <5>1, <5>2, <5>3, <1>5, Zenon
      <4>2. CASE ~(k - 1 <= M)
        <5>1. (k - 1) - M = j - 1
          BY <1>3
        <5> QED BY <5>1, <4>2, <2>1, Zenon
      <4> QED BY <4>1, <4>2, Zenon
    <3> DEFINE x == f[M]
               y == g[j - 1]
               z == b[j]
    <3>5. x \in W /\ y \in W /\ z \in W
      BY <1>7, <3>3
    <3>6. SameJoin((x \o y) \o z, x, y, z)
      <4> HIDE DEF x, y, z
      <4> QED BY <3>5, CatAssociates, Zenon
    <3>7. h[k] = x \o (y \o z) /\ h[k - 1] = x \o y /\ c[k] = z
      BY <3>1, <3>2, <3>3, <3>4, Zenon
    <3> HIDE DEF x, y, z, h, c, j
    <3> QED BY <3>6, <3>7, Zenon DEF SameJoin
  <2> QED BY <2>2, <2>3, Zenon
<1>10. h[0] = <<>>
  BY <1>3, <1>4
<1>11. IsFlat(h, c, V)
  <2> HIDE DEF h, c
  <2> QED BY <1>c, <1>8, <1>9, <1>10 DEF IsFlat
<1>12. Joined(c) = h[M + N]
  <2> HIDE DEF h, c
  <2> QED BY <1>c, <1>11, JoinedIs, Zenon
<1>13. h[M + N] = f[M] \o g[N]
  <2>1. CASE N = 0
    <3>1. h[M + N] = f[M]
      BY <2>1, <1>3
    <3>2. f[M] \o <<>> = f[M]
      BY <1>7, ConcatEmptySeq
    <3> QED BY <3>1, <3>2, <2>1, <1>5
  <2>2. CASE N # 0
    <3>1. M + N \in 0 .. M + N /\ ~(M + N <= M) /\ (M + N) - M = N
      BY <2>2, <1>3
    <3> QED BY <3>1, Zenon
  <2> QED BY <2>1, <2>2, Zenon
<1> QED BY <1>6, <1>12, <1>13, Zenon

\* A single part, joined to nothing, is itself.
LEMMA JoinedOne ==
  ASSUME NEW V, NEW s \in Seq(V)
  PROVE  Joined(<<s>>) = s
<1> DEFINE W == Seq(V)
           t == <<s>>
           f == [k \in 0 .. 1 |-> IF k = 0 THEN <<>> ELSE s]
<1>1. t \in Seq(W) /\ Len(t) = 1 /\ t[1] = s /\ <<>> \in W
  OBVIOUS
<1>2. f \in [0 .. 1 -> W] /\ f[0] = <<>> /\ f[1] = s
  BY <1>1
<1>3. \A k \in 1 .. 1 : f[k] = f[k - 1] \o t[k]
  <2>1. <<>> \o s = s
    BY ConcatEmptySeq
  <2>2. f[1] = f[0] \o t[1]
    BY <2>1, <1>1, <1>2
  <2> HIDE DEF f, t
  <2>3. \A k \in 1 .. 1 : k = 1 /\ k - 1 = 0
    OBVIOUS
  <2> QED BY <2>2, <2>3, Zenon
<1> HIDE DEF f, t
<1>4. IsFlat(f, t, V)
  BY <1>1, <1>2, <1>3 DEF IsFlat
<1>5. Joined(t) = f[1]
  BY <1>1, <1>4, JoinedIs, Zenon
<1> QED BY <1>2, <1>5 DEF t

\* A part more goes to the end.
LEMMA JoinedAppend ==
  ASSUME NEW V, NEW seqs \in Seq(Seq(V)), NEW s \in Seq(V)
  PROVE  Joined(Append(seqs, s)) = Joined(seqs) \o s
<1>1. Append(seqs, s) = seqs \o <<s>>
  BY AppendIsConcat
<1>2. <<s>> \in Seq(Seq(V))
  OBVIOUS
<1> DEFINE one == <<s>>
<1>3. Joined(one) = s
  BY JoinedOne
<1>4. Joined(seqs \o one) = Joined(seqs) \o Joined(one)
  <2>1. one \in Seq(Seq(V))
    BY <1>2
  <2> HIDE DEF one
  <2> QED BY <2>1, JoinedCat
<1> QED BY <1>1, <1>3, <1>4, Zenon

\* The middle of three parts.
LEMMA MiddleOfCat ==
  ASSUME NEW V, NEW a \in Seq(V), NEW b \in Seq(V), NEW c \in Seq(V)
  PROVE  SubSeq((a \o b) \o c, Len(a) + 1, Len(a) + Len(b)) = b
<1> DEFINE s == (a \o b) \o c
           m == Len(a)
           n == Len(b)
           u == SubSeq(s, m + 1, m + n)
<1>1. m \in Nat /\ n \in Nat /\ Len(c) \in Nat
  BY LenProperties
<1>2. /\ a \o b \in Seq(V) /\ Len(a \o b) = m + n
      /\ \A i \in 1 .. m + n : (a \o b)[i] = IF i <= m THEN a[i] ELSE b[i - m]
  BY ConcatProperties
<1>3. \A i \in 1 .. (m + n) + Len(c) : s[i] = IF i <= m + n THEN (a \o b)[i] ELSE c[i - (m + n)]
  <2> DEFINE d == a \o b
  <2> HIDE DEF d
  <2>1. \A i \in 1 .. Len(d) + Len(c) : (d \o c)[i] = IF i <= Len(d) THEN d[i] ELSE c[i - Len(d)]
    BY <1>2, ConcatProperties DEF d
  <2> QED BY <2>1, <1>2 DEF d
<1> HIDE DEF s, m, n
<1>4. \A i \in 1 .. n : s[m + i] = b[i] /\ b[i] \in V
  <2> SUFFICES ASSUME NEW i \in 1 .. n PROVE s[m + i] = b[i] /\ b[i] \in V
    OBVIOUS
  <2>1. m + i \in 1 .. (m + n) + Len(c) /\ m + i \in 1 .. m + n /\ ~(m + i <= m) /\ (m + i) - m = i
    BY <1>1
  <2>2. m + i <= m + n
    BY <1>1
  <2>3. b[i] \in V
    BY ElementOfSeq DEF n
  <2> QED BY <2>1, <2>2, <2>3, <1>2, <1>3
<1>5. \A i \in m + 1 .. m + n : s[i] \in V
  <2> SUFFICES ASSUME NEW i \in m + 1 .. m + n PROVE s[i] \in V
    OBVIOUS
  <2>1. i - m \in 1 .. n /\ m + (i - m) = i
    BY <1>1
  <2> QED BY <2>1, <1>4
<1>6. /\ u \in Seq(V) /\ Len(u) = n
      /\ \A i \in 1 .. n : u[i] = s[m + i]
  <2>1. m + 1 \in Int /\ m + n \in Int
    BY <1>1
  <2>2. /\ u \in Seq(V) /\ Len(u) = IF m + 1 <= m + n THEN (m + n) - (m + 1) + 1 ELSE 0
        /\ \A i \in 1 .. (m + n) - (m + 1) + 1 : u[i] = s[(m + 1) + i - 1]
    BY <2>1, <1>5, SubSeqProperties
  <2> HIDE DEF u
  <2>3. (m + n) - (m + 1) + 1 = n /\ \A i \in 1 .. n : (m + 1) + i - 1 = m + i
    BY <1>1
  <2>4. Len(u) = n
    BY <2>2, <2>3, <1>1
  <2> QED BY <2>2, <2>3, <2>4
<1> HIDE DEF u
<1>7. u = b
  BY <1>4, <1>6, SeqEqual DEF n
<1> QED BY <1>7 DEF u, s, m, n
\* Each sequence is found again between the lengths of what precedes it and
\* of what ends with it, whatever follows.
LEMMA JoinedPart ==
  ASSUME NEW V, NEW seqs \in Seq(Seq(V)), NEW f, IsFlat(f, seqs, V), NEW rest \in Seq(V),
         NEW k \in 1 .. Len(seqs)
  PROVE  SubSeq(Joined(seqs) \o rest, Len(f[k - 1]) + 1, Len(f[k])) = seqs[k]
<1> DEFINE N == Len(seqs)
           a == f[k - 1]
           b == seqs[k]
<1>1. N \in Nat /\ k \in 0 .. N /\ k - 1 \in 0 .. N /\ N \in k .. N
  BY LenProperties
<1>2. a \in Seq(V) /\ b \in Seq(V) /\ f[k] = a \o b
  BY <1>1, ElementOfSeq, Zenon DEF IsFlat
<1>3. PICK t \in Seq(V) : f[N] = f[k] \o t
  <2>1. Begins(f[k], f[N], V)
    BY <1>1, FlatPrefix
  <2> QED BY <2>1, Zenon DEF Begins
<1>4. Joined(seqs) = (a \o b) \o t
  BY <1>2, <1>3, JoinedIs, Zenon
<1> HIDE DEF a, b
<1>5. a \o b \in Seq(V) /\ t \o rest \in Seq(V) /\ Len(a \o b) = Len(a) + Len(b)
  BY <1>2, ConcatProperties
<1>6. Joined(seqs) \o rest = (a \o b) \o (t \o rest)
  <2> DEFINE ab == a \o b
  <2>1. ab \in Seq(V)
    BY <1>5
  <2> HIDE DEF ab
  <2>2. SameJoin((ab \o t) \o rest, ab, t, rest)
    BY <2>1, CatAssociates, Zenon
  <2> QED BY <2>2, <1>4, Zenon DEF ab, SameJoin
<1>7. SubSeq((a \o b) \o (t \o rest), Len(a) + 1, Len(a) + Len(b)) = b
  <2> DEFINE c == t \o rest
  <2>1. c \in Seq(V)
    BY <1>5
  <2> HIDE DEF c
  <2>2. SubSeq((a \o b) \o c, Len(a) + 1, Len(a) + Len(b)) = b
    BY <2>1, <1>2, MiddleOfCat
  <2> QED BY <2>2 DEF c
<1>8. Len(f[k]) = Len(a) + Len(b)
  BY <1>2, <1>5
<1> QED BY <1>6, <1>7, <1>8, Zenon DEF a, b

\* Sequences that are all of length n.
LEMMA JoinedUniform ==
  ASSUME NEW V, NEW seqs \in Seq(Seq(V)), NEW n \in Nat,
         \A k \in 1 .. Len(seqs) : Len(seqs[k]) = n
  PROVE  /\ Len(Joined(seqs)) = Len(seqs) * n
         /\ \A k \in 1 .. Len(seqs) :
              SubSeq(Joined(seqs), (k - 1) * n + 1, k * n) = seqs[k]
<1> DEFINE N == Len(seqs)
<1>1. PICK f : IsFlat(f, seqs, V)
  BY FlatExists
<1>2. /\ N \in Nat /\ f \in [0 .. N -> Seq(V)] /\ f[0] = <<>>
      /\ \A k \in 1 .. N : f[k] = f[k - 1] \o seqs[k] /\ seqs[k] \in Seq(V) /\ Len(seqs[k]) = n
  BY <1>1, LenProperties, ElementOfSeq, Zenon DEF IsFlat
<1> DEFINE S == {k \in 0 .. N : Len(f[k]) = k * n}
<1> HIDE DEF N
<1>3. 0 \in S
  <2>1. Len(f[0]) = 0 /\ 0 * n = 0
    BY <1>2
  <2> QED BY <1>2, <2>1
<1>4. ASSUME NEW k \in 0 .. N - 1, k \in S PROVE k + 1 \in S
  <2>1. k \in 0 .. N /\ k + 1 \in 1 .. N /\ (k + 1) - 1 = k /\ k \in Nat
    BY <1>2
  <2>2. f[k] \in Seq(V) /\ seqs[k + 1] \in Seq(V) /\ f[k + 1] = f[k] \o seqs[k + 1] /\ Len(seqs[k + 1]) = n
    BY <1>2, <2>1, Zenon
  <2>3. Len(f[k + 1]) = k * n + n
    <3> DEFINE x == f[k]
               y == seqs[k + 1]
    <3>1. x \in Seq(V) /\ y \in Seq(V) /\ Len(x) = k * n /\ Len(y) = n
      BY <2>2, <1>4
    <3>2. f[k + 1] = x \o y
      BY <2>2
    <3> HIDE DEF x, y
    <3>3. Len(x \o y) = Len(x) + Len(y)
      BY <3>1, ConcatProperties, Zenon
    <3> QED BY <3>1, <3>2, <3>3
  <2>4. (k + 1) * n = k * n + n
    BY <2>1
  <2> QED BY <2>1, <2>3, <2>4
<1>5. 0 .. N \subseteq S
  <2> HIDE DEF S
  <2> QED BY <1>2, <1>3, <1>4, UpTo, Zenon
<1>6. Joined(seqs) = f[N]
  BY <1>1, JoinedIs DEF N
<1>7. Len(Joined(seqs)) = N * n
  BY <1>2, <1>5, <1>6
<1>8. ASSUME NEW k \in 1 .. N
      PROVE  SubSeq(Joined(seqs), (k - 1) * n + 1, k * n) = seqs[k]
  <2>0. k - 1 \in 0 .. N /\ k \in 0 .. N
    BY <1>2
  <2>1. Len(f[k - 1]) = (k - 1) * n /\ Len(f[k]) = k * n
    BY <2>0, <1>5
  <2>2. <<>> \in Seq(V) /\ Joined(seqs) \o <<>> = Joined(seqs)
    BY JoinedType, EmptySeq, ConcatEmptySeq
  <2>k. k \in 1 .. Len(seqs)
    BY DEF N
  <2>3. SubSeq(Joined(seqs) \o <<>>, Len(f[k - 1]) + 1, Len(f[k])) = seqs[k]
    BY <1>1, <2>2, <2>k, JoinedPart, ZenonT(30)
  <2> QED BY <2>1, <2>2, <2>3
<1> QED BY <1>7, <1>8 DEF N

\* n zeros are bytes.
LEMMA ZerosType ==
  ASSUME NEW n \in Nat
  PROVE  Zeros(n) \in Seq(Byte) /\ Len(Zeros(n)) = n
<1>1. Zeros(n) \in [1 .. n -> Byte]
  BY BaseType DEF Zeros
<1> QED BY <1>1

\* A copy into an array.
LEMMA CopiedType ==
  ASSUME NEW n \in Nat, NEW s \in Seq(Byte)
  PROVE  Copied(n, s) \in Seq(Byte) /\ Len(Copied(n, s)) = n
<1>1. ASSUME NEW k \in 1 .. n PROVE (IF k <= Len(s) THEN s[k] ELSE 0) \in Byte
  <2>1. CASE k <= Len(s)
    <3>1. k \in 1 .. Len(s)
      BY <2>1, LenProperties
    <3> QED BY <2>1, <3>1, ElementOfSeq
  <2>2. CASE ~(k <= Len(s))
    BY <2>2, BaseType
  <2> QED BY <2>1, <2>2
<1>2. Copied(n, s) \in [1 .. n -> Byte]
  BY <1>1 DEF Copied
<1> QED BY <1>2

------------------------------------------------------------------------------
(* Addresses: the bytes that ipalloc.go works on, and their numbers *)

\* The first j bytes are the same.
AgreeUpTo(b, c, j) == \A k \in 1 .. j : b[k] = c[k]

\* Equal numbers have equal bytes, and equal bytes equal numbers.
LEMMA SamePrefix ==
  ASSUME NEW n \in Nat, NEW f, NEW g, NEW b, NEW c, NEW j \in 0 .. n,
         IsPrefixes(f, b, n), IsPrefixes(g, c, n)
  PROVE  (f[j] = g[j]) = AgreeUpTo(b, c, j)
<1>1. /\ f \in [0 .. n -> Nat] /\ f[0] = 0
      /\ \A k \in 1 .. n : b[k] \in 0 .. Base - 1 /\ f[k] = f[k - 1] * Base + b[k]
      /\ g \in [0 .. n -> Nat] /\ g[0] = 0
      /\ \A k \in 1 .. n : c[k] \in 0 .. Base - 1 /\ g[k] = g[k - 1] * Base + c[k]
  BY DEF IsPrefixes
<1>2. Base \in Nat \ {0}
  BY BaseType
<1>3. ASSUME NEW k \in 1 .. n, f[k] = g[k] PROVE f[k - 1] = g[k - 1] /\ b[k] = c[k]
  <2>1. /\ f[k] \in Nat /\ f[k - 1] \in Nat /\ g[k - 1] \in Nat
        /\ b[k] \in 0 .. Base - 1 /\ c[k] \in 0 .. Base - 1
        /\ f[k] = f[k - 1] * Base + b[k] /\ f[k] = g[k - 1] * Base + c[k]
    BY <1>1, <1>3
  <2>2. \A v \in Nat, q \in Nat, r \in 0 .. Base - 1 :
           v = q * Base + r => v \div Base = q /\ v % Base = r
    BY <1>2, DivUnique
  <2>3. f[k] \div Base = f[k - 1] /\ f[k] % Base = b[k]
    BY <2>1, <2>2, Zenon
  <2>4. f[k] \div Base = g[k - 1] /\ f[k] % Base = c[k]
    BY <2>1, <2>2, Zenon
  <2> QED BY <2>3, <2>4
<1>4. ASSUME f[j] = g[j] PROVE \A k \in 1 .. j : b[k] = c[k]
  <2> DEFINE S == {i \in 0 .. j : f[j - i] = g[j - i]}
  <2>1. 0 \in S
    BY <1>4
  <2>2. ASSUME NEW i \in 0 .. j - 1, i \in S PROVE i + 1 \in S
    <3>1. j - i \in 1 .. n /\ (j - i) - 1 = j - (i + 1) /\ i + 1 \in 0 .. j
      OBVIOUS
    <3>2. f[(j - i) - 1] = g[(j - i) - 1]
      BY <2>2, <3>1, <1>3
    <3> QED BY <3>1, <3>2
  <2>3. 0 .. j \subseteq S
    <3>1. j \in Nat
      OBVIOUS
    <3> HIDE DEF S
    <3> QED BY <3>1, <2>1, <2>2, UpTo
  <2> TAKE k \in 1 .. j
  <2>4. j - k \in S /\ j - (j - k) = k /\ k \in 1 .. n
    BY <2>3
  <2>5. f[k] = g[k]
    BY <2>4
  <2> QED BY <2>4, <2>5, <1>3
<1>5. ASSUME \A k \in 1 .. j : b[k] = c[k] PROVE f[j] = g[j]
  <2> DEFINE S == {i \in 0 .. j : f[i] = g[i]}
  <2>1. 0 \in S
    BY <1>1
  <2>2. ASSUME NEW i \in 0 .. j - 1, i \in S PROVE i + 1 \in S
    <3>1. i + 1 \in 1 .. n /\ i + 1 \in 1 .. j /\ i + 1 \in 0 .. j /\ (i + 1) - 1 = i
      OBVIOUS
    <3>2. f[i + 1] = f[i] * Base + b[i + 1] /\ g[i + 1] = g[i] * Base + c[i + 1]
      BY <3>1, <1>1
    <3>3. f[i] = g[i] /\ b[i + 1] = c[i + 1]
      BY <3>1, <2>2, <1>5
    <3> QED BY <3>1, <3>2, <3>3
  <2>3. 0 .. j \subseteq S
    <3>1. j \in Nat
      OBVIOUS
    <3> HIDE DEF S
    <3> QED BY <3>1, <2>1, <2>2, UpTo
  <2> QED BY <2>3
<1> QED BY <1>4, <1>5 DEF AgreeUpTo

\* Different bytes are different numbers, of either byte order.
LEMMA UintTells ==
  ASSUME NEW a \in Seq(Byte), NEW b \in Seq(Byte), Len(a) = Len(b)
  PROVE  /\ Uint(a) = Uint(b) => a = b
         /\ LittleUint(a) = LittleUint(b) => a = b
<1>1. ASSUME NEW x \in Seq(Byte), NEW y \in Seq(Byte), Len(x) = Len(y), Uint(x) = Uint(y)
      PROVE  \A k \in 1 .. Len(x) : x[k] = y[k]
  <2> DEFINE m == Len(x)
  <2>1. PICK f : IsPrefixes(f, x, m) /\ Uint(x) = f[m]
    BY PrefixesExist
  <2>2. PICK g : IsPrefixes(g, y, m) /\ Uint(y) = g[m]
    BY <1>1, PrefixesExist
  <2>3. m \in Nat /\ m \in 0 .. m
    BY LenProperties
  <2>4. f[m] = g[m]
    BY <1>1, <2>1, <2>2
  <2> HIDE DEF m
  <2>5. (f[m] = g[m]) = AgreeUpTo(x, y, m)
    BY <2>1, <2>2, <2>3, SamePrefix
  <2> QED BY <2>4, <2>5 DEF m, AgreeUpTo
<1> DEFINE n == Len(a)
           Back(s) == [k \in DOMAIN s |-> s[Len(s) + 1 - k]]
<1>2. n \in Nat /\ DOMAIN a = 1 .. n /\ DOMAIN b = 1 .. n
  BY LenProperties
<1>3. Uint(a) = Uint(b) => a = b
  BY <1>1, SeqEqual
<1>4. ASSUME LittleUint(a) = LittleUint(b) PROVE a = b
  <2>1. ASSUME NEW s \in Seq(Byte), Len(s) = n PROVE Back(s) \in Seq(Byte) /\ Len(Back(s)) = n
    <3>1. Back(s) = [k \in 1 .. n |-> s[n + 1 - k]]
      BY <2>1, LenProperties
    <3>2. ASSUME NEW k \in 1 .. n PROVE s[n + 1 - k] \in Byte
      BY <2>1, <1>2, ElementOfSeq
    <3>3. [k \in 1 .. n |-> s[n + 1 - k]] \in [1 .. n -> Byte]
      BY <3>2
    <3> HIDE DEF Back, n
    <3> QED BY <1>2, <3>1, <3>3, ArrayIsSeq
  <2>2. \A k \in 1 .. n : Back(a)[k] = Back(b)[k]
    <3>1. /\ Back(a) \in Seq(Byte) /\ Len(Back(a)) = n
          /\ Back(b) \in Seq(Byte) /\ Len(Back(b)) = n
      BY <2>1
    <3>2. Uint(Back(a)) = Uint(Back(b))
      BY <1>4 DEF LittleUint
    <3> HIDE DEF Back, n
    <3> QED BY <3>1, <3>2, <1>1
  <2>3. ASSUME NEW k \in 1 .. n PROVE a[k] = b[k]
    <3>1. n + 1 - k \in 1 .. n /\ n + 1 - (n + 1 - k) = k
      BY <1>2
    <3>2. Back(a)[n + 1 - k] = a[k] /\ Back(b)[n + 1 - k] = b[k]
      BY <3>1, <1>2
    <3> QED BY <3>1, <3>2, <2>2
  <2> QED BY <2>3, SeqEqual
<1> QED BY <1>3, <1>4

\* nextIP on the bytes of an address adds one, and the carry out of the
\* highest byte is lost, whatever the number of bytes.
THEOREM NextIPAddsOne ==
  ASSUME NEW b \in Seq(Byte)
  PROVE  /\ nextIP(b) \in Seq(Byte) /\ Len(nextIP(b)) = Len(b)
         /\ Uint(nextIP(b)) = IF Uint(b) + 1 = Power(Len(b)) THEN 0 ELSE Uint(b) + 1
<1> DEFINE n == Len(b)
           c == nextIP(b)
           Carry(k) == \A j \in k + 1 .. n : b[j] = MaxUint8
<1>1. n \in Nat /\ DOMAIN b = 1 .. n /\ Base = MaxUint8 + 1 /\ Base \in Nat /\ Base > 1 /\ MaxUint8 \in Nat
  BY LenProperties, BytesAssumption DEF Base
<1>2. ASSUME NEW k \in 1 .. n PROVE b[k] \in 0 .. MaxUint8
  BY <1>1, ElementOfSeq DEF Byte
<1>3. c = [i \in 1 .. n |-> IF Carry(i) THEN (b[i] + 1) % Base ELSE b[i]]
  BY <1>1 DEF nextIP
<1> HIDE DEF c, n
<1>4. ASSUME NEW k \in 1 .. n
      PROVE  /\ ~Carry(k) => c[k] = b[k] /\ ~Carry(k - 1)
             /\ Carry(k) /\ b[k] # MaxUint8 => c[k] = b[k] + 1 /\ ~Carry(k - 1)
             /\ Carry(k) /\ b[k] = MaxUint8 => c[k] = 0 /\ Carry(k - 1)
             /\ c[k] \in 0 .. MaxUint8
  <2>1. c[k] = IF Carry(k) THEN (b[k] + 1) % Base ELSE b[k]
    BY <1>3
  <2>2. /\ b[k] # MaxUint8 => (b[k] + 1) % Base = b[k] + 1
        /\ b[k] = MaxUint8 => (b[k] + 1) % Base = 0
    <3>1. /\ \A x \in 0 .. Base - 1 : x % Base = x
          /\ Base % Base = 0
      BY <1>1
    <3>2. /\ b[k] # MaxUint8 => b[k] + 1 \in 0 .. Base - 1
          /\ b[k] = MaxUint8 => b[k] + 1 = Base
      BY <1>1, <1>2
    <3> QED BY <3>1, <3>2
  <2>3. Carry(k - 1) <=> Carry(k) /\ b[k] = MaxUint8
    <3>1. \A j : j \in (k - 1) + 1 .. n <=> j = k \/ j \in k + 1 .. n
      BY <1>1
    <3> QED BY <3>1, Zenon
  <2> HIDE DEF Carry
  <2>4. CASE ~Carry(k)
    BY <2>1, <2>3, <2>4, <1>2
  <2>5. CASE Carry(k) /\ b[k] # MaxUint8
    <3>1. c[k] = b[k] + 1 /\ ~Carry(k - 1)
      BY <2>1, <2>2, <2>3, <2>5
    <3> QED BY <3>1, <2>5, <1>1, <1>2
  <2>6. CASE Carry(k) /\ b[k] = MaxUint8
    <3>1. c[k] = 0 /\ Carry(k - 1)
      BY <2>1, <2>2, <2>3, <2>6
    <3> QED BY <3>1, <2>6, <1>1
  <2> QED BY <2>4, <2>5, <2>6
<1>5. c \in Seq(Byte) /\ Len(c) = n
  <2>1. c \in [1 .. n -> Byte]
    BY <1>3, <1>4 DEF Byte
  <2> QED BY <1>1, <2>1, ArrayIsSeq
<1>6. PICK f : IsPrefixes(f, b, n) /\ Uint(b) = f[n]
  BY PrefixesExist DEF n
<1>7. PICK g : IsPrefixes(g, c, n) /\ Uint(c) = g[n]
  BY <1>5, PrefixesExist
<1>8. /\ f \in [0 .. n -> Nat] /\ f[0] = 0 /\ \A k \in 1 .. n : f[k] = f[k - 1] * Base + b[k]
      /\ g \in [0 .. n -> Nat] /\ g[0] = 0 /\ \A k \in 1 .. n : g[k] = g[k - 1] * Base + c[k]
      /\ \A k \in 0 .. n : f[k] < Power(k)
  BY <1>6, <1>7 DEF IsPrefixes
<1> DEFINE Succ(k) == IF f[k] + 1 = Power(k) THEN 0 ELSE f[k] + 1
           S == {k \in 0 .. n : g[k] = IF Carry(k) THEN Succ(k) ELSE f[k]}
<1>9. 0 \in S
  BY <1>1, <1>8, PowerIs
<1> HIDE DEF Carry
<1>10. ASSUME NEW m \in 0 .. n - 1, m \in S PROVE m + 1 \in S
  <2> DEFINE k == m + 1
             p == Power(m)
             x == f[m]
             y == g[m]
             u == b[k]
             w == c[k]
  <2>1. k \in 1 .. n /\ k - 1 = m /\ m \in Nat /\ k \in 0 .. n /\ m \in 0 .. n
    BY <1>1
  <2>2. /\ x \in Nat /\ y \in Nat /\ u \in 0 .. MaxUint8 /\ x < p /\ p \in Nat
        /\ f[k] = x * Base + u /\ g[k] = y * Base + w /\ Power(k) = p * Base
    BY <2>1, <1>2, <1>8, PowerIs
  <2>3. y = IF Carry(m) THEN (IF x + 1 = p THEN 0 ELSE x + 1) ELSE x
    BY <1>10
  <2>4. /\ ~Carry(k) => w = u /\ ~Carry(m)
        /\ Carry(k) /\ u # MaxUint8 => w = u + 1 /\ ~Carry(m)
        /\ Carry(k) /\ u = MaxUint8 => w = 0 /\ Carry(m)
    BY <2>1, <1>4
  <2> HIDE DEF k, p, x, y, u, w
  <2>5. \A d \in Nat : /\ (x + 1) * d = x * d + d /\ x * d \in Nat /\ p * d \in Nat
                       /\ (x + 1) * d <= p * d
    BY <2>2
  <2>6. /\ (x + 1) * Base = x * Base + Base /\ x * Base \in Nat /\ p * Base \in Nat
        /\ (x + 1) * Base <= p * Base
    BY <2>5, <1>1
  <2>7. g[k] = IF Carry(k) THEN Succ(k) ELSE f[k]
    <3>1. CASE ~Carry(k)
      BY <2>2, <2>3, <2>4, <3>1
    <3>2. CASE Carry(k) /\ u # MaxUint8
      <4>1. y = x /\ w = u + 1
        BY <2>3, <2>4, <3>2
      <4> DEFINE z == x * Base
                 q == p * Base
      <4>2. z \in Nat /\ q \in Nat /\ z + Base <= q
        BY <2>6
      <4>3. f[k] = z + u /\ g[k] = z + (u + 1) /\ Power(k) = q
        BY <2>2, <4>1, Zenon
      <4> HIDE DEF z, q
      <4>4. f[k] + 1 # Power(k) /\ g[k] = f[k] + 1
        BY <4>2, <4>3, <2>2, <3>2, <1>1
      <4> QED BY <4>4, <3>2
    <3>3. CASE Carry(k) /\ u = MaxUint8
      <4>1. w = 0 /\ y = IF x + 1 = p THEN 0 ELSE x + 1
        BY <2>3, <2>4, <3>3
      <4>2. f[k] + 1 = (x + 1) * Base /\ g[k] = y * Base
        <5>1. /\ f[k] = x * Base + u /\ (x + 1) * Base = x * Base + Base /\ x * Base \in Nat
              /\ u = Base - 1 /\ g[k] = y * Base + 0 /\ y \in Nat
          BY <2>2, <2>6, <3>3, <4>1, <1>1
        <5> QED BY <5>1, <1>1
      <4>3. CASE x + 1 = p
        <5>1. y = 0 /\ f[k] + 1 = Power(k) /\ g[k] = 0
          BY <4>1, <4>2, <4>3, <2>2, <1>1
        <5> QED BY <5>1, <3>3
      <4>4. CASE x + 1 # p
        <5>1. y = x + 1 /\ (x + 1) * Base # p * Base
          <6>1. \A d \in Nat, u1 \in Nat, u2 \in Nat : u1 < u2 => u1 * d + d <= u2 * d
            OBVIOUS
          <6>2. x + 1 \in Nat /\ x + 1 < p
            BY <4>4, <2>2
          <6>3. (x + 1) * Base + Base <= p * Base
            BY <6>1, <6>2, <2>2, <1>1, Zenon
          <6> QED BY <4>1, <4>4, <6>3, <2>6, <1>1
        <5> QED BY <5>1, <4>2, <2>2, <3>3
      <4> QED BY <4>3, <4>4
    <3> QED BY <3>1, <3>2, <3>3
  <2> QED BY <2>1, <2>7 DEF k
<1>11. 0 .. n \subseteq S
  <2> HIDE DEF S
  <2> QED BY <1>1, <1>9, <1>10, UpTo
<1>12. Carry(n)
  BY <1>1 DEF Carry
<1>13. g[n] = Succ(n)
  BY <1>1, <1>11, <1>12
<1> QED BY <1>5, <1>6, <1>7, <1>13 DEF n, c

\* The bytes after the first j tell a number below Power(n - j).
LEMMA PrefixRange ==
  ASSUME NEW n \in Nat, NEW f, NEW b, IsPrefixes(f, b, n), NEW j \in 0 .. n
  PROVE  f[j] * Power(n - j) <= f[n] /\ f[n] < (f[j] + 1) * Power(n - j)
<1>1. /\ f \in [0 .. n -> Nat]
      /\ \A k \in 1 .. n : b[k] \in 0 .. Base - 1 /\ f[k] = f[k - 1] * Base + b[k]
  BY DEF IsPrefixes
<1> DEFINE x == f[j]
           S == {t \in 0 .. n - j : x * Power(t) <= f[j + t] /\ f[j + t] < (x + 1) * Power(t)}
<1>2. x \in Nat /\ Base \in Nat \ {0} /\ n - j \in Nat
  BY <1>1, BaseType
<1> HIDE DEF x
<1>3. 0 \in S
  <2>1. f[j + 0] = x /\ 0 \in 0 .. n - j
    BY <1>2 DEF x
  <2>2. x * 1 <= x /\ x < (x + 1) * 1
    BY <1>2
  <2> QED BY <2>1, <2>2, PowerIs
<1>4. ASSUME NEW t \in 0 .. (n - j) - 1, t \in S PROVE t + 1 \in S
  <2> DEFINE y == f[j + t]
             p == Power(t)
             u == b[j + t + 1]
  <2>1. j + t + 1 \in 1 .. n /\ (j + t + 1) - 1 = j + t /\ j + t \in 0 .. n /\ t \in Nat /\ t + 1 \in 0 .. n - j
    OBVIOUS
  <2>2. /\ y \in Nat /\ p \in Nat /\ Power(t + 1) = p * Base /\ u \in 0 .. Base - 1
        /\ f[j + t + 1] = y * Base + u
    BY <2>1, <1>1, PowerIs
  <2>3. x * p <= y /\ y < (x + 1) * p
    BY <1>4
  <2> HIDE DEF y, p, u
  <2>4. \A c \in Nat, d \in Nat, e \in Nat :
           /\ c * e \in Nat /\ d * e \in Nat
           /\ c <= d => c * e <= d * e
           /\ c < d => c * e + e <= d * e
    OBVIOUS
  <2>5. x * p \in Nat /\ (x + 1) * p \in Nat
    BY <1>2, <2>2
  <2>6. (x * p) * Base <= y * Base /\ y * Base + Base <= ((x + 1) * p) * Base /\ y * Base \in Nat
    BY <2>2, <2>3, <2>4, <2>5, <1>2, Zenon
  <2>7. (x * p) * Base = x * (p * Base) /\ ((x + 1) * p) * Base = (x + 1) * (p * Base)
    BY <1>2, <2>2
  <2> DEFINE z == y * Base
             l == (x * p) * Base
             h == ((x + 1) * p) * Base
  <2>8. l \in Nat /\ h \in Nat
    BY <2>4, <2>5, <1>2, Zenon
  <2>9. l <= z /\ z + Base <= h /\ z \in Nat
    BY <2>6
  <2> HIDE DEF z, l, h
  <2>10. l <= z + u /\ z + u < h
    BY <2>2, <2>8, <2>9, <1>2
  <2>11. x * Power(t + 1) <= f[j + t + 1] /\ f[j + t + 1] < (x + 1) * Power(t + 1)
    BY <2>2, <2>7, <2>10, Zenon DEF z, l, h
  <2>12. j + (t + 1) = j + t + 1
    OBVIOUS
  <2> QED BY <2>1, <2>11, <2>12
<1>5. 0 .. n - j \subseteq S
  <2> HIDE DEF S
  <2> QED BY <1>2, <1>3, <1>4, UpTo
<1>6. n - j \in S /\ j + (n - j) = n
  BY <1>2, <1>5
<1> QED BY <1>6 DEF x

\* The mask of the blocks of P * Power(m) addresses: ones, one byte that may
\* have both, and zeros.
MaskBytes(n, m, P) ==
  [i \in 1 .. n |-> IF i < n - m THEN MaxUint8 ELSE IF i = n - m THEN Base - P ELSE 0]

\* These are its bytes.
LEMMA MaskIs ==
  ASSUME NEW n \in Nat, NEW m \in 0 .. n - 1, NEW P \in 1 .. Base
  PROVE  /\ Power(n) - P * Power(m) \in Nat /\ Power(n) - P * Power(m) < Power(n)
         /\ PutUint(n, Power(n) - P * Power(m)) = MaskBytes(n, m, P)
<1> DEFINE M == MaskBytes(n, m, P)
           j == n - m
<1>1. Base \in Nat /\ Base = MaxUint8 + 1 /\ MaxUint8 \in Nat /\ P \in Nat \ {0} /\ Base - P \in 0 .. MaxUint8
  BY BytesAssumption DEF Base
<1>2. j \in 1 .. n /\ m \in Nat /\ j + m = n /\ j - 1 \in Nat
  OBVIOUS
<1>3. M \in Seq(Byte) /\ Len(M) = n
  <2>1. M \in [1 .. n -> Byte]
    BY <1>1 DEF MaskBytes, Byte
  <2> HIDE DEF M
  <2> QED BY <2>1, ArrayIsSeq
<1>4. /\ \A i \in 1 .. j - 1 : M[i] = MaxUint8
      /\ M[j] = Base - P
      /\ \A i \in j + 1 .. n : M[i] = 0
  <2>1. \A i \in 1 .. n : M[i] = IF i < j THEN MaxUint8 ELSE IF i = j THEN Base - P ELSE 0
    BY DEF MaskBytes
  <2> HIDE DEF M, j
  <2>2. \A i \in 1 .. j - 1 : i \in 1 .. n /\ i < j
    BY <1>2
  <2>3. \A i \in j + 1 .. n : i \in 1 .. n /\ ~(i < j) /\ i # j
    BY <1>2
  <2>4. ~(j < j)
    BY <1>2
  <2> QED BY <2>1, <2>2, <2>3, <2>4, <1>2
<1> HIDE DEF M, j
<1>5. PICK h : IsPrefixes(h, M, n) /\ Uint(M) = h[n]
  BY <1>3, PrefixesExist
<1>6. /\ h \in [0 .. n -> Nat] /\ h[0] = 0
      /\ \A k \in 1 .. n : h[k] = h[k - 1] * Base + M[k]
      /\ \A k \in 0 .. n : h[k] < Power(k)
  BY <1>5 DEF IsPrefixes
<1>7. h[j - 1] = Power(j - 1) - 1
  <2> DEFINE S == {i \in 0 .. j - 1 : h[i] = Power(i) - 1}
  <2>1. 0 \in S
    BY <1>2, <1>6, PowerIs
  <2>2. ASSUME NEW i \in 0 .. (j - 1) - 1, i \in S PROVE i + 1 \in S
    <3>1. i + 1 \in 1 .. j - 1 /\ i + 1 \in 1 .. n /\ (i + 1) - 1 = i /\ i \in Nat /\ i + 1 \in 0 .. j - 1
      BY <1>2
    <3>2. h[i + 1] = h[i] * Base + MaxUint8 /\ h[i] = Power(i) - 1
      BY <3>1, <1>4, <1>6, <2>2
    <3> DEFINE p == Power(i)
    <3>3. p \in Nat /\ Power(i + 1) = p * Base
      BY <3>1, PowerIs
    <3> HIDE DEF p
    <3>4. (p - 1) * Base = p * Base - Base /\ p * Base \in Nat
      BY <3>3, <1>1
    <3>5. h[i + 1] = p * Base - 1
      BY <3>2, <3>4, <1>1 DEF p
    <3> QED BY <3>1, <3>3, <3>5
  <2>3. 0 .. j - 1 \subseteq S
    <3> HIDE DEF S
    <3> QED BY <1>2, <2>1, <2>2, UpTo
  <2> QED BY <1>2, <2>3
<1>8. h[j] = Power(j) - P
  <2> DEFINE p == Power(j - 1)
  <2>1. p \in Nat /\ Power((j - 1) + 1) = p * Base /\ (j - 1) + 1 = j
    BY <1>2, PowerIs
  <2>2. h[j] = (p - 1) * Base + (Base - P)
    BY <1>2, <1>4, <1>6, <1>7
  <2> HIDE DEF p
  <2>3. (p - 1) * Base = p * Base - Base /\ p * Base \in Nat
    BY <2>1, <1>1
  <2>4. h[j] = p * Base - P
    BY <2>2, <2>3, <1>1
  <2> QED BY <2>1, <2>4
<1>9. h[n] = Power(n) - P * Power(m)
  <2> DEFINE S == {t \in 0 .. m : h[j + t] = Power(j + t) - P * Power(t)}
  <2>1. 0 \in S
    BY <1>1, <1>2, <1>8, PowerIs
  <2>2. ASSUME NEW t \in 0 .. m - 1, t \in S PROVE t + 1 \in S
    <3> DEFINE p == Power(t)
               c == Power(j + t)
    <3>1. j + t + 1 \in j + 1 .. n /\ j + t + 1 \in 1 .. n /\ (j + t + 1) - 1 = j + t
      BY <1>2
    <3>2. t \in Nat /\ j + t \in Nat /\ t + 1 \in 0 .. m /\ j + (t + 1) = j + t + 1
      BY <1>2
    <3>3. h[j + t + 1] = h[j + t] * Base + 0 /\ h[j + t] = c - P * p
      BY <3>1, <1>4, <1>6, <2>2
    <3>4. p \in Nat /\ Power(t + 1) = p * Base /\ c \in Nat /\ Power(j + t + 1) = c * Base
      BY <3>2, PowerIs
    <3> HIDE DEF p, c
    <3>5. (c - P * p) * Base + 0 = c * Base - P * (p * Base)
      BY <3>4, <1>1
    <3>6. h[j + t + 1] = Power(j + t + 1) - P * Power(t + 1)
      BY <3>3, <3>4, <3>5
    <3> QED BY <3>2, <3>6
  <2>3. 0 .. m \subseteq S
    <3> HIDE DEF S
    <3> QED BY <1>2, <2>1, <2>2, UpTo
  <2>4. m \in S
    BY <1>2, <2>3
  <2> QED BY <1>2, <2>4
<1>10. Power(n) - P * Power(m) \in Nat /\ Power(n) - P * Power(m) < Power(n)
  BY <1>6, <1>9
<1>11. PutUint(n, Power(n) - P * Power(m)) = M
  <2> DEFINE v == Power(n) - P * Power(m)
             c == PutUint(n, v)
  <2>1. Uint(c) = v
    <3> HIDE DEF v
    <3> QED BY <1>10, UintOfPutUint DEF v
  <2>2. c \in Seq(Byte) /\ Len(c) = n
    <3> HIDE DEF v
    <3> QED BY <1>10, PutUintType DEF v
  <2>3. Uint(M) = v
    BY <1>5, <1>9
  <2> HIDE DEF v, c
  <2> QED BY <2>1, <2>2, <2>3, <1>3, UintTells DEF c, v
<1> QED BY <1>10, <1>11 DEF M

\* A byte under the bytes of a mask.
LEMMA MaskedIs ==
  ASSUME NEW x \in Byte, NEW P \in 1 .. Base
  PROVE  /\ Masked(x, MaxUint8) = x /\ Masked(x, 0) = 0
         /\ Masked(x, Base - P) = (x \div P) * P
<1>1. Base \in Nat /\ Base = MaxUint8 + 1 /\ MaxUint8 \in Nat /\ x \in 0 .. Base - 1 /\ P \in Nat \ {0}
  BY BytesAssumption DEF Base, Byte
<1>2. Base - MaxUint8 = 1 /\ Base - 0 = Base /\ Base - (Base - P) = P
  BY <1>1
<1>3. x % 1 = 0 /\ x % Base = x /\ x = (x \div P) * P + (x % P) /\ x \div P \in Int /\ x % P \in Int
  BY <1>1
<1>4. x - (x % P) = (x \div P) * P
  <2> DEFINE e == (x \div P) * P
             r == x % P
  <2>1. e \in Int /\ r \in Int /\ x = e + r
    BY <1>1, <1>3
  <2> HIDE DEF e, r
  <2>2. x - r = e
    BY <2>1
  <2> QED BY <2>2 DEF e, r
<1> QED BY <1>1, <1>2, <1>3, <1>4 DEF Masked

\* Multiples of p in order.
LEMMA InBlock ==
  ASSUME NEW p \in Nat \ {0}, NEW a \in Nat, NEW c \in Nat, NEW x \in Nat, NEW v \in Nat,
         x * p <= v, v < (x + 1) * p
  PROVE  /\ a * p <= v <=> a <= x
         /\ v < c * p <=> x < c
<1>1. \A d \in Nat, e \in Nat : d <= e => d * p <= e * p
  OBVIOUS
<1>2. x * p \in Nat /\ (x + 1) * p \in Nat /\ a * p \in Nat /\ c * p \in Nat /\ x + 1 \in Nat
  OBVIOUS
<1> DEFINE xp == x * p
           yp == (x + 1) * p
           ap == a * p
           cp == c * p
<1>3. /\ a <= x => ap <= xp
      /\ x + 1 <= a => yp <= ap
      /\ c <= x => cp <= xp
      /\ x + 1 <= c => yp <= cp
  BY <1>1, <1>2, Zenon
<1>4. xp \in Nat /\ yp \in Nat /\ ap \in Nat /\ cp \in Nat /\ xp <= v /\ v < yp
  BY <1>2
<1> HIDE DEF xp, yp, ap, cp
<1>5. /\ ap <= v <=> a <= x
      /\ v < cp <=> x < c
  BY <1>3, <1>4
<1> QED BY <1>5 DEF ap, cp

\* The mask takes the same from the bytes b and c.
AlikeUnder(b, c, mask) == \A i \in 1 .. Len(c) : Masked(b[i], mask[i]) = Masked(c[i], mask[i])

\* An address is in a block as soon as it agrees with the block's first one
\* on the bytes that the mask has ones for.
LEMMA MaskTellsBlock ==
  ASSUME NEW n \in Nat, NEW m \in 0 .. n - 1, NEW P \in Nat \ {0}, NEW D \in Nat \ {0}, P * D = Base,
         NEW q \in Nat, NEW b \in Seq(Byte), NEW c \in Seq(Byte), Len(b) = n, Len(c) = n,
         Uint(c) = q * (P * Power(m))
  PROVE  AlikeUnder(b, c, MaskBytes(n, m, P)) <=> Uint(b) \in Uint(c) .. Uint(c) + P * Power(m) - 1
<1> DEFINE M == MaskBytes(n, m, P)
           j == n - m
           pm == Power(m)
<1>1. P \in 1 .. Base /\ Base \in Nat
  <2>1. \A x \in Nat \ {0}, y \in Nat \ {0} : x <= x * y /\ x * y \in Nat
    OBVIOUS
  <2> QED BY <2>1
<1>2. j \in 1 .. n /\ m \in Nat /\ n - j = m /\ j - 1 \in 0 .. n /\ j \in 0 .. n /\ j - 1 \in Nat
  OBVIOUS
<1>3. \A i \in 1 .. n : /\ i \in 1 .. j - 1 => M[i] = MaxUint8
                        /\ i = j => M[i] = Base - P
                        /\ i \in j + 1 .. n => M[i] = 0
  <2>1. \A i \in 1 .. n : M[i] = IF i < j THEN MaxUint8 ELSE IF i = j THEN Base - P ELSE 0
    BY DEF MaskBytes
  <2> HIDE DEF M, j
  <2> QED BY <2>1, <1>2
<1>4. pm \in Nat \ {0}
  BY <1>2, PowerIs
<1> HIDE DEF M, j, pm
<1>5. PICK f : IsPrefixes(f, b, n) /\ Uint(b) = f[n]
  BY PrefixesExist
<1>6. PICK g : IsPrefixes(g, c, n) /\ Uint(c) = g[n]
  BY PrefixesExist
<1>7. /\ f \in [0 .. n -> Nat] /\ f[j] = f[j - 1] * Base + b[j] /\ b[j] \in 0 .. Base - 1
      /\ g \in [0 .. n -> Nat] /\ g[j] = g[j - 1] * Base + c[j] /\ c[j] \in 0 .. Base - 1
  BY <1>2, <1>5, <1>6 DEF IsPrefixes
<1> DEFINE v == f[n]
           w == g[n]
           x == f[j]
           y == g[j]
           a == f[j - 1]
           d == g[j - 1]
           e == b[j] \div P
           r == b[j] % P
           k == c[j] \div P
           s == c[j] % P
<1>8. v \in Nat /\ w \in Nat /\ x \in Nat /\ y \in Nat /\ a \in Nat /\ d \in Nat
  BY <1>7, <1>2
<1>9. /\ x * pm <= v /\ v < (x + 1) * pm
      /\ y * pm <= w /\ w < (y + 1) * pm
  BY <1>2, <1>5, <1>6, PrefixRange DEF pm
<1>10. \A z \in 0 .. Base - 1 :
          z \div P \in 0 .. D - 1 /\ z % P \in 0 .. P - 1 /\ z = (z \div P) * P + (z % P)
  <2> TAKE z \in 0 .. Base - 1
  <2> DEFINE zq == z \div P
             zr == z % P
  <2>1. zq \in Int /\ zr \in 0 .. P - 1 /\ z = zq * P + zr /\ zq >= 0
    BY <1>1
  <2> HIDE DEF zq, zr
  <2>2. z < P * D /\ z \in Nat
    BY <1>1
  <2>3. zq < D
    <3>1. SUFFICES ASSUME D <= zq PROVE FALSE
      BY <2>1
    <3>2. D * P <= zq * P
      BY <3>1, <2>1
    <3>3. D * P = P * D /\ zq * P \in Int /\ P * D \in Int
      BY <2>1
    <3> QED BY <3>2, <3>3, <2>1, <2>2
  <2> QED BY <2>1, <2>3 DEF zq, zr
<1>11. /\ e \in 0 .. D - 1 /\ r \in 0 .. P - 1 /\ b[j] = e * P + r
       /\ k \in 0 .. D - 1 /\ s \in 0 .. P - 1 /\ c[j] = k * P + s
  BY <1>7, <1>10
<1>12. x = a * (P * D) + (e * P + r) /\ y = d * (P * D) + (k * P + s)
  BY <1>7, <1>11
<1>13. (\A i \in 1 .. n : Masked(b[i], M[i]) = Masked(c[i], M[i]))
         <=> (\A i \in 1 .. j - 1 : b[i] = c[i]) /\ e = k
  <2>1. \A i \in 1 .. n : b[i] \in Byte /\ c[i] \in Byte
    OBVIOUS
  <2>2. \A i \in 1 .. j - 1 : i \in 1 .. n /\ Masked(b[i], M[i]) = b[i] /\ Masked(c[i], M[i]) = c[i]
    BY <2>1, <1>1, <1>2, <1>3, MaskedIs
  <2>3. \A i \in j + 1 .. n : Masked(b[i], M[i]) = Masked(c[i], M[i])
    BY <2>1, <1>1, <1>2, <1>3, MaskedIs
  <2>4. Masked(b[j], M[j]) = e * P /\ Masked(c[j], M[j]) = k * P
    BY <2>1, <1>1, <1>2, <1>3, MaskedIs
  <2>5. e * P = k * P <=> e = k
    <3> HIDE DEF e, k
    <3>0. \A t \in Nat : t * P \in Nat
      OBVIOUS
    <3>1. e \in Nat /\ k \in Nat /\ e * P \in Nat /\ k * P \in Nat
      <4>1. e \in Nat /\ k \in Nat
        BY <1>11
      <4> QED BY <3>0, <4>1, Zenon
    <3>2. \A t \in Nat, u \in Nat : t < u => t * P + P <= u * P
      OBVIOUS
    <3>3. (e < k => e * P + P <= k * P) /\ (k < e => k * P + P <= e * P)
      BY <3>1, <3>2
    <3> QED BY <3>1, <3>3
  <2>6. \A i \in 1 .. n : i \in 1 .. j - 1 \/ i = j \/ i \in j + 1 .. n
    BY <1>2
  <2> QED BY <2>2, <2>3, <2>4, <2>5, <2>6, <1>2
<1>14. (\A i \in 1 .. j - 1 : b[i] = c[i]) <=> a = d
  <2>1. (f[j - 1] = g[j - 1]) = AgreeUpTo(b, c, j - 1)
    BY <1>2, <1>5, <1>6, SamePrefix
  <2> QED BY <2>1 DEF AgreeUpTo
<1> HIDE DEF v, w, x, y, a, d, e, r, k, s
<1>15. y = q * P
  <2>1. w = (q * P) * pm
    BY <1>4, <1>6 DEF w, pm
  <2>2. q * P \in Nat /\ q * P + 1 \in Nat
    OBVIOUS
  <2> DEFINE z == q * P
  <2>3. z \in Nat /\ w = z * pm
    BY <2>1, <2>2
  <2> HIDE DEF z
  <2>4. z * pm <= w <=> z <= y
    BY <1>4, <1>8, <1>9, <2>3, InBlock
  <2>5. w < (z + 1) * pm <=> y < z + 1
    BY <1>4, <1>8, <1>9, <2>3, InBlock
  <2>6. z * pm <= w /\ w < (z + 1) * pm
    BY <2>3, <1>4
  <2> QED BY <2>3, <2>4, <2>5, <2>6, <1>8 DEF z
<1>16. v \in w .. w + P * pm - 1 <=> q * P <= x /\ x < (q + 1) * P
  <2> DEFINE z == q * P
             u == (q + 1) * P
  <2>1. z \in Nat /\ u \in Nat /\ u = z + P
    OBVIOUS
  <2>2. w = z * pm
    BY <1>4, <1>6 DEF w, pm
  <2> HIDE DEF z, u
  <2>3. (z * pm <= v <=> z <= x) /\ (v < u * pm <=> x < u)
    BY <1>4, <1>8, <1>9, <2>1, InBlock
  <2>4. u * pm = w + P * pm /\ P * pm \in Nat
    BY <2>1, <2>2, <1>4
  <2>5. v \in w .. w + P * pm - 1 <=> w <= v /\ v < w + P * pm
    BY <2>4, <1>8
  <2> QED BY <2>2, <2>3, <2>4, <2>5 DEF z, u
<1>17. q * P <= x /\ x < (q + 1) * P <=> a * D + e = q
  <2>1. x = (a * D + e) * P + r
    BY <1>8, <1>11, <1>12
  <2> DEFINE z == a * D + e
  <2>2. z \in Nat
    BY <1>8, <1>11
  <2> HIDE DEF z
  <2>3. z * P <= x /\ x < (z + 1) * P
    BY <2>1, <2>2, <1>11 DEF z
  <2>4. (q * P <= x <=> q <= z) /\ (x < (q + 1) * P <=> z < q + 1)
    BY <2>2, <2>3, <1>8, InBlock
  <2> QED BY <2>2, <2>4 DEF z
<1>18. d * D + k = q
  <2>1. y = (d * D + k) * P + s
    BY <1>8, <1>11, <1>12
  <2> DEFINE z == d * D + k
  <2>2. z \in Nat
    BY <1>8, <1>11
  <2> HIDE DEF z
  <2>3. y = z * P + s /\ y = q * P + 0 /\ 0 \in 0 .. P - 1
    BY <2>1, <1>15, <1>8 DEF z
  <2>4. z = q
    <3>1. y \div P = z
      <4>1. z \in Int /\ s \in 0 .. P - 1 /\ y \in Nat /\ y = z * P + s
        BY <2>2, <2>3, <1>8, <1>11
      <4> QED BY <4>1, DivUnique, Zenon
    <3>2. y \div P = q
      BY <2>3, <1>8, DivUnique
    <3> QED BY <3>1, <3>2
  <2> QED BY <2>4 DEF z
<1>19. a * D + e = q <=> a = d /\ e = k
  <2>1. a \in Int /\ d \in Int /\ e \in 0 .. D - 1 /\ k \in 0 .. D - 1
    BY <1>8, <1>11
  <2>2. q \div D = d /\ q % D = k
    BY <2>1, <1>18, DivUnique, Zenon
  <2>3. ASSUME a * D + e = q PROVE a = d /\ e = k
    <3>1. q \div D = a /\ q % D = e
      BY <2>1, <2>3, DivUnique, Zenon
    <3> QED BY <2>2, <3>1
  <2> QED BY <2>3, <1>18
<1>20. AlikeUnder(b, c, M) <=> v \in w .. w + P * pm - 1
  BY <1>13, <1>14, <1>16, <1>17, <1>19 DEF AlikeUnder
<1> QED BY <1>5, <1>6, <1>20 DEF v, w, M, pm

\* To4 gives the four bytes of an address in either form.
LEMMA To4OfForm ==
  ASSUME NEW x \in Seq(Byte), Len(x) = IPv4len, NEW f \in {x, To16(x)}
  PROVE  To4(f) = x /\ To4(f) # Nil
<1> DEFINE p == Len(V4InV6Prefix)
<1>1. IPv4len \in Nat \ {0} /\ V4InV6Prefix \in Seq(Byte) /\ p \in Nat \ {0}
  BY AddressBytesAssumption, LenProperties
<1>2. x # Nil
  BY <1>1, EmptySeq DEF Nil
<1>3. To4(x) = x
  BY DEF To4
<1>4. To4(To16(x)) = x
  <2>1. PICK u \in Seq(Byte) : u = V4InV6Prefix
    BY <1>1
  <2> DEFINE y == u \o x
  <2>2. Len(y) = Len(u) + Len(x)
    OBVIOUS
  <2>3. SubSeq(y, 1, Len(u)) = u
    BY PartsOfCat
  <2>4. SubSeq(y, Len(u) + 1, Len(y)) = x
    BY PartsOfCat
  <2> HIDE DEF y
  <2>5. Len(u) = p /\ Len(y) # IPv4len
    BY <2>1, <2>2, <1>1
  <2>6. To4(y) = x
    BY <2>1, <2>2, <2>3, <2>4, <2>5 DEF To4
  <2> QED BY <2>1, <2>6 DEF y, To16
<1> QED BY <1>2, <1>3, <1>4

\* The key of an address, in either form, is the key of no other address.
LEMMA KeyTells ==
  ASSUME NEW x \in Seq(Byte), Len(x) = IPv4len, NEW f \in {x, To16(x)},
         NEW y \in Seq(Byte), Len(y) = IPv4len
  PROVE  ipToUint32(f) = ipToUint32(y) <=> x = y
<1>1. To4(f) = x /\ To4(y) = y
  BY To4OfForm
<1> QED BY <1>1, UintTells DEF ipToUint32

\* The bytes of the next address are those of the next number.
LEMMA NextIPOfBytes ==
  ASSUME NEW n \in Nat, NEW v \in Nat, v < Power(n)
  PROVE  nextIP(PutUint(n, v)) = PutUint(n, IF v + 1 = Power(n) THEN 0 ELSE v + 1)
<1> DEFINE u == IF v + 1 = Power(n) THEN 0 ELSE v + 1
           b == PutUint(n, v)
           c == PutUint(n, u)
<1>1. u \in Nat /\ u < Power(n)
  BY PowerIs
<1> HIDE DEF u
<1>2. b \in Seq(Byte) /\ Len(b) = n /\ Uint(b) = v /\ c \in Seq(Byte) /\ Len(c) = n /\ Uint(c) = u
  BY <1>1, PutUintType, UintOfPutUint
<1> HIDE DEF b, c
<1>3. nextIP(b) \in Seq(Byte) /\ Len(nextIP(b)) = n /\ Uint(nextIP(b)) = u
  BY <1>2, NextIPAddsOne DEF u
<1>4. nextIP(b) = c
  BY <1>2, <1>3, UintTells
<1> QED BY <1>4 DEF b, c, u

\* net.IPNet.Contains on the bytes of an address in either form tells whether
\* its number is in the block.
LEMMA ContainsTellsBlock ==
  ASSUME NEW m \in 0 .. IPv4len - 1, NEW P \in Nat \ {0}, NEW D \in Nat \ {0}, P * D = Base,
         NEW q \in Nat, NEW w \in Nat, w = q * (P * Power(m)), w < Power(IPv4len),
         NEW v \in Nat, v < Power(IPv4len),
         NEW f \in {PutUint(IPv4len, v), To16(PutUint(IPv4len, v))}
  PROVE  SubnetContains(PutUint(IPv4len, w), PutUint(IPv4len, Power(IPv4len) - P * Power(m)), f)
           <=> v \in w .. w + P * Power(m) - 1
<1> DEFINE n == IPv4len
           b == PutUint(n, v)
           c == PutUint(n, w)
           M == MaskBytes(n, m, P)
<1>1. n \in Nat
  BY AddressBytesAssumption
<1>2. b \in Seq(Byte) /\ Len(b) = n /\ Uint(b) = v /\ c \in Seq(Byte) /\ Len(c) = n /\ Uint(c) = w
  BY <1>1, PutUintType, UintOfPutUint
<1>3. PutUint(n, Power(n) - P * Power(m)) = M
  <2>1. P \in 1 .. Base
    <3>1. \A x \in Nat \ {0}, y \in Nat \ {0} : x <= x * y /\ x * y \in Nat
      OBVIOUS
    <3> QED BY <3>1
  <2> QED BY <1>1, <2>1, MaskIs
<1>4. f \in {b, To16(b)}
  OBVIOUS
<1> HIDE DEF b, c, M
<1>5. To4(f) = b /\ To4(f) # Nil /\ DOMAIN b = 1 .. n
  BY <1>2, <1>4, To4OfForm, LenProperties
<1>6. SubnetContains(c, M, f) <=> AlikeUnder(b, c, M)
  BY <1>2, <1>5 DEF SubnetContains, AlikeUnder
<1>7. AlikeUnder(b, c, M) <=> Uint(b) \in Uint(c) .. Uint(c) + P * Power(m) - 1
  <2>1. Uint(c) = q * (P * Power(m))
    BY <1>2
  <2> QED BY <1>1, <1>2, <2>1, MaskTellsBlock DEF M
<1>8. SubnetContains(c, M, f) <=> v \in w .. w + P * Power(m) - 1
  BY <1>2, <1>6, <1>7
<1> QED BY <1>3, <1>8 DEF b, c
==============================================================================
