----------------------------- MODULE HeadersProofs -----------------------------
(* The header methods and checksums of ipv4.go, for headers and payloads of    *)
(* every length.                                                               *)
EXTENDS Headers, BytesProofs

------------------------------------------------------------------------------
(* Words in byte slices *)

\* A word has sixteen bits.
LEMMA WordType == Base = 256 /\ Word \in Nat /\ Word > 1 /\ Word = Base * Base
BY HeadersAssumption DEF Base, Word

\* c is b with x at its place.
IsPut(c, b, at, x) ==
  /\ c \in Seq(Byte) /\ Len(c) = Len(b)
  /\ \A k \in 1 .. Len(b) : c[k] = IF k \in at .. at + Len(x) - 1 THEN x[k - at + 1] ELSE b[k]

\* copy(b[at:], x) leaves every byte but those it writes.
LEMMA PutIs ==
  ASSUME NEW b \in Seq(Byte), NEW x \in Seq(Byte), NEW at \in Nat \ {0},
         at + Len(x) - 1 <= Len(b)
  PROVE  IsPut(Put(b, at, x), b, at, x)
<1> DEFINE n == Len(b)
           p == Put(b, at, x)
<1>1. n \in Nat /\ Len(x) \in Nat /\ DOMAIN b = 1 .. n
  BY LenProperties
<1>2. p = [k \in 1 .. n |-> IF k \in at .. at + Len(x) - 1 THEN x[k - at + 1] ELSE b[k]]
  BY <1>1 DEF Put
<1>3. ASSUME NEW k \in 1 .. n
      PROVE  (IF k \in at .. at + Len(x) - 1 THEN x[k - at + 1] ELSE b[k]) \in Byte
  <2>1. CASE k \in at .. at + Len(x) - 1
    <3>1. k - at + 1 \in 1 .. Len(x)
      BY <2>1, <1>1
    <3> QED BY <2>1, <3>1, ElementOfSeq
  <2>2. CASE k \notin at .. at + Len(x) - 1
    BY <2>2, ElementOfSeq
  <2> QED BY <2>1, <2>2
<1>4. p \in [1 .. n -> Byte]
  BY <1>2, <1>3
<1> HIDE DEF p
<1>5. p \in Seq(Byte) /\ Len(p) = n
  BY <1>4, <1>1, ArrayIsSeq
<1> QED BY <1>5, <1>2 DEF p, IsPut

\* A part of a byte slice.
LEMMA AtIs ==
  ASSUME NEW b \in Seq(Byte), NEW at \in Nat \ {0}, NEW n \in Nat, at + n - 1 <= Len(b)
  PROVE  /\ At(b, at, n) \in Seq(Byte) /\ Len(At(b, at, n)) = n
         /\ \A k \in 1 .. n : At(b, at, n)[k] = b[at - 1 + k]
<1>0. Len(b) \in Nat /\ DOMAIN b = 1 .. Len(b)
  BY LenProperties
<1>1. \A k \in at .. at + n - 1 : b[k] \in Byte
  BY <1>0, ElementOfSeq
<1>2. At(b, at, n) = [k \in 1 .. n |-> b[at - 1 + k]]
  BY <1>0 DEF At, SubSeq
<1>3. \A k \in 1 .. n : at - 1 + k \in at .. at + n - 1
  OBVIOUS
<1>4. At(b, at, n) \in [1 .. n -> Byte]
  BY <1>1, <1>2, <1>3
<1> QED BY <1>2, <1>4, ArrayIsSeq

\* The word of two bytes.
LEMMA TwoBytes ==
  ASSUME NEW x \in Seq(Byte), Len(x) = 2
  PROVE  Uint(x) = x[1] * Base + x[2] /\ Uint(x) \in 0 .. Word - 1
<1>1. x \in Seq(Nat) /\ x[1] \in Byte /\ x[2] \in Byte
  <2>1. Byte \subseteq Nat
    BY BaseType
  <2>2. x \in [1 .. 2 -> Byte]
    BY LenProperties
  <2>3. x \in [1 .. 2 -> Nat] /\ 2 \in Nat
    BY <2>1, <2>2, Zenon
  <2>4. x \in Seq(Nat)
    BY <2>3, ArrayIsSeq, Zenon
  <2> QED BY <2>2, <2>4
<1>2. PICK f \in [0 .. 2 -> Nat] : /\ f[0] = 0 /\ Uint(x) = f[2]
                                   /\ \A k \in 1 .. 2 : f[k] = f[k - 1] * Base + x[k]
  BY <1>1, UintRec
<1>3. f[1] = f[0] * Base + x[1] /\ f[2] = f[1] * Base + x[2]
  <2>1. f[1] = f[1 - 1] * Base + x[1] /\ f[2] = f[2 - 1] * Base + x[2]
    BY <1>2
  <2> QED BY <2>1
<1>4. f[1] = x[1]
  BY <1>1, <1>2, <1>3, BaseType
<1>5. Uint(x) = x[1] * Base + x[2]
  BY <1>2, <1>3, <1>4
<1>6. Uint(x) \in 0 .. Power(2) - 1
  BY UintBound
<1> QED BY <1>5, <1>6, SmallPowers DEF Word

\* binary.BigEndian.Uint16(b[at:])
LEMMA WordAt ==
  ASSUME NEW b \in Seq(Byte), NEW at \in 1 .. Len(b) - 1
  PROVE  Uint16At(b, at) = b[at] * Base + b[at + 1] /\ Uint16At(b, at) \in 0 .. Word - 1
<1> DEFINE x == At(b, at, 2)
<1>0. Len(b) \in Nat /\ at \in Nat \ {0} /\ 2 \in Nat /\ at + 2 - 1 <= Len(b)
  BY LenProperties
<1>1. x \in Seq(Byte) /\ Len(x) = 2 /\ \A k \in 1 .. 2 : x[k] = b[at - 1 + k]
  BY <1>0, AtIs, Zenon
<1>2. x[1] = b[at] /\ x[2] = b[at + 1]
  <2>1. x[1] = b[at - 1 + 1] /\ x[2] = b[at - 1 + 2]
    BY <1>1
  <2> QED BY <2>1, <1>0
<1>3. Uint16At(b, at) = Uint(x)
  BY DEF Uint16At
<1> HIDE DEF x
<1> QED BY <1>1, <1>2, <1>3, TwoBytes

\* The bytes of a word.
LEMMA PutTwo ==
  ASSUME NEW v \in 0 .. Word - 1
  PROVE  /\ PutUint(2, v) \in Seq(Byte) /\ Len(PutUint(2, v)) = 2
         /\ PutUint(2, v)[1] * Base + PutUint(2, v)[2] = v
<1>0. Power(2) = Word
  BY SmallPowers DEF Word
<1>a. Word \in Nat
  BY WordType, Zenon
<1>b. v \in Nat /\ v < Word
  BY <1>a
<1>1. v \in Nat /\ v < Power(2) /\ 2 \in Nat
  BY <1>0, <1>b
<1>2. PutUint(2, v) \in Seq(Byte) /\ Len(PutUint(2, v)) = 2
  BY <1>1, PutUintType, Zenon
<1>3. Uint(PutUint(2, v)) = v
  BY <1>1, UintOfPutUint
<1> DEFINE x == PutUint(2, v)
<1> HIDE DEF x
<1>4. x \in Seq(Byte) /\ Len(x) = 2 /\ Uint(x) = v
  BY <1>2, <1>3 DEF x
<1>5. x[1] * Base + x[2] = v
  BY <1>4, TwoBytes
<1> QED BY <1>4, <1>5 DEF x

\* c is b with the word v at its place.
IsPutWord(c, b, at, v) ==
  /\ c \in Seq(Byte) /\ Len(c) = Len(b)
  /\ \A k \in 1 .. Len(b) : k # at /\ k # at + 1 => c[k] = b[k]
  /\ c[at] * Base + c[at + 1] = v

\* binary.BigEndian.PutUint16(b[at:], v)
LEMMA PutWord ==
  ASSUME NEW b \in Seq(Byte), NEW at \in 1 .. Len(b) - 1, NEW v \in 0 .. Word - 1
  PROVE  IsPutWord(PutUint16(b, at, v), b, at, v)
<1> DEFINE x == PutUint(2, v)
           c == Put(b, at, x)
<1>1. x \in Seq(Byte) /\ Len(x) = 2 /\ x[1] * Base + x[2] = v
  BY PutTwo
<1>3. PutUint16(b, at, v) = c
  BY DEF PutUint16
<1> HIDE DEF x
<1>2. Len(b) \in Nat /\ at \in Nat \ {0} /\ at + Len(x) - 1 <= Len(b)
  BY <1>1, LenProperties
<1>4. /\ c \in Seq(Byte) /\ Len(c) = Len(b)
      /\ \A k \in 1 .. Len(b) :
           c[k] = IF k \in at .. at + Len(x) - 1 THEN x[k - at + 1] ELSE b[k]
  BY <1>1, <1>2, PutIs, Zenon DEF IsPut
<1> HIDE DEF c
<1>5. at \in 1 .. Len(b) /\ at + 1 \in 1 .. Len(b) /\ at + Len(x) - 1 = at + 1
  BY <1>1, <1>2
<1>6. c[at] = x[1] /\ c[at + 1] = x[2]
  <2>1. at \in at .. at + Len(x) - 1 /\ at - at + 1 = 1
    BY <1>5, <1>2
  <2>2. at + 1 \in at .. at + Len(x) - 1 /\ at + 1 - at + 1 = 2
    BY <1>5, <1>2
  <2> QED BY <1>4, <1>5, <2>1, <2>2
<1>7. ASSUME NEW k \in 1 .. Len(b), k # at, k # at + 1 PROVE c[k] = b[k]
  BY <1>4, <1>5, <1>2, <1>7
<1> QED BY <1>1, <1>3, <1>4, <1>6, <1>7 DEF IsPutWord

------------------------------------------------------------------------------
(* The fields of the headers *)

\* Fields of an IPv4 header, each one that its place can hold.  (To4 of an address
\* in IPv6 form is nil, of which Encode copies nothing.)
IPFields(i) ==
  /\ i.ihl \in HeaderLengths
  /\ i.tos \in Byte /\ i.ttl \in Byte /\ i.protocol \in Byte
  /\ i.totalLength \in Uint16 /\ i.id \in Uint16 /\ i.checksum \in Uint16
  /\ i.flags \in 0 .. 7 /\ i.fragmentOffset \in FragmentOffsets
  /\ i.srcAddr \in Seq(Byte) /\ i.dstAddr \in Seq(Byte)

\* The word that begins at a byte.
Pair(b, at) == b[at] * Base + b[at + 1]

\* Where b has each field of i.
HoldsIP(b, i) ==
  /\ b \in Seq(Byte) /\ Len(b) = i.ihl
  /\ b[1] = 4 * 16 + (i.ihl \div 4) /\ b[2] = i.tos
  /\ Pair(b, 3) = i.totalLength
  /\ Pair(b, 5) = i.id
  /\ Pair(b, 7) = flagsFO(i.flags, i.fragmentOffset)
  /\ b[9] = i.ttl /\ b[10] = i.protocol
  /\ Pair(b, 11) = i.checksum
  /\ \A k \in 1 .. 4 : b[12 + k] = Copied(4, i.srcAddr)[k]
  /\ \A k \in 1 .. 4 : b[16 + k] = Copied(4, i.dstAddr)[k]

\* Where u has each field of f.
HoldsUDP(u, f) ==
  /\ u \in Seq(Byte) /\ Len(u) = 8
  /\ Pair(u, 1) = f.srcPort
  /\ Pair(u, 3) = f.dstPort
  /\ Pair(u, 5) = f.length
  /\ Pair(u, 7) = f.checksum

\* What is left of a header's first byte is its length, and both are read back.
LEMMA FirstByte ==
  ASSUME NEW h \in HeaderLengths, NEW v, v = 4 * 16 + (h \div 4)
  PROVE  /\ h \in 20 .. 60 /\ (h \div 4) % 16 = h \div 4
         /\ v \in Byte /\ v \div 16 = 4 /\ (v % 16) * 4 = h
         /\ \E m \in 10 .. 30 : h = 2 * m
<1>1. PICK n \in 5 .. 15 : h = 4 * n
  BY DEF HeaderLengths
<1>2. h \div 4 = n
  BY <1>1
<1>3. v = 64 + n /\ v \in 0 .. 255
  BY <1>2
<1>4. Byte = 0 .. 255
  BY HeadersAssumption DEF Byte
<1>5. \E m \in 10 .. 30 : h = 2 * m
  <2>1. 2 * n \in 10 .. 30 /\ h = 2 * (2 * n)
    BY <1>1
  <2> QED BY <2>1
<1> QED BY <1>1, <1>2, <1>3, <1>4, <1>5

\* x is made of flags and n, and both can be had from it.
Holds3(p, flags, n, w, x) ==
  (flags * p) % w = flags * p /\ x \in 0 .. w - 1 /\ x \div p = flags /\ (x * 8) % w = 8 * n

\* A number of three bits above one below p.
LEMMA FlagsAbove ==
  ASSUME NEW p \in Nat \ {0}, NEW flags \in 0 .. 7, NEW n \in 0 .. p - 1,
         NEW w, w = 8 * p, NEW x, x = flags * p + n
  PROVE  Holds3(p, flags, n, w, x)
<1>1. flags * p \in Nat /\ flags * p <= 7 * p /\ 8 * p \in Nat \ {0} /\ n \in Nat
  BY SMT
<1>2. flags * p + n \in 0 .. 8 * p - 1
  BY <1>1
<1>3. (flags * p) % (8 * p) = flags * p
  <2>1. flags * p \in 0 .. 8 * p - 1 /\ flags * p = 0 * (8 * p) + flags * p /\ 0 \in Int
    BY <1>1
  <2> QED BY <1>1, <2>1, DivUnique
<1>4. (flags * p + n) \div p = flags
  <2>1. flags * p + n \in Nat /\ flags \in Int
    BY <1>1
  <2> QED BY <2>1, DivUnique
<1>5. ((flags * p + n) * 8) % (8 * p) = 8 * n
  <2>1. (flags * p + n) * 8 = flags * (8 * p) + 8 * n
    <3>1. flags * (8 * p) = 8 * (flags * p)
      BY SMT
    <3> QED BY <3>1, <1>1
  <2>2. 8 * n \in 0 .. 8 * p - 1 /\ (flags * p + n) * 8 \in Nat /\ flags \in Int
    BY <1>1
  <2> QED BY <1>1, <2>1, <2>2, DivUnique
<1> QED BY <1>2, <1>3, <1>4, <1>5 DEF Holds3

\* The thirteen bits of an offset.
LEMMA OffsetBits == 2^13 \in Nat \ {0} /\ 8 * 2^13 = 256 * 256
BY SMT

\* Flags and fragment offset share a word without touching each other.
LEMMA FragmentWord ==
  ASSUME NEW flags \in 0 .. 7, NEW offset \in FragmentOffsets
  PROVE  /\ flagsFO(flags, offset) \in 0 .. Word - 1
         /\ flagsFO(flags, offset) \div 2^13 = flags
         /\ (flagsFO(flags, offset) * 8) % Word = offset
<1> DEFINE p == 2^13
<1>p. PICK n \in 0 .. p - 1 : offset = 8 * n
  BY Zenon DEF FragmentOffsets
<1>2. flagsFO(flags, offset) = ((flags * p) % Word) + (offset \div 8)
  BY DEF flagsFO
<1>0. p \in Nat \ {0} /\ 8 * p = 256 * 256
  BY OffsetBits
<1> HIDE DEF p
<1>1. Word = 8 * p
  <2>1. Word = 256 * 256
    BY WordType
  <2> QED BY <1>0, <2>1
<1>3. offset \div 8 = n
  <2>1. n \in Nat /\ p \in Nat
    BY <1>0
  <2>2. \A m \in Nat : (8 * m) \div 8 = m
    BY SMT
  <2> QED BY <1>p, <2>1, <2>2
<1>n. p \in Nat \ {0} /\ n \in 0 .. p - 1
  BY <1>0
<1> DEFINE x == flags * p + n
<1>x. x = flags * p + n
  OBVIOUS
<1> HIDE DEF x
<1>y. Holds3(p, flags, n, Word, x)
  BY <1>n, <1>1, <1>x, FlagsAbove, Zenon
<1>4. (flags * p) % Word = flags * p /\ x \in 0 .. Word - 1 /\ x \div p = flags /\ (x * 8) % Word = 8 * n
  BY <1>y DEF Holds3
<1>5. flagsFO(flags, offset) = x
  BY <1>2, <1>3, <1>4, <1>x
<1> QED BY <1>p, <1>4, <1>5 DEF p

\* The bytes of a concatenation, of m bytes and n.
IsCat(c, s, t, m, n) ==
  /\ c \in Seq(Byte) /\ Len(c) = m + n
  /\ \A i \in 1 .. m : c[i] = s[i]
  /\ \A i \in 1 .. n : c[m + i] = t[i]

\* They are those of its parts.
LEMMA CatIs ==
  ASSUME NEW s \in Seq(Byte), NEW t \in Seq(Byte), NEW m, Len(s) = m, NEW n, Len(t) = n
  PROVE  IsCat(s \o t, s, t, m, n)
<1>0. m \in Nat /\ n \in Nat
  BY LenProperties
<1>1. /\ s \o t \in Seq(Byte) /\ Len(s \o t) = m + n
      /\ \A i \in 1 .. m + n : (s \o t)[i] = IF i <= m THEN s[i] ELSE t[i - m]
  BY ConcatProperties
<1>2. \A i \in 1 .. n : m + i \in 1 .. m + n /\ ~(m + i <= m) /\ m + i - m = i
  BY <1>0
<1>3. \A i \in 1 .. m : i \in 1 .. m + n /\ i <= m
  BY <1>0
<1> DEFINE c == s \o t
<1>4. c \in Seq(Byte) /\ Len(c) = m + n
  BY <1>1
<1>5. /\ \A i \in 1 .. m : c[i] = s[i]
      /\ \A i \in 1 .. n : c[m + i] = t[i]
  BY <1>1, <1>2, <1>3
<1> HIDE DEF c
<1>6. IsCat(c, s, t, m, n)
  BY <1>4, <1>5 DEF IsCat
<1> QED BY <1>6 DEF c

\* A byte string of two bytes.
LEMMA PairIs ==
  ASSUME NEW x \in Byte, NEW y \in Byte
  PROVE  <<x, y>> \in Seq(Byte) /\ Len(<<x, y>>) = 2 /\ <<x, y>>[1] = x /\ <<x, y>>[2] = y
OBVIOUS

\* Encode puts every field into its place.
LEMMA EncodeIPIs ==
  ASSUME NEW i, IPFields(i)
  PROVE  HoldsIP(EncodeIPv4(Zeros(i.ihl), i), i)
<1> DEFINE h == i.ihl
           first == 4 * 16 + ((h \div 4) % 16)
           fo == flagsFO(i.flags, i.fragmentOffset)
           src == Copied(4, i.srcAddr)
           dst == Copied(4, i.dstAddr)
           rest == SubSeq(Zeros(h), IPv4MinimumSize + 1, Len(Zeros(h)))
           p2 == PutUint(2, i.totalLength)
           p3 == PutUint(2, i.id)
           p4 == PutUint(2, fo)
           p5 == <<i.ttl, i.protocol>>
           p6 == PutUint(2, i.checksum)
           c1 == <<first, i.tos>>
           c2 == c1 \o p2
           c3 == c2 \o p3
           c4 == c3 \o p4
           c5 == c4 \o p5
           c6 == c5 \o p6
           c7 == c6 \o src
           c8 == c7 \o dst
           c9 == c8 \o rest
<1>a. h \in 20 .. 60 /\ first = 4 * 16 + (h \div 4) /\ first \in Byte
  BY FirstByte DEF IPFields
<1>b. fo \in 0 .. Word - 1
  BY FragmentWord, Zenon DEF IPFields
<1>c. i.totalLength \in 0 .. Word - 1 /\ i.id \in 0 .. Word - 1 /\ i.checksum \in 0 .. Word - 1
  BY DEF IPFields, Uint16
<1>d. i.tos \in Byte /\ i.ttl \in Byte /\ i.protocol \in Byte
  BY DEF IPFields
<1>e. src \in Seq(Byte) /\ Len(src) = 4 /\ dst \in Seq(Byte) /\ Len(dst) = 4
  <2>1. 4 \in Nat
    OBVIOUS
  <2> QED BY <2>1, CopiedType, Zenon DEF IPFields
<1>f. rest \in Seq(Byte) /\ Len(rest) = h - 20
  <2>1. h \in Nat /\ 20 \in 0 .. h
    BY <1>a
  <2> HIDE DEF h
  <2>2. Zeros(h) \in Seq(Byte) /\ Len(Zeros(h)) = h
    BY <2>1, ZerosType
  <2> QED BY <2>1, <2>2, CutAfter DEF IPv4MinimumSize
<1>g. EncodeIPv4(Zeros(i.ihl), i) = c9
  BY HeadersAssumption DEF EncodeIPv4
<1>h. /\ p2 \in Seq(Byte) /\ Len(p2) = 2 /\ p2[1] * Base + p2[2] = i.totalLength
      /\ p3 \in Seq(Byte) /\ Len(p3) = 2 /\ p3[1] * Base + p3[2] = i.id
      /\ p4 \in Seq(Byte) /\ Len(p4) = 2 /\ p4[1] * Base + p4[2] = fo
      /\ p6 \in Seq(Byte) /\ Len(p6) = 2 /\ p6[1] * Base + p6[2] = i.checksum
  BY <1>b, <1>c, PutTwo
<1>i. p5 \in Seq(Byte) /\ Len(p5) = 2 /\ p5[1] = i.ttl /\ p5[2] = i.protocol
  BY <1>d
<1> HIDE DEF h, first, fo, src, dst, rest, p2, p3, p4, p5, p6
<1>1. c1 \in Seq(Byte) /\ Len(c1) = 2 /\ c1[1] = first /\ c1[2] = i.tos
  BY <1>a, <1>d
<1> HIDE DEF c1
<1>2c. IsCat(c2, c1, p2, 2, 2)
  BY <1>1, <1>h, CatIs, Zenon
<1> HIDE DEF c2
<1>2. /\ c2 \in Seq(Byte) /\ Len(c2) = 4 /\ \A k \in 1 .. 2 : c2[k] = c1[k]
      /\ c2[3] = p2[1] /\ c2[4] = p2[2]
  BY <1>2c DEF IsCat
<1>3c. IsCat(c3, c2, p3, 4, 2)
  BY <1>2, <1>h, CatIs, Zenon
<1> HIDE DEF c3
<1>3. /\ c3 \in Seq(Byte) /\ Len(c3) = 6 /\ \A k \in 1 .. 4 : c3[k] = c2[k]
      /\ c3[5] = p3[1] /\ c3[6] = p3[2]
  BY <1>3c DEF IsCat
<1>4c. IsCat(c4, c3, p4, 6, 2)
  BY <1>3, <1>h, CatIs, Zenon
<1> HIDE DEF c4
<1>4. /\ c4 \in Seq(Byte) /\ Len(c4) = 8 /\ \A k \in 1 .. 6 : c4[k] = c3[k]
      /\ c4[7] = p4[1] /\ c4[8] = p4[2]
  BY <1>4c DEF IsCat
<1>5c. IsCat(c5, c4, p5, 8, 2)
  BY <1>4, <1>i, CatIs, Zenon
<1> HIDE DEF c5
<1>5. /\ c5 \in Seq(Byte) /\ Len(c5) = 10 /\ \A k \in 1 .. 8 : c5[k] = c4[k]
      /\ c5[9] = p5[1] /\ c5[10] = p5[2]
  BY <1>5c DEF IsCat
<1>6c. IsCat(c6, c5, p6, 10, 2)
  BY <1>5, <1>h, CatIs, Zenon
<1> HIDE DEF c6
<1>6. /\ c6 \in Seq(Byte) /\ Len(c6) = 12 /\ \A k \in 1 .. 10 : c6[k] = c5[k]
      /\ c6[11] = p6[1] /\ c6[12] = p6[2]
  BY <1>6c DEF IsCat
<1>7c. IsCat(c7, c6, src, 12, 4)
  BY <1>6, <1>e, CatIs, Zenon
<1> HIDE DEF c7
<1>7. /\ c7 \in Seq(Byte) /\ Len(c7) = 16 /\ \A k \in 1 .. 12 : c7[k] = c6[k]
      /\ \A k \in 1 .. 4 : c7[12 + k] = src[k]
  BY <1>7c DEF IsCat
<1>8c. IsCat(c8, c7, dst, 16, 4)
  BY <1>7, <1>e, CatIs, Zenon
<1> HIDE DEF c8
<1>8. /\ c8 \in Seq(Byte) /\ Len(c8) = 20 /\ \A k \in 1 .. 16 : c8[k] = c7[k]
      /\ \A k \in 1 .. 4 : c8[16 + k] = dst[k]
  BY <1>8c DEF IsCat
<1>9. c9 \in Seq(Byte) /\ Len(c9) = h /\ \A k \in 1 .. 20 : c9[k] = c8[k]
  <2>1. IsCat(c9, c8, rest, 20, h - 20)
    BY <1>8, <1>f, CatIs, Zenon
  <2> HIDE DEF c9
  <2>2. 20 + (h - 20) = h
    BY <1>a
  <2> QED BY <2>1, <2>2 DEF IsCat
<1> HIDE DEF c9
<1>k7. ASSUME NEW k \in 1 .. 16 PROVE c9[k] = c7[k]
  <2>1. c8[k] = c7[k] /\ k \in 1 .. 20
    BY <1>8
  <2> QED BY <2>1, <1>9, Zenon
<1>k6. \A k \in 1 .. 12 : c9[k] = c6[k]
  BY <1>k7, <1>7
<1>k5. \A k \in 1 .. 10 : c9[k] = c5[k]
  BY <1>k6, <1>6
<1>k4. \A k \in 1 .. 8 : c9[k] = c4[k]
  BY <1>k5, <1>5
<1>k3. \A k \in 1 .. 6 : c9[k] = c3[k]
  BY <1>k4, <1>4
<1>k2. \A k \in 1 .. 4 : c9[k] = c2[k]
  BY <1>k3, <1>3
<1>k1. \A k \in 1 .. 2 : c9[k] = c1[k]
  BY <1>k2, <1>2
<1>10. c9[1] = first /\ c9[2] = i.tos /\ c9[3] = p2[1] /\ c9[4] = p2[2]
  BY <1>k1, <1>1, <1>k2, <1>2
<1>11. c9[5] = p3[1] /\ c9[6] = p3[2] /\ c9[7] = p4[1] /\ c9[8] = p4[2]
  BY <1>k3, <1>3, <1>k4, <1>4
<1>12. c9[9] = i.ttl /\ c9[10] = i.protocol /\ c9[11] = p6[1] /\ c9[12] = p6[2]
  BY <1>k5, <1>5, <1>i, <1>k6, <1>6
<1>13. \A k \in 1 .. 4 : c9[12 + k] = src[k]
  BY <1>k7, <1>7
<1>14. \A k \in 1 .. 4 : c9[16 + k] = dst[k]
  BY <1>9, <1>8
<1>w. /\ Pair(c9, 3) = i.totalLength /\ Pair(c9, 5) = i.id
      /\ Pair(c9, 7) = fo /\ Pair(c9, 11) = i.checksum
  BY <1>10, <1>11, <1>12, <1>h DEF Pair
<1> QED BY <1>9, <1>10, <1>12, <1>13, <1>14, <1>a, <1>g, <1>w DEF HoldsIP, h, fo, src, dst

\* The same of a UDP header.
LEMMA EncodeUDPIs ==
  ASSUME NEW f, f.srcPort \in Uint16, f.dstPort \in Uint16, f.length \in Uint16,
         f.checksum \in Uint16
  PROVE  HoldsUDP(EncodeUDP(f), f)
<1> DEFINE p1 == PutUint(2, f.srcPort)
           p2 == PutUint(2, f.dstPort)
           p3 == PutUint(2, f.length)
           p4 == PutUint(2, f.checksum)
           c2 == p1 \o p2
           c3 == c2 \o p3
           c4 == c3 \o p4
<1>1. EncodeUDP(f) = c4
  BY DEF EncodeUDP
<1>h. /\ p1 \in Seq(Byte) /\ Len(p1) = 2 /\ p1[1] * Base + p1[2] = f.srcPort
      /\ p2 \in Seq(Byte) /\ Len(p2) = 2 /\ p2[1] * Base + p2[2] = f.dstPort
      /\ p3 \in Seq(Byte) /\ Len(p3) = 2 /\ p3[1] * Base + p3[2] = f.length
      /\ p4 \in Seq(Byte) /\ Len(p4) = 2 /\ p4[1] * Base + p4[2] = f.checksum
  BY PutTwo DEF Uint16
<1> HIDE DEF p1, p2, p3, p4
<1>2c. IsCat(c2, p1, p2, 2, 2)
  BY <1>h, CatIs, Zenon
<1> HIDE DEF c2
<1>2. /\ c2 \in Seq(Byte) /\ Len(c2) = 4 /\ \A k \in 1 .. 2 : c2[k] = p1[k]
      /\ c2[3] = p2[1] /\ c2[4] = p2[2]
  BY <1>2c DEF IsCat
<1>3c. IsCat(c3, c2, p3, 4, 2)
  BY <1>2, <1>h, CatIs, Zenon
<1> HIDE DEF c3
<1>3. /\ c3 \in Seq(Byte) /\ Len(c3) = 6 /\ \A k \in 1 .. 4 : c3[k] = c2[k]
      /\ c3[5] = p3[1] /\ c3[6] = p3[2]
  BY <1>3c DEF IsCat
<1>4c. IsCat(c4, c3, p4, 6, 2)
  BY <1>3, <1>h, CatIs, Zenon
<1> HIDE DEF c4
<1>4. /\ c4 \in Seq(Byte) /\ Len(c4) = 8 /\ \A k \in 1 .. 6 : c4[k] = c3[k]
      /\ c4[7] = p4[1] /\ c4[8] = p4[2]
  BY <1>4c DEF IsCat
<1>5. /\ c4[1] = p1[1] /\ c4[2] = p1[2] /\ c4[3] = p2[1] /\ c4[4] = p2[2]
      /\ c4[5] = p3[1] /\ c4[6] = p3[2]
  BY <1>2, <1>3, <1>4
<1>6. /\ Pair(c4, 1) = f.srcPort /\ Pair(c4, 3) = f.dstPort
      /\ Pair(c4, 5) = f.length /\ Pair(c4, 7) = f.checksum
  BY <1>4, <1>5, <1>h DEF Pair
<1> QED BY <1>1, <1>4, <1>6 DEF HoldsUDP

\* What the getters return.
GetIP(b, i) ==
  /\ IPVersion(b) = 4 /\ HeaderLength(b) = i.ihl
  /\ TOS(b) = i.tos /\ TotalLength(b) = i.totalLength /\ ID(b) = i.id
  /\ Flags(b) = i.flags /\ FragmentOffset(b) = i.fragmentOffset
  /\ TTL(b) = i.ttl /\ Protocol(b) = i.protocol /\ IPChecksum(b) = i.checksum
  /\ SourceAddress(b) = Copied(4, i.srcAddr) /\ DestinationAddress(b) = Copied(4, i.dstAddr)

\* Four bytes at their place are the address.
LEMMA AddressAt ==
  ASSUME NEW b \in Seq(Byte), NEW at \in Nat \ {0}, at + 3 <= Len(b), NEW a \in Seq(Byte),
         Len(a) = 4, \A k \in 1 .. 4 : b[at - 1 + k] = a[k]
  PROVE  At(b, at, IPv4len) = a
<1>1. IPv4len = 4 /\ 4 \in Nat /\ at + 4 - 1 <= Len(b)
  BY HeadersAssumption, LenProperties
<1> DEFINE x == At(b, at, 4)
<1>2. x \in Seq(Byte) /\ Len(x) = 4 /\ \A k \in 1 .. 4 : x[k] = b[at - 1 + k]
  BY <1>1, AtIs, Zenon
<1> HIDE DEF x
<1>3. \A k \in 1 .. 4 : x[k] = a[k]
  BY <1>2
<1>4. x = a
  BY <1>2, <1>3, SeqEqual, Zenon
<1> QED BY <1>1, <1>4 DEF x

\* A getter returns what is at its place.
LEMMA GettersIP ==
  ASSUME NEW i, IPFields(i), NEW b, HoldsIP(b, i)
  PROVE  GetIP(b, i)
<1>0. i.ihl \in Nat /\ i.ihl >= 20
  <2>1. i.ihl \in 20 .. 60
    BY FirstByte DEF IPFields
  <2> QED BY <2>1
<1>1. b \in Seq(Byte) /\ Len(b) \in Nat /\ Len(b) >= 20
  BY <1>0 DEF HoldsIP
<1>b. b # <<>>
  BY <1>1
<1>2. b # <<>> /\ b[1] = 4 * 16 + (i.ihl \div 4)
  BY <1>b DEF HoldsIP
<1>3. IPVersion(b) = 4 /\ HeaderLength(b) = i.ihl
  BY <1>2, FirstByte DEF IPFields, IPVersion, HeaderLength
<1>4. \A at \in {3, 5, 7, 11} : at \in 1 .. Len(b) - 1
  BY <1>1
<1>5. \A at \in {3, 5, 7, 11} : Uint16At(b, at) = Pair(b, at)
  BY <1>1, <1>4, WordAt DEF Pair
<1>6. /\ Uint16At(b, 3) = i.totalLength /\ Uint16At(b, 5) = i.id
      /\ Uint16At(b, 7) = flagsFO(i.flags, i.fragmentOffset) /\ Uint16At(b, 11) = i.checksum
  BY <1>5, Zenon DEF HoldsIP
<1>7. TotalLength(b) = i.totalLength /\ ID(b) = i.id /\ IPChecksum(b) = i.checksum
  BY <1>6 DEF TotalLength, ID, IPChecksum
<1>8. Flags(b) = i.flags /\ FragmentOffset(b) = i.fragmentOffset
  <2> DEFINE w == flagsFO(i.flags, i.fragmentOffset)
  <2>1. w \div 2^13 = i.flags /\ (w * 8) % Word = i.fragmentOffset
    BY FragmentWord, Zenon DEF IPFields
  <2> HIDE DEF w
  <2>2. Flags(b) = w \div 2^13 /\ FragmentOffset(b) = (w * 8) % Word
    BY <1>6 DEF Flags, FragmentOffset, w
  <2> QED BY <2>1, <2>2
<1>9. TOS(b) = i.tos /\ TTL(b) = i.ttl /\ Protocol(b) = i.protocol
  BY DEF HoldsIP, TOS, TTL, Protocol
<1>10. SourceAddress(b) = Copied(4, i.srcAddr)
  <2> DEFINE a == Copied(4, i.srcAddr)
  <2>1. a \in Seq(Byte) /\ Len(a) = 4
    BY CopiedType, Zenon DEF IPFields
  <2>2. \A k \in 1 .. 4 : b[13 - 1 + k] = a[k]
    <3>1. \A k \in 1 .. 4 : b[12 + k] = a[k]
      BY Zenon DEF HoldsIP
    <3> QED BY <3>1
  <2> HIDE DEF a
  <2>3. 13 \in Nat \ {0} /\ 13 + 3 <= Len(b)
    BY <1>1
  <2>4. At(b, 13, IPv4len) = a
    BY <1>1, <2>1, <2>2, <2>3, AddressAt, Zenon
  <2> QED BY <2>4 DEF SourceAddress, a
<1>11. DestinationAddress(b) = Copied(4, i.dstAddr)
  <2> DEFINE a == Copied(4, i.dstAddr)
  <2>1. a \in Seq(Byte) /\ Len(a) = 4
    BY CopiedType, Zenon DEF IPFields
  <2>2. \A k \in 1 .. 4 : b[17 - 1 + k] = a[k]
    <3>1. \A k \in 1 .. 4 : b[16 + k] = a[k]
      BY Zenon DEF HoldsIP
    <3> QED BY <3>1
  <2> HIDE DEF a
  <2>3. 17 \in Nat \ {0} /\ 17 + 3 <= Len(b)
    BY <1>1
  <2>4. At(b, 17, IPv4len) = a
    BY <1>1, <2>1, <2>2, <2>3, AddressAt, Zenon
  <2> QED BY <2>4 DEF DestinationAddress, a
<1> QED BY <1>3, <1>7, <1>8, <1>9, <1>10, <1>11 DEF GetIP

\* The same of a UDP header.
LEMMA GettersUDP ==
  ASSUME NEW f, NEW u, HoldsUDP(u, f)
  PROVE  /\ SourcePort(u) = f.srcPort /\ DestinationPort(u) = f.dstPort
         /\ Length(u) = f.length /\ UDPChecksum(u) = f.checksum
<1>1. u \in Seq(Byte) /\ \A at \in {1, 3, 5, 7} : at \in 1 .. Len(u) - 1
  BY DEF HoldsUDP
<1>2. \A at \in {1, 3, 5, 7} : Uint16At(u, at) = Pair(u, at)
  BY <1>1, WordAt DEF Pair
<1> QED BY <1>2 DEF HoldsUDP, SourcePort, DestinationPort, Length, UDPChecksum

\* The fields of a draft fit their places.
LEMMA DraftIsFields ==
  ASSUME NEW w \in DraftFields
  PROVE  /\ IPFields(w)
         /\ w.srcAddr \in Seq(Byte) /\ Len(w.srcAddr) = 4
         /\ w.dstAddr \in Seq(Byte) /\ Len(w.dstAddr) = 4
         /\ w.srcPort \in Uint16 /\ w.dstPort \in Uint16 /\ w.length \in Uint16
         /\ w.payload \in Seq(Byte)
<1>1. w.srcAddr \in [1 .. 4 -> Byte] /\ w.dstAddr \in [1 .. 4 -> Byte] /\ 4 \in Nat
  BY HeadersAssumption DEF DraftFields
<1>2. /\ w.srcAddr \in Seq(Byte) /\ Len(w.srcAddr) = 4
      /\ w.dstAddr \in Seq(Byte) /\ Len(w.dstAddr) = 4
  BY <1>1, ArrayIsSeq, Zenon
<1>3. w.checksum \in Uint16
  <2>1. w.checksum = 0
    BY DEF DraftFields
  <2> QED BY <2>1, WordType DEF Uint16
<1> QED BY <1>2, <1>3 DEF DraftFields, IPFields

\* A header has its minimum size.
LEMMA AtLeast20 ==
  ASSUME NEW i, IPFields(i)
  PROVE  i.ihl \in Nat /\ i.ihl >= 20 /\ i.ihl <= 60
<1>1. i.ihl \in 20 .. 60
  BY FirstByte DEF IPFields
<1> QED BY <1>1

\* SetTOS changes its byte alone.
LEMMA SetTOSHolds ==
  ASSUME NEW w \in DraftFields, NEW b, HoldsIP(b, w), NEW v \in Byte
  PROVE  LET x == [w EXCEPT !.tos = v] IN x \in DraftFields /\ HoldsIP(SetTOS(b, v), x)
<1> DEFINE x == [w EXCEPT !.tos = v]
           c == SetTOS(b, v)
<1>1. /\ x.ihl = w.ihl /\ x.totalLength = w.totalLength /\ x.id = w.id /\ x.flags = w.flags /\ x.fragmentOffset = w.fragmentOffset /\ x.ttl = w.ttl
      /\ x.protocol = w.protocol /\ x.checksum = w.checksum /\ x.srcAddr = w.srcAddr /\ x.dstAddr = w.dstAddr /\ x.tos = v
  BY DEF DraftFields
<1>2. x \in DraftFields
  BY Zenon DEF DraftFields
<1>0. b \in Seq(Byte) /\ Len(b) = w.ihl /\ Len(b) \in Nat /\ Len(b) >= 20
  BY DraftIsFields, AtLeast20 DEF HoldsIP
<1>x. <<v>> \in Seq(Byte) /\ Len(<<v>>) = 1 /\ <<v>>[1] = v
  OBVIOUS
<1>p. IsPut(c, b, 2, <<v>>)
  <2>1. 2 \in Nat \ {0} /\ 2 + Len(<<v>>) - 1 <= Len(b)
    BY <1>0, <1>x
  <2> QED BY <1>0, <1>x, <2>1, PutIs, Zenon DEF SetTOS
<1> HIDE DEF c, x
<1>3. c \in Seq(Byte) /\ Len(c) = Len(b) /\ c[2] = v
  BY <1>p, <1>x, <1>0 DEF IsPut
<1>4. \A k \in 1 .. 20 : k \notin 2 .. 2 => c[k] = b[k]
  BY <1>p, <1>x, <1>0 DEF IsPut
<1>5. c[1] = b[1] /\ c[9] = b[9] /\ c[10] = b[10]
  BY <1>4
<1>6. Pair(c, 3) = Pair(b, 3) /\ Pair(c, 5) = Pair(b, 5) /\ Pair(c, 7) = Pair(b, 7) /\ Pair(c, 11) = Pair(b, 11)
  BY <1>4 DEF Pair
<1>7a. \A k \in 1 .. 4 : c[12 + k] = b[12 + k]
  <2>1. \A k \in 1 .. 4 : 12 + k \in 1 .. 20 /\ 12 + k \notin 2 .. 2
    OBVIOUS
  <2> QED BY <2>1, <1>4
<1>7b. \A k \in 1 .. 4 : c[16 + k] = b[16 + k]
  <2>1. \A k \in 1 .. 4 : 16 + k \in 1 .. 20 /\ 16 + k \notin 2 .. 2
    OBVIOUS
  <2> QED BY <2>1, <1>4
<1>8. HoldsIP(c, x)
  BY <1>0, <1>1, <1>3, <1>5, <1>6, <1>7a, <1>7b DEF HoldsIP
<1> QED BY <1>2, <1>8 DEF c, x

\* SetID changes its word alone.
LEMMA SetIDHolds ==
  ASSUME NEW w \in DraftFields, NEW b, HoldsIP(b, w), NEW v \in Uint16
  PROVE  LET x == [w EXCEPT !.id = v] IN x \in DraftFields /\ HoldsIP(SetID(b, v), x)
<1> DEFINE x == [w EXCEPT !.id = v]
           c == SetID(b, v)
<1>1. /\ x.ihl = w.ihl /\ x.tos = w.tos /\ x.totalLength = w.totalLength /\ x.flags = w.flags /\ x.fragmentOffset = w.fragmentOffset /\ x.ttl = w.ttl
      /\ x.protocol = w.protocol /\ x.checksum = w.checksum /\ x.srcAddr = w.srcAddr /\ x.dstAddr = w.dstAddr /\ x.id = v
  BY DEF DraftFields
<1>2. x \in DraftFields
  BY DEF DraftFields
<1>0. b \in Seq(Byte) /\ Len(b) = w.ihl /\ Len(b) \in Nat /\ Len(b) >= 20
  BY DraftIsFields, AtLeast20 DEF HoldsIP
<1>p. IsPutWord(c, b, 5, v)
  <2>1. 5 \in 1 .. Len(b) - 1
    BY <1>0
  <2>2. v \in 0 .. Word - 1
    BY  DEF Uint16
  <2> QED BY <1>0, <2>1, <2>2, PutWord DEF SetID
<1> HIDE DEF c, x
<1>3. c \in Seq(Byte) /\ Len(c) = Len(b) /\ Pair(c, 5) = v
  BY <1>p DEF IsPutWord, Pair
<1>4. \A k \in 1 .. 20 : k \notin {5, 6} => c[k] = b[k]
  BY <1>p, <1>0 DEF IsPutWord
<1>5. c[1] = b[1] /\ c[2] = b[2] /\ c[9] = b[9] /\ c[10] = b[10]
  BY <1>4
<1>6. Pair(c, 3) = Pair(b, 3) /\ Pair(c, 7) = Pair(b, 7) /\ Pair(c, 11) = Pair(b, 11)
  BY <1>4 DEF Pair
<1>7a. \A k \in 1 .. 4 : c[12 + k] = b[12 + k]
  <2>1. \A k \in 1 .. 4 : 12 + k \in 1 .. 20 /\ 12 + k \notin {5, 6}
    OBVIOUS
  <2> QED BY <2>1, <1>4
<1>7b. \A k \in 1 .. 4 : c[16 + k] = b[16 + k]
  <2>1. \A k \in 1 .. 4 : 16 + k \in 1 .. 20 /\ 16 + k \notin {5, 6}
    OBVIOUS
  <2> QED BY <2>1, <1>4
<1>8. HoldsIP(c, x)
  BY <1>0, <1>1, <1>3, <1>5, <1>6, <1>7a, <1>7b DEF HoldsIP
<1> QED BY <1>2, <1>8 DEF c, x

\* SetFlagsFragmentOffset changes its word alone.
LEMMA SetFragmentHolds ==
  ASSUME NEW w \in DraftFields, NEW b, HoldsIP(b, w), NEW f \in 0 .. 7, NEW o \in FragmentOffsets
  PROVE  LET x == [w EXCEPT !.flags = f, !.fragmentOffset = o] IN x \in DraftFields /\ HoldsIP(SetFlagsFragmentOffset(b, f, o), x)
<1> DEFINE x == [w EXCEPT !.flags = f, !.fragmentOffset = o]
           c == SetFlagsFragmentOffset(b, f, o)
<1>1. /\ x.ihl = w.ihl /\ x.tos = w.tos /\ x.totalLength = w.totalLength /\ x.id = w.id /\ x.ttl = w.ttl /\ x.protocol = w.protocol
      /\ x.checksum = w.checksum /\ x.srcAddr = w.srcAddr /\ x.dstAddr = w.dstAddr /\ x.flags = f /\ x.fragmentOffset = o
  BY DEF DraftFields
<1>2. x \in DraftFields
  BY Zenon DEF DraftFields
<1>0. b \in Seq(Byte) /\ Len(b) = w.ihl /\ Len(b) \in Nat /\ Len(b) >= 20
  BY DraftIsFields, AtLeast20 DEF HoldsIP
<1>p. IsPutWord(c, b, 7, flagsFO(f, o))
  <2>1. 7 \in 1 .. Len(b) - 1
    BY <1>0
  <2>2. flagsFO(f, o) \in 0 .. Word - 1
    BY FragmentWord DEF Uint16
  <2> QED BY <1>0, <2>1, <2>2, PutWord DEF SetFlagsFragmentOffset
<1> HIDE DEF c, x
<1>3. c \in Seq(Byte) /\ Len(c) = Len(b) /\ Pair(c, 7) = flagsFO(f, o)
  BY <1>p DEF IsPutWord, Pair
<1>4. \A k \in 1 .. 20 : k \notin {7, 8} => c[k] = b[k]
  BY <1>p, <1>0 DEF IsPutWord
<1>5. c[1] = b[1] /\ c[2] = b[2] /\ c[9] = b[9] /\ c[10] = b[10]
  BY <1>4
<1>6. Pair(c, 3) = Pair(b, 3) /\ Pair(c, 5) = Pair(b, 5) /\ Pair(c, 11) = Pair(b, 11)
  BY <1>4 DEF Pair
<1>7a. \A k \in 1 .. 4 : c[12 + k] = b[12 + k]
  <2>1. \A k \in 1 .. 4 : 12 + k \in 1 .. 20 /\ 12 + k \notin {7, 8}
    OBVIOUS
  <2> QED BY <2>1, <1>4
<1>7b. \A k \in 1 .. 4 : c[16 + k] = b[16 + k]
  <2>1. \A k \in 1 .. 4 : 16 + k \in 1 .. 20 /\ 16 + k \notin {7, 8}
    OBVIOUS
  <2> QED BY <2>1, <1>4
<1>8. HoldsIP(c, x)
  BY <1>0, <1>1, <1>3, <1>5, <1>6, <1>7a, <1>7b DEF HoldsIP
<1> QED BY <1>2, <1>8 DEF c, x

\* SetSourceAddress changes its four bytes alone.
LEMMA SetSourceHolds ==
  ASSUME NEW w \in DraftFields, NEW b, HoldsIP(b, w), NEW ip, NEW a \in [1 .. 4 -> Byte], To4(ip) = a
  PROVE  LET x == [w EXCEPT !.srcAddr = a] IN x \in DraftFields /\ HoldsIP(SetSourceAddress(b, ip), x)
<1> DEFINE x == [w EXCEPT !.srcAddr = a]
           c == SetSourceAddress(b, ip)
<1>1. /\ x.ihl = w.ihl /\ x.tos = w.tos /\ x.totalLength = w.totalLength /\ x.id = w.id /\ x.flags = w.flags /\ x.fragmentOffset = w.fragmentOffset
      /\ x.ttl = w.ttl /\ x.protocol = w.protocol /\ x.checksum = w.checksum /\ x.dstAddr = w.dstAddr /\ x.srcAddr = a
  BY DEF DraftFields
<1>2. x \in DraftFields
  <2>1. 1 .. IPv4len = 1 .. 4
    BY HeadersAssumption
  <2> QED BY <2>1, Zenon DEF DraftFields
<1>0. b \in Seq(Byte) /\ Len(b) = w.ihl /\ Len(b) \in Nat /\ Len(b) >= 20
  BY DraftIsFields, AtLeast20 DEF HoldsIP
<1>x. a \in Seq(Byte) /\ Len(a) = 4
  BY ArrayIsSeq, Zenon
<1>p. IsPut(c, b, 13, a)
  <2>1. 13 \in Nat \ {0} /\ 13 + Len(a) - 1 <= Len(b)
    BY <1>0, <1>x
  <2> QED BY <1>0, <1>x, <2>1, PutIs, Zenon DEF SetSourceAddress
<1> HIDE DEF c, x
<1>3. c \in Seq(Byte) /\ Len(c) = Len(b) /\ \A k \in 1 .. 4 : c[12 + k] = Copied(4, a)[k]
  <2>1. \A k \in 1 .. 4 : Copied(4, a)[k] = a[k]
    BY <1>x DEF Copied
  <2>2. ASSUME NEW k \in 1 .. 4 PROVE c[12 + k] = a[k]
    <3>1. 12 + k \in 13 .. 13 + Len(a) - 1 /\ 12 + k - 13 + 1 = k /\ 12 + k \in 1 .. Len(b)
      BY <1>0, <1>x
    <3> QED BY <1>p, <3>1 DEF IsPut
  <2> QED BY <1>p, <2>1, <2>2 DEF IsPut
<1>4. ASSUME NEW k \in 1 .. 20, k \notin 13 .. 16 PROVE c[k] = b[k]
  <2>1. k \notin 13 .. 13 + Len(a) - 1 /\ k \in 1 .. Len(b)
    BY <1>0, <1>x, <1>4
  <2> QED BY <1>p, <2>1 DEF IsPut
<1>5. c[1] = b[1] /\ c[2] = b[2] /\ c[9] = b[9] /\ c[10] = b[10]
  BY <1>4
<1>6. Pair(c, 3) = Pair(b, 3) /\ Pair(c, 5) = Pair(b, 5) /\ Pair(c, 7) = Pair(b, 7) /\ Pair(c, 11) = Pair(b, 11)
  BY <1>4 DEF Pair
<1>7a. \A k \in 1 .. 4 : c[16 + k] = b[16 + k]
  <2>1. \A k \in 1 .. 4 : 16 + k \in 1 .. 20 /\ 16 + k \notin 13 .. 16
    OBVIOUS
  <2> QED BY <2>1, <1>4
<1>8. HoldsIP(c, x)
  BY <1>0, <1>1, <1>3, <1>5, <1>6, <1>7a DEF HoldsIP
<1> QED BY <1>2, <1>8 DEF c, x

\* SetDestinationAddress changes its four bytes alone.
LEMMA SetDestinationHolds ==
  ASSUME NEW w \in DraftFields, NEW b, HoldsIP(b, w), NEW ip, NEW a \in [1 .. 4 -> Byte], To4(ip) = a
  PROVE  LET x == [w EXCEPT !.dstAddr = a] IN x \in DraftFields /\ HoldsIP(SetDestinationAddress(b, ip), x)
<1> DEFINE x == [w EXCEPT !.dstAddr = a]
           c == SetDestinationAddress(b, ip)
<1>1. /\ x.ihl = w.ihl /\ x.tos = w.tos /\ x.totalLength = w.totalLength /\ x.id = w.id /\ x.flags = w.flags /\ x.fragmentOffset = w.fragmentOffset
      /\ x.ttl = w.ttl /\ x.protocol = w.protocol /\ x.checksum = w.checksum /\ x.srcAddr = w.srcAddr /\ x.dstAddr = a
  BY DEF DraftFields
<1>2. x \in DraftFields
  <2>1. 1 .. IPv4len = 1 .. 4
    BY HeadersAssumption
  <2> QED BY <2>1, Zenon DEF DraftFields
<1>0. b \in Seq(Byte) /\ Len(b) = w.ihl /\ Len(b) \in Nat /\ Len(b) >= 20
  BY DraftIsFields, AtLeast20 DEF HoldsIP
<1>x. a \in Seq(Byte) /\ Len(a) = 4
  BY ArrayIsSeq, Zenon
<1>p. IsPut(c, b, 17, a)
  <2>1. 17 \in Nat \ {0} /\ 17 + Len(a) - 1 <= Len(b)
    BY <1>0, <1>x
  <2> QED BY <1>0, <1>x, <2>1, PutIs, Zenon DEF SetDestinationAddress
<1> HIDE DEF c, x
<1>3. c \in Seq(Byte) /\ Len(c) = Len(b) /\ \A k \in 1 .. 4 : c[16 + k] = Copied(4, a)[k]
  <2>1. \A k \in 1 .. 4 : Copied(4, a)[k] = a[k]
    BY <1>x DEF Copied
  <2>2. ASSUME NEW k \in 1 .. 4 PROVE c[16 + k] = a[k]
    <3>1. 16 + k \in 17 .. 17 + Len(a) - 1 /\ 16 + k - 17 + 1 = k /\ 16 + k \in 1 .. Len(b)
      BY <1>0, <1>x
    <3> QED BY <1>p, <3>1 DEF IsPut
  <2> QED BY <1>p, <2>1, <2>2 DEF IsPut
<1>4. ASSUME NEW k \in 1 .. 20, k \notin 17 .. 20 PROVE c[k] = b[k]
  <2>1. k \notin 17 .. 17 + Len(a) - 1 /\ k \in 1 .. Len(b)
    BY <1>0, <1>x, <1>4
  <2> QED BY <1>p, <2>1 DEF IsPut
<1>5. c[1] = b[1] /\ c[2] = b[2] /\ c[9] = b[9] /\ c[10] = b[10]
  BY <1>4
<1>6. Pair(c, 3) = Pair(b, 3) /\ Pair(c, 5) = Pair(b, 5) /\ Pair(c, 7) = Pair(b, 7) /\ Pair(c, 11) = Pair(b, 11)
  BY <1>4 DEF Pair
<1>7a. \A k \in 1 .. 4 : c[12 + k] = b[12 + k]
  <2>1. \A k \in 1 .. 4 : 12 + k \in 1 .. 20 /\ 12 + k \notin 17 .. 20
    OBVIOUS
  <2> QED BY <2>1, <1>4
<1>8. HoldsIP(c, x)
  BY <1>0, <1>1, <1>3, <1>5, <1>6, <1>7a DEF HoldsIP
<1> QED BY <1>2, <1>8 DEF c, x

------------------------------------------------------------------------------
(* Sums of words *)

\* The partial sums of a sequence of numbers.
IsSum(f, words) ==
  /\ f \in [0 .. Len(words) -> Int]
  /\ f[0] = 0
  /\ \A k \in 1 .. Len(words) : f[k] = f[k - 1] + words[k]

\* SumOf computes them, and the last is the sum.
LEMMA SumExists ==
  ASSUME NEW words \in Seq(Nat)
  PROVE  \E f : IsSum(f, words) /\ SumOf(words) = f[Len(words)]
<1> DEFINE N == Len(words)
           g == [k \in 1 .. N |-> [v \in Int |-> v + words[k]]]
           F(p) == [k \in 0 .. N |-> IF k = 0 THEN 0 ELSE p[k - 1] + words[k]]
           U == CHOOSE p : p = F(p)
<1>0. N \in Nat /\ \A k \in 1 .. N : words[k] \in Nat
  OBVIOUS
<1>1. g \in [1 .. N -> [Int -> Int]]
  BY <1>0
<1>2. PICK f : IsRec(f, N, Int, 0, g)
  <2>1. 0 \in Int
    OBVIOUS
  <2> HIDE DEF g, N
  <2> QED BY <1>0, <1>1, <2>1, Recursion, Zenon
<1>3. f = F(f)
  <2>1. f \in [0 .. N -> Int] /\ f[0] = 0
    BY <1>2 DEF IsRec
  <2>2. ASSUME NEW k \in 1 .. N PROVE g[k][f[k - 1]] = f[k - 1] + words[k]
    <3>1. k - 1 \in 0 .. N
      BY <1>0
    <3>2. f[k - 1] \in Int
      BY <2>1, <3>1
    <3> QED BY <3>2
  <2>3. \A k \in 1 .. N : f[k] = f[k - 1] + words[k]
    BY <1>2, <2>2, Zenon DEF IsRec
  <2> QED BY <2>1, <2>3, <1>0
<1>4. U = F(U)
  BY <1>3, Zenon
<1>5. SumOf(words) = U[N]
  BY DEF SumOf
<1> HIDE DEF U
<1>6. U[0] = 0 /\ \A k \in 1 .. N : U[k] = U[k - 1] + words[k]
  BY <1>4, <1>0
<1>7. U \in [0 .. N -> Int]
  <2> DEFINE S == {k \in 0 .. N : U[k] \in Int}
  <2>1. 0 \in S
    BY <1>6, <1>0
  <2>2. ASSUME NEW k \in 0 .. N - 1, k \in S PROVE k + 1 \in S
    <3>0. k + 1 \in 1 .. N /\ (k + 1) - 1 = k
      BY <1>0
    <3>1. U[k + 1] = U[k] + words[k + 1] /\ words[k + 1] \in Nat
      BY <1>6, <1>0, <3>0
    <3> QED BY <2>2, <3>0, <3>1
  <2>3. 0 .. N \subseteq S
    <3> HIDE DEF S
    <3> QED BY <2>1, <2>2, <1>0, UpTo, Zenon
  <2> QED BY <2>3, <1>4
<1> QED BY <1>5, <1>6, <1>7 DEF IsSum

\* There is one sequence of partial sums.
LEMMA SumIs ==
  ASSUME NEW words \in Seq(Nat), NEW f, IsSum(f, words)
  PROVE  SumOf(words) = f[Len(words)]
<1> DEFINE N == Len(words)
<1>0. N \in Nat
  BY LenProperties
<1>1. PICK h : IsSum(h, words) /\ SumOf(words) = h[N]
  BY SumExists
<1> DEFINE S == {k \in 0 .. N : f[k] = h[k]}
<1>2. 0 \in S
  BY <1>0, <1>1 DEF IsSum
<1>3. ASSUME NEW k \in 0 .. N - 1, k \in S PROVE k + 1 \in S
  <2>1. k + 1 \in 1 .. N /\ (k + 1) - 1 = k /\ k + 1 \in 0 .. N
    BY <1>0
  <2>2. f[k + 1] = f[k] + words[k + 1] /\ h[k + 1] = h[k] + words[k + 1]
    BY <2>1, <1>1 DEF IsSum
  <2> QED BY <1>3, <2>1, <2>2
<1>4. 0 .. N \subseteq S
  <2> HIDE DEF S
  <2> QED BY <1>0, <1>2, <1>3, UpTo, Zenon
<1>5. N \in 0 .. N
  BY <1>0
<1> QED BY <1>1, <1>4, <1>5

\* The sum of words that are at most m.
LEMMA SumBound ==
  ASSUME NEW m \in Nat, NEW words \in Seq(0 .. m)
  PROVE  SumOf(words) \in 0 .. Len(words) * m
<1> DEFINE N == Len(words)
<1>0. N \in Nat /\ words \in Seq(Nat) /\ \A k \in 1 .. N : words[k] \in 0 .. m
  OBVIOUS
<1>1. PICK f : IsSum(f, words) /\ SumOf(words) = f[N]
  BY <1>0, SumExists
<1> DEFINE S == {k \in 0 .. N : f[k] \in 0 .. k * m}
<1>2. 0 \in S
  BY <1>0, <1>1 DEF IsSum
<1>3. ASSUME NEW k \in 0 .. N - 1, k \in S PROVE k + 1 \in S
  <2>1. k + 1 \in 1 .. N /\ (k + 1) - 1 = k /\ k + 1 \in 0 .. N
    BY <1>0
  <2>2. f[k + 1] = f[k] + words[k + 1] /\ words[k + 1] \in 0 .. m
    BY <2>1, <1>0, <1>1 DEF IsSum
  <2>3. k * m \in Nat /\ (k + 1) * m = k * m + m
    BY SMT
  <2>4. f[k] \in 0 .. k * m
    BY <1>3
  <2> DEFINE p == k * m
  <2>5. f[k + 1] \in 0 .. p + m
    <3>1. p \in Nat /\ f[k] \in 0 .. p
      BY <2>3, <2>4
    <3> HIDE DEF p
    <3> QED BY <3>1, <2>2
  <2> QED BY <2>1, <2>3, <2>5
<1>4. 0 .. N \subseteq S
  <2> HIDE DEF S
  <2> QED BY <1>0, <1>2, <1>3, UpTo, Zenon
<1>5. N \in 0 .. N
  BY <1>0
<1> QED BY <1>1, <1>4, <1>5

\* The sum of a concatenation.
LEMMA SumOfCat ==
  ASSUME NEW a \in Seq(Nat), NEW b \in Seq(Nat)
  PROVE  SumOf(a \o b) = SumOf(a) + SumOf(b)
<1> DEFINE M == Len(a)
           N == Len(b)
           c == a \o b
<1>1. PICK f : IsSum(f, a) /\ SumOf(a) = f[M]
  BY SumExists
<1>2. PICK g : IsSum(g, b) /\ SumOf(b) = g[N]
  BY SumExists
<1>3. /\ c \in Seq(Nat) /\ Len(c) = M + N
      /\ \A i \in 1 .. M + N : c[i] = IF i <= M THEN a[i] ELSE b[i - M]
  BY ConcatProperties
<1>4. M \in Nat /\ N \in Nat
  BY LenProperties
<1> DEFINE h == [k \in 0 .. M + N |-> IF k <= M THEN f[k] ELSE f[M] + g[k - M]]
<1> HIDE DEF M, N, c
<1>5. /\ f \in [0 .. M -> Int] /\ f[0] = 0 /\ \A k \in 1 .. M : f[k] = f[k - 1] + a[k]
      /\ g \in [0 .. N -> Int] /\ g[0] = 0 /\ \A k \in 1 .. N : g[k] = g[k - 1] + b[k]
  BY <1>1, <1>2 DEF IsSum, M, N
<1>6. f[M] \in Int /\ \A k \in 0 .. N : g[k] \in Int
  BY <1>4, <1>5
<1>7. h \in [0 .. M + N -> Int] /\ h[0] = 0
  BY <1>4, <1>5, <1>6
<1>8. ASSUME NEW k \in 1 .. M + N PROVE h[k] = h[k - 1] + c[k]
  <2>1. CASE k <= M
    <3>1. k \in 1 .. M /\ k - 1 \in 0 .. M /\ k - 1 <= M
      BY <2>1, <1>4
    <3>2. h[k] = f[k] /\ h[k - 1] = f[k - 1]
      BY <2>1, <3>1, <1>4
    <3>3. c[k] = a[k]
      BY <2>1, <1>3, Zenon
    <3> HIDE DEF h
    <3> QED BY <3>1, <3>2, <3>3, <1>5
  <2>2. CASE k = M + 1
    <3>1. h[k] = f[M] + g[1] /\ h[k - 1] = f[M] /\ 1 \in 1 .. N
      BY <2>2, <1>4
    <3>2. g[1] = g[1 - 1] + b[1] /\ c[k] = b[1]
      <4>1. g[1] = g[1 - 1] + b[1]
        BY <3>1, <1>5
      <4>2. ~(k <= M) /\ k - M = 1
        BY <2>2, <1>4
      <4>3. c[k] = b[k - M]
        BY <4>2, <1>3
      <4> QED BY <4>1, <4>2, <4>3
    <3>3. g[1] = b[1] /\ g[1] \in Int
      <4>1. 1 \in 0 .. N
        BY <3>1, <1>4
      <4>2. g[1] \in Int
        BY <4>1, <1>6
      <4>3. b[1] \in Int
        BY <3>1, ElementOfSeq DEF N
      <4> QED BY <3>2, <1>5, <4>2, <4>3
    <3> QED BY <3>1, <3>2, <3>3
  <2>3. CASE k > M + 1
    <3> DEFINE j == k - M
    <3>1. j \in 1 .. N /\ j - 1 \in 0 .. N /\ ~(k <= M) /\ ~(k - 1 <= M) /\ (k - 1) - M = j - 1
      BY <2>3, <1>4
    <3>2. h[k] = f[M] + g[j] /\ h[k - 1] = f[M] + g[j - 1] /\ c[k] = b[j]
      <4>1. c[k] = b[j]
        BY <3>1, <1>3, Zenon
      <4>2. k \in 0 .. M + N /\ k - 1 \in 0 .. M + N
        BY <2>3, <1>4
      <4>3. h[k] = f[M] + g[k - M] /\ h[k - 1] = f[M] + g[(k - 1) - M]
        BY <3>1, <4>2
      <4>4. (k - 1) - M = j - 1
        BY <3>1
      <4> QED BY <4>1, <4>3, <4>4
    <3> HIDE DEF j, h
    <3>3. g[j] = g[j - 1] + b[j] /\ g[j - 1] \in Int /\ b[j] \in Int
      <4>1. b[j] \in Int
        BY <3>1, ElementOfSeq DEF N
      <4> QED BY <3>1, <1>5, <1>6, <4>1, Zenon
    <3> QED BY <3>2, <3>3, <1>6
  <2> QED BY <2>1, <2>2, <2>3, <1>4
<1>9. IsSum(h, c)
  BY <1>3, <1>7, <1>8, Zenon DEF IsSum
<1>10. SumOf(c) = h[M + N]
  <2> HIDE DEF h
  <2> QED BY <1>3, <1>9, SumIs
<1>11. h[M + N] = f[M] + g[N]
  <2>1. CASE N = 0
    BY <2>1, <1>4, <1>5
  <2>2. CASE N # 0
    <3> DEFINE z == M + N
    <3>1. ~(z <= M) /\ z - M = N /\ z \in 0 .. M + N
      BY <2>2, <1>4
    <3> HIDE DEF z
    <3>2. h[z] = f[M] + g[z - M]
      BY <3>1
    <3> QED BY <3>1, <3>2 DEF z
  <2> QED BY <2>1, <2>2
<1> QED BY <1>1, <1>2, <1>10, <1>11 DEF c

\* The sum after one word has changed.
LEMMA SumOfChange ==
  ASSUME NEW a \in Seq(Nat), NEW b \in Seq(Nat), Len(a) = Len(b), NEW j \in 1 .. Len(a),
         \A k \in 1 .. Len(a) : k # j => b[k] = a[k]
  PROVE  SumOf(b) = SumOf(a) - a[j] + b[j]
<1> DEFINE N == Len(a)
           d == b[j] - a[j]
<1>1. PICK f : IsSum(f, a) /\ SumOf(a) = f[N]
  BY SumExists, Zenon
<1>2. /\ N \in Nat /\ N = Len(b) /\ a[j] \in Int /\ b[j] \in Int /\ d \in Int
      /\ \A k \in 1 .. N : a[k] \in Int /\ b[k] \in Int
  OBVIOUS
<1>3. f \in [0 .. N -> Int] /\ f[0] = 0 /\ \A k \in 1 .. N : f[k] = f[k - 1] + a[k]
  BY <1>1 DEF IsSum
<1> DEFINE h == [k \in 0 .. N |-> IF k >= j THEN f[k] + d ELSE f[k]]
<1>4. h \in [0 .. N -> Int] /\ h[0] = 0
  <2> HIDE DEF d, N
  <2>1. j \in 1 .. N
    BY DEF N
  <2> QED BY <1>2, <1>3, <2>1
<1>5. ASSUME NEW k \in 1 .. N PROVE h[k] = h[k - 1] + b[k]
  <2>0. k - 1 \in 0 .. N /\ k \in 0 .. N /\ k - 1 \in Int
    BY <1>2
  <2>1. f[k] = f[k - 1] + a[k] /\ f[k - 1] \in Int /\ a[k] \in Int /\ b[k] \in Int
    BY <2>0, <1>2, <1>3, Zenon
  <2>2. CASE k = j
    <3>1. h[k] = f[k] + d /\ h[k - 1] = f[k - 1]
      <4>1. k >= j /\ ~(k - 1 >= j)
        BY <2>2
      <4> HIDE DEF d
      <4> QED BY <4>1, <2>0
    <3> HIDE DEF h
    <3> QED BY <3>1, <2>1, <2>2, <1>2
  <2>3. CASE k > j
    <3>1. h[k] = f[k] + d /\ h[k - 1] = f[k - 1] + d /\ b[k] = a[k]
      <4>1. k >= j /\ k - 1 >= j /\ k # j
        BY <2>3
      <4> HIDE DEF d
      <4> QED BY <4>1, <2>0
    <3> HIDE DEF h, d
    <3> QED BY <3>1, <2>1, <1>2
  <2>4. CASE k < j
    <3>1. h[k] = f[k] /\ h[k - 1] = f[k - 1] /\ b[k] = a[k]
      <4>1. ~(k >= j) /\ ~(k - 1 >= j) /\ k # j
        BY <2>4
      <4> HIDE DEF d
      <4> QED BY <4>1, <2>0
    <3> HIDE DEF h
    <3> QED BY <3>1, <2>1
  <2> QED BY <2>2, <2>3, <2>4
<1>6. IsSum(h, b)
  BY <1>2, <1>4, <1>5, Zenon DEF IsSum
<1>7. SumOf(b) = h[N]
  <2> HIDE DEF h
  <2> QED BY <1>2, <1>6, SumIs
<1>8. h[N] = f[N] + d /\ f[N] \in Int
  <2>1. N \in 0 .. N /\ N >= j
    BY <1>2
  <2> HIDE DEF d, N
  <2> QED BY <2>1, <1>3
<1> HIDE DEF h
<1> QED BY <1>1, <1>2, <1>7, <1>8

\* The sum of the words of a byte string.
Sum16(b) == SumOf(Words(b))

\* Halves of lengths.
LEMMA Halves ==
  /\ \A n \in Nat : /\ (n + 1) \div 2 \in Nat /\ (n = 0 => (n + 1) \div 2 = 0)
                    /\ 2 * ((n + 1) \div 2) \in {n, n + 1}
  /\ \A m \in Nat, n \in Nat : (2 * m + n + 1) \div 2 = m + ((n + 1) \div 2)
BY SMT

\* The word at a place in a byte string, the last one filled up with zeros.
WordOf(b, k) == b[2 * k - 1] * Base + IF 2 * k <= Len(b) THEN b[2 * k] ELSE 0

\* A product is below that of its bounds.
LEMMA WordBound ==
  ASSUME NEW x \in Byte, NEW y \in Byte
  PROVE  x * Base + y \in 0 .. Word - 1
<1> DEFINE s == <<x, y>>
<1>1. s \in Seq(Byte) /\ Len(s) = 2 /\ s[1] = x /\ s[2] = y
  BY PairIs
<1> HIDE DEF s
<1> QED BY <1>1, TwoBytes

\* The words of a byte string.
LEMMA WordsAre ==
  ASSUME NEW b \in Seq(Byte), NEW n, n = (Len(b) + 1) \div 2
  PROVE  /\ n \in Nat /\ Words(b) \in Seq(0 .. Word - 1) /\ Words(b) \in Seq(Nat) /\ Len(Words(b)) = n
         /\ \A k \in 1 .. n : Words(b)[k] = WordOf(b, k) /\ WordOf(b, k) \in 0 .. Word - 1
<1>1. Len(b) \in Nat
  BY LenProperties
<1>2. n \in Nat /\ 2 * n \in {Len(b), Len(b) + 1}
  BY <1>1, Halves
<1>3. Words(b) = [k \in 1 .. n |-> WordOf(b, k)]
  BY DEF Words, WordOf
<1>4. ASSUME NEW k \in 1 .. n PROVE WordOf(b, k) \in 0 .. Word - 1
  <2>1. 2 * k - 1 \in 1 .. Len(b)
    BY <1>1, <1>2
  <2>2. b[2 * k - 1] \in Byte
    BY <2>1, ElementOfSeq
  <2>3. (IF 2 * k <= Len(b) THEN b[2 * k] ELSE 0) \in Byte
    <3>1. CASE 2 * k <= Len(b)
      <4>1. 2 * k \in 1 .. Len(b)
        BY <3>1, <1>1
      <4> QED BY <3>1, <4>1, ElementOfSeq
    <3>2. CASE ~(2 * k <= Len(b))
      BY <3>2, BaseType
    <3> QED BY <3>1, <3>2
  <2> QED BY <2>2, <2>3, WordBound, Zenon DEF WordOf
<1>5. Words(b) \in [1 .. n -> 0 .. Word - 1] /\ Words(b) \in [1 .. n -> Nat]
  <2>1. 0 .. Word - 1 \subseteq Nat
    OBVIOUS
  <2>2. \A k \in 1 .. n : WordOf(b, k) \in Nat
    BY <1>4, <2>1
  <2> QED BY <1>3, <1>4, <2>2
<1>6. Words(b) \in Seq(0 .. Word - 1) /\ Len(Words(b)) = n
  BY <1>5, <1>2, ArrayIsSeq, Zenon
<1>7. Words(b) \in Seq(Nat)
  BY <1>5, <1>2, ArrayIsSeq
<1> QED BY <1>2, <1>3, <1>4, <1>6, <1>7

\* The sum of words is a number, at most as large as so many words allow.
LEMMA Sum16Type ==
  ASSUME NEW b \in Seq(Byte)
  PROVE  Sum16(b) \in Nat /\ Sum16(b) <= ((Len(b) + 1) \div 2) * (Word - 1)
<1> DEFINE n == (Len(b) + 1) \div 2
           ws == Words(b)
<1>1. n \in Nat /\ ws \in Seq(0 .. Word - 1) /\ Len(ws) = n
  BY WordsAre
<1> HIDE DEF n, ws
<1>2. Word - 1 \in Nat
  BY WordType
<1>3. SumOf(ws) \in 0 .. n * (Word - 1)
  BY <1>1, <1>2, SumBound, Zenon
<1>4. n * (Word - 1) \in Nat
  BY <1>1, <1>2
<1> QED BY <1>3, <1>4 DEF Sum16, ws, n

\* The sum over a part of even length and what follows it.
LEMMA Sum16Cat ==
  ASSUME NEW a \in Seq(Byte), NEW b \in Seq(Byte), NEW m \in Nat, Len(a) = 2 * m
  PROVE  Sum16(a \o b) = Sum16(a) + Sum16(b)
<1> DEFINE L == Len(b)
           n == (L + 1) \div 2
           c == a \o b
<1>1. L \in Nat /\ n \in Nat /\ (2 * m + L + 1) \div 2 = m + n
  BY Halves, LenProperties
<1>2. IsCat(c, a, b, 2 * m, L)
  BY CatIs
<1>3. (Len(a) + 1) \div 2 = m
  <2>1. 0 \in Nat /\ (0 + 1) \div 2 = 0
    BY Halves
  <2>2. (2 * m + 0 + 1) \div 2 = m + 0
    BY <2>1, Halves
  <2> QED BY <2>2
<1>4. n = (Len(b) + 1) \div 2
  OBVIOUS
<1> HIDE DEF c, n, L
<1>5. /\ c \in Seq(Byte) /\ Len(c) = 2 * m + L
      /\ \A i \in 1 .. 2 * m : c[i] = a[i]
      /\ \A i \in 1 .. L : c[2 * m + i] = b[i]
  BY <1>2 DEF IsCat
<1>6. m + n = (Len(c) + 1) \div 2
  BY <1>1, <1>5
<1> DEFINE x == Words(a)
           y == Words(b)
           z == Words(c)
<1>7. x \in Seq(Nat) /\ Len(x) = m /\ \A k \in 1 .. m : x[k] = WordOf(a, k)
  BY <1>3, WordsAre
<1>8. y \in Seq(Nat) /\ Len(y) = n /\ \A k \in 1 .. n : y[k] = WordOf(b, k)
  BY <1>4, WordsAre
<1>9. z \in Seq(Nat) /\ Len(z) = m + n /\ \A k \in 1 .. m + n : z[k] = WordOf(c, k)
  BY <1>5, <1>6, WordsAre
<1>10. ASSUME NEW k \in 1 .. m PROVE WordOf(c, k) = WordOf(a, k)
  <2>1. 2 * k - 1 \in 1 .. 2 * m /\ 2 * k \in 1 .. 2 * m /\ 2 * k <= Len(a) /\ 2 * k <= Len(c)
    BY <1>1, <1>5
  <2>2. c[2 * k - 1] = a[2 * k - 1] /\ c[2 * k] = a[2 * k]
    BY <1>5, <2>1
  <2> QED BY <2>1, <2>2 DEF WordOf
<1>11. ASSUME NEW k \in 1 .. n PROVE WordOf(c, m + k) = WordOf(b, k)
  <2>1. 2 * n \in {L, L + 1}
    BY <1>1, Halves DEF n
  <2>2. 2 * k - 1 \in 1 .. L /\ 2 * (m + k) - 1 = 2 * m + (2 * k - 1) /\ 2 * (m + k) = 2 * m + 2 * k
    BY <1>1, <2>1
  <2>3. c[2 * (m + k) - 1] = b[2 * k - 1]
    BY <1>5, <2>2
  <2>4. 2 * (m + k) <= Len(c) <=> 2 * k <= L
    BY <1>1, <1>5, <2>2
  <2>5. CASE 2 * k <= L
    <3>1. 2 * k \in 1 .. L
      BY <2>5, <1>1
    <3>2. c[2 * (m + k)] = b[2 * k]
      BY <1>5, <2>2, <3>1
    <3> QED BY <2>3, <2>4, <2>5, <3>2 DEF WordOf, L
  <2>6. CASE ~(2 * k <= L)
    BY <2>3, <2>4, <2>6 DEF WordOf, L
  <2> QED BY <2>5, <2>6
<1> HIDE DEF x, y, z
<1>12. /\ x \o y \in Seq(Nat) /\ Len(x \o y) = m + n
       /\ \A i \in 1 .. m + n : (x \o y)[i] = IF i <= m THEN x[i] ELSE y[i - m]
  BY <1>7, <1>8, ConcatProperties, Zenon
<1>13. ASSUME NEW i \in 1 .. m + n PROVE z[i] = (x \o y)[i]
  <2>1. CASE i <= m
    <3>1. i \in 1 .. m
      BY <2>1, <1>1
    <3> QED BY <2>1, <3>1, <1>7, <1>9, <1>10, <1>12
  <2>2. CASE ~(i <= m)
    <3> DEFINE k == i - m
    <3>1. k \in 1 .. n /\ i = m + k
      BY <2>2, <1>1
    <3>2. (x \o y)[i] = y[k]
      BY <2>2, <1>12
    <3> HIDE DEF k
    <3>3. y[k] = WordOf(b, k) /\ z[i] = WordOf(c, m + k)
      BY <3>1, <1>8, <1>9
    <3> QED BY <3>1, <3>2, <3>3, <1>11
  <2> QED BY <2>1, <2>2, Zenon
<1>14. z = x \o y
  BY <1>9, <1>12, <1>13, SeqEqual, Zenon
<1>15. SumOf(x \o y) = SumOf(x) + SumOf(y)
  BY <1>7, <1>8, SumOfCat
<1> QED BY <1>14, <1>15 DEF Sum16, x, y, z, c

\* The sum after a word has been put at an even offset.
LEMMA Sum16Put ==
  ASSUME NEW b \in Seq(Byte), NEW m \in Nat, 2 * m + 2 <= Len(b),
         NEW c, NEW v, IsPutWord(c, b, 2 * m + 1, v)
  PROVE  Sum16(c) = Sum16(b) - Pair(b, 2 * m + 1) + v
<1> DEFINE n == (Len(b) + 1) \div 2
           j == m + 1
           x == Words(b)
           y == Words(c)
<1>1. /\ c \in Seq(Byte) /\ Len(c) = Len(b)
      /\ \A k \in 1 .. Len(b) : k # 2 * m + 1 /\ k # 2 * m + 1 + 1 => c[k] = b[k]
      /\ c[2 * m + 1] * Base + c[2 * m + 1 + 1] = v
  BY DEF IsPutWord
<1>2. Len(b) \in Nat /\ n \in Nat /\ 2 * n \in {Len(b), Len(b) + 1}
  BY Halves, LenProperties
<1>3. x \in Seq(Nat) /\ Len(x) = n /\ \A k \in 1 .. n : x[k] = WordOf(b, k)
  BY WordsAre
<1>4. y \in Seq(Nat) /\ Len(y) = n /\ \A k \in 1 .. n : y[k] = WordOf(c, k)
  BY <1>1, WordsAre
<1> HIDE DEF n, x, y
<1>5. j \in 1 .. n
  BY <1>2
<1>6. ASSUME NEW k \in 1 .. n, k # j PROVE y[k] = x[k]
  <2>1. 2 * k - 1 \in 1 .. Len(b) /\ 2 * k - 1 # 2 * m + 1 /\ 2 * k - 1 # 2 * m + 1 + 1
    BY <1>2, <1>6
  <2>2. c[2 * k - 1] = b[2 * k - 1]
    BY <1>1, <2>1
  <2>3. CASE 2 * k <= Len(b)
    <3>1. 2 * k \in 1 .. Len(b) /\ 2 * k # 2 * m + 1 /\ 2 * k # 2 * m + 1 + 1
      BY <1>2, <1>6, <2>3
    <3>2. c[2 * k] = b[2 * k]
      BY <1>1, <3>1
    <3>3. WordOf(c, k) = WordOf(b, k)
      BY <1>1, <2>2, <2>3, <3>2 DEF WordOf
    <3> QED BY <1>3, <1>4, <3>3
  <2>4. CASE ~(2 * k <= Len(b))
    <3>1. WordOf(c, k) = WordOf(b, k)
      BY <1>1, <2>2, <2>4 DEF WordOf
    <3> QED BY <1>3, <1>4, <3>1
  <2> QED BY <2>3, <2>4
<1>7. x[j] = Pair(b, 2 * m + 1) /\ y[j] = v
  <2>1. 2 * j - 1 = 2 * m + 1 /\ 2 * j = 2 * m + 1 + 1 /\ 2 * j <= Len(b)
    BY <1>2
  <2>2. x[j] = WordOf(b, j) /\ y[j] = WordOf(c, j)
    BY <1>3, <1>4, <1>5
  <2> HIDE DEF j
  <2>3. WordOf(b, j) = b[2 * m + 1] * Base + b[2 * m + 1 + 1]
    BY <2>1 DEF WordOf
  <2>4. WordOf(c, j) = c[2 * m + 1] * Base + c[2 * m + 1 + 1]
    BY <1>1, <2>1 DEF WordOf
  <2> QED BY <1>1, <2>2, <2>3, <2>4 DEF Pair
<1> HIDE DEF j
<1>8. SumOf(y) = SumOf(x) - x[j] + y[j]
  BY <1>3, <1>4, <1>5, <1>6, SumOfChange, Zenon
<1> QED BY <1>7, <1>8 DEF Sum16, x, y

\* The sum of no words and of one.
LEMMA Sum16Small ==
  /\ Sum16(<<>>) = 0
  /\ \A s \in Seq(Byte) : Len(s) = 2 => Sum16(s) = Pair(s, 1)
<1>1. Sum16(<<>>) = 0
  <2> DEFINE e == <<>>
  <2>1. e \in Seq(Byte) /\ Len(e) = 0
    OBVIOUS
  <2> HIDE DEF e
  <2>2. (Len(e) + 1) \div 2 = 0
    BY <2>1, Halves
  <2>3. Sum16(e) \in Nat /\ Sum16(e) <= 0 * (Word - 1)
    BY <2>1, <2>2, Sum16Type, Zenon
  <2>4. 0 * (Word - 1) = 0
    BY WordType
  <2>5. Sum16(e) = 0
    BY <2>3, <2>4
  <2> QED BY <2>5 DEF e
<1>2. ASSUME NEW s \in Seq(Byte), Len(s) = 2 PROVE Sum16(s) = Pair(s, 1)
  <2> DEFINE ws == Words(s)
  <2>1. (Len(s) + 1) \div 2 = 1
    BY <1>2
  <2>2. ws \in Seq(Nat) /\ Len(ws) = 1 /\ \A k \in 1 .. 1 : ws[k] = WordOf(s, k) /\ WordOf(s, k) \in 0 .. Word - 1
    BY <2>1, WordsAre, Zenon
  <2> HIDE DEF ws
  <2>3. ws[1] = WordOf(s, 1) /\ ws[1] \in Nat
    BY <2>2
  <2>4. WordOf(s, 1) = s[1] * Base + s[2]
    BY <1>2 DEF WordOf
  <2>5. PICK f : IsSum(f, ws) /\ SumOf(ws) = f[1]
    BY <2>2, SumExists, Zenon
  <2>6. f[1] = f[1 - 1] + ws[1] /\ f[0] = 0
    BY <2>2, <2>5 DEF IsSum
  <2>7. f[1] = ws[1]
    BY <2>3, <2>6
  <2> QED BY <2>3, <2>4, <2>5, <2>7 DEF Sum16, Pair, ws
<1> QED BY <1>1, <1>2

\* An address of which nothing is copied adds nothing to a sum.
LEMMA Sum16Zeros == Sum16(Copied(4, <<>>)) = 0
<1> DEFINE z == Copied(4, <<>>)
           ws == Words(z)
<1>1. z \in Seq(Byte) /\ Len(z) = 4
  BY CopiedType, EmptySeq, Zenon
<1>2. \A k \in 1 .. 4 : z[k] = 0
  BY DEF Copied
<1> HIDE DEF z
<1>3. (Len(z) + 1) \div 2 = 2
  BY <1>1
<1>4. ws \in Seq(Nat) /\ Len(ws) = 2 /\ \A k \in 1 .. 2 : ws[k] = WordOf(z, k)
  BY <1>1, <1>3, WordsAre, Zenon
<1>5. WordOf(z, 1) = 0 /\ WordOf(z, 2) = 0
  BY <1>1, <1>2, WordType DEF WordOf
<1> HIDE DEF ws
<1>6. ws[1] = 0 /\ ws[2] = 0
  BY <1>4, <1>5
<1>7. PICK f : IsSum(f, ws) /\ SumOf(ws) = f[2]
  BY <1>4, SumExists, Zenon
<1>8. f[2] = f[2 - 1] + ws[2] /\ f[1] = f[1 - 1] + ws[1] /\ f[0] = 0
  BY <1>4, <1>7 DEF IsSum
<1>9. f[2] = 0
  BY <1>6, <1>8
<1> QED BY <1>7, <1>9 DEF Sum16, z, ws

------------------------------------------------------------------------------
(* Checksums *)

\* Division by a word of what two words can add up to.
LEMMA DivideSum ==
  ASSUME NEW w \in Nat, w > 1, NEW v \in 0 .. 2 * w - 1
  PROVE  /\ v \div w = IF v < w THEN 0 ELSE 1
         /\ v % w = IF v < w THEN v ELSE v - w
<1>1. CASE v < w
  BY <1>1
<1>2. CASE v >= w
  <2>1. v = w * 1 + (v - w) /\ v - w \in 0 .. w - 1
    BY <1>2
  <2> QED BY <2>1, <1>2
<1> QED BY <1>1, <1>2

\* ChecksumCombine folds the carry in once, and once is enough: the result is a
\* word again, differs from the sum by nothing or by 2^16 - 1, which is zero in
\* ones' complement arithmetic, and is zero only if both words are.
THEOREM CombineIsOnesComplement ==
  ASSUME NEW x \in 0 .. Word - 1, NEW y \in 0 .. Word - 1
  PROVE  /\ ChecksumCombine(x, y) \in 0 .. Word - 1
         /\ x + y - ChecksumCombine(x, y) \in {0, Word - 1}
         /\ ChecksumCombine(x, y) = 0 => x = 0 /\ y = 0
<1> DEFINE w == Word
           v == x + y
<1>w. w \in Nat /\ w > 1
  BY WordType, Zenon
<1>v. v \in 0 .. 2 * w - 2 /\ x \in Nat /\ y \in Nat /\ v = x + y
  BY <1>w
<1>c. ChecksumCombine(x, y) = (v + (v \div w)) % w
  BY DEF ChecksumCombine
<1> HIDE DEF w, v
<1>d. \A u \in 0 .. 2 * w - 1 : /\ u \div w = IF u < w THEN 0 ELSE 1
                               /\ u % w = IF u < w THEN u ELSE u - w
  BY <1>w, DivideSum, Zenon
<1>m. v \in 0 .. 2 * w - 1 /\ v + 1 \in 0 .. 2 * w - 1
  BY <1>v, <1>w
<1>1. CASE v < w
  <2>1. v \div w = 0 /\ v % w = v
    BY <1>1, <1>d, <1>m
  <2>2. ChecksumCombine(x, y) = v
    BY <2>1, <1>c, <1>v
  <2> QED BY <2>2, <1>1, <1>v, <1>w DEF w
<1>2. CASE v >= w
  <2>0. ~(v < w) /\ ~(v + 1 < w)
    BY <1>2, <1>v, <1>w
  <2>1. v \div w = 1
    BY <2>0, <1>d, <1>m
  <2>2. (v + 1) % w = (v + 1) - w
    <3> DEFINE u == v + 1
    <3>1. u \in 0 .. 2 * w - 1 /\ ~(u < w)
      BY <2>0, <1>m
    <3>2. u % w = u - w
      <4> HIDE DEF u
      <4> QED BY <3>1, <1>d
    <3> QED BY <3>2
  <2>3. ChecksumCombine(x, y) = (v + 1) - w
    <3>1. ChecksumCombine(x, y) = (v + 1) % w
      BY <2>1, <1>c
    <3> QED BY <3>1, <2>2
  <2> QED BY <2>3, <1>2, <1>v, <1>w DEF w
<1> QED BY <1>1, <1>2, <1>v, <1>w

\* Numbers that are the same in ones' complement arithmetic.
Cong(x, y) == \E k \in Int : x = y + k * (Word - 1)

\* Transitivity, and what sums and complements keep.
LEMMA CongIs ==
  ASSUME NEW x \in Int, NEW y \in Int, NEW z \in Int, Cong(x, y)
  PROVE  /\ Cong(y, z) => Cong(x, z)
         /\ Cong(x + z, y + z)
         /\ Cong(y + (Word - 1) - x, 0)
<1> DEFINE M == Word - 1
<1>0. M \in Int
  BY WordType
<1>1. PICK k \in Int : x = y + k * M
  BY DEF Cong
<1>m. k * M \in Int
  BY <1>0
<1>2. ASSUME Cong(y, z) PROVE Cong(x, z)
  <2>1. PICK j \in Int : y = z + j * M
    BY <1>2 DEF Cong
  <2> HIDE DEF M
  <2>2. j * M \in Int /\ (j + k) * M = j * M + k * M
    BY <1>0
  <2>3. x = z + (j + k) * M /\ j + k \in Int
    BY <1>1, <1>m, <2>1, <2>2
  <2> QED BY <2>3 DEF Cong, M
<1>3. Cong(x + z, y + z)
  <2>1. x + z = (y + z) + k * M
    <3> HIDE DEF M
    <3> QED BY <1>1, <1>m
  <2> QED BY <2>1 DEF Cong
<1>4. Cong(y + (Word - 1) - x, 0)
  <2>1. y + M - x = 0 + (1 - k) * M /\ 1 - k \in Int
    <3> HIDE DEF M
    <3>1. (1 - k) * M = M - k * M
      BY <1>0
    <3> QED BY <1>0, <1>1, <1>m, <3>1
  <2> QED BY <2>1 DEF Cong
<1> QED BY <1>2, <1>3, <1>4

\* A sum that is zero in ones' complement arithmetic.
LEMMA CongZero ==
  ASSUME NEW s \in Nat, Cong(s, 0)
  PROVE  s % (Word - 1) = 0
<1> DEFINE M == Word - 1
<1>0. M \in Nat \ {0}
  BY WordType
<1>1. PICK k \in Int : s = 0 + k * M
  BY DEF Cong
<1> HIDE DEF M
<1>2. s = k * M + 0 /\ 0 \in 0 .. M - 1
  BY <1>0, <1>1
<1>3. s % M = 0
  BY <1>0, <1>2, DivUnique, Zenon
<1> QED BY <1>3 DEF M

\* A number of two words, divided by a word.
LEMMA TwoWords ==
  ASSUME NEW w \in Nat, w > 1, NEW n \in 0 .. w - 1, NEW v \in Nat, v <= (w - 1) + n * (w - 1)
  PROVE  /\ v % w \in 0 .. w - 1 /\ v \div w \in 0 .. w - 1
         /\ v = (v % w) + (v \div w) + (v \div w) * (w - 1)
<1> DEFINE q == v \div w
           r == v % w
<1>0. w \in Nat \ {0}
  OBVIOUS
<1>1. q \in Nat /\ r \in 0 .. w - 1 /\ v = q * w + r
  BY <1>0, DivIs, Zenon
<1> HIDE DEF q, r
<1>2. q * w = q + q * (w - 1) /\ q * w \in Nat
  BY <1>1
<1>3. q \in 0 .. w - 1
  <2> SUFFICES ASSUME q >= w PROVE FALSE
    BY <1>1
  <2>1. q * w >= w * w
    BY <1>1, SMT
  <2>2. w * w = w + w * (w - 1) /\ w * (w - 1) \in Nat
    BY SMT
  <2>3. n * (w - 1) <= (w - 1) * (w - 1) /\ n * (w - 1) \in Nat
    BY SMT
  <2>4. w * (w - 1) = (w - 1) * (w - 1) + (w - 1) /\ (w - 1) * (w - 1) \in Nat
    BY SMT
  <2>5. v <= w * (w - 1)
    BY <2>3, <2>4
  <2>6. v >= w * w
    BY <1>1, <1>2, <2>1
  <2> QED BY <2>2, <2>5, <2>6
<1>4. v = r + q + q * (w - 1)
  BY <1>1, <1>2
<1> QED BY <1>1, <1>3, <1>4 DEF q, r

\* The checksum of up to 2^16 - 1 bytes is the sum of their words, in ones'
\* complement arithmetic: a uint32 holds the sum, and folding it once is enough.
THEOREM ChecksumIsSum ==
  ASSUME NEW buf \in Seq(Byte), Len(buf) < Word, NEW initial \in 0 .. Word - 1
  PROVE  /\ Checksum(buf, initial) \in 0 .. Word - 1
         /\ Cong(Checksum(buf, initial), initial + Sum16(buf))
<1> DEFINE s == Sum16(buf)
           v == initial + s
           w == Word
           n == (Len(buf) + 1) \div 2
<1>1. w \in Nat /\ w > 1 /\ Len(buf) \in Nat
  BY WordType, LenProperties, Zenon
<1>2. s \in Nat /\ s <= n * (w - 1)
  BY Sum16Type
<1>3. n \in 0 .. w - 1
  <2>1. n \in Nat /\ 2 * n \in {Len(buf), Len(buf) + 1}
    BY <1>1, Halves
  <2> QED BY <1>1, <2>1
<1>4. Checksum(buf, initial) = ChecksumCombine(v % w, v \div w)
  BY DEF Checksum, Sum16
<1>i. initial \in 0 .. w - 1
  OBVIOUS
<1> HIDE DEF s, w, n
<1>5. v \in Nat /\ v <= (w - 1) + n * (w - 1)
  <2>1. n * (w - 1) \in Nat
    BY <1>1, <1>3
  <2> QED BY <1>1, <1>2, <1>i, <2>1
<1>6. /\ v % w \in 0 .. w - 1 /\ v \div w \in 0 .. w - 1
      /\ v = (v % w) + (v \div w) + (v \div w) * (w - 1)
  <2> HIDE DEF v
  <2> QED BY <1>1, <1>3, <1>5, TwoWords, Zenon
<1> DEFINE x == v % w
           y == v \div w
           c == ChecksumCombine(x, y)
<1>7. c \in 0 .. w - 1 /\ x + y - c \in {0, w - 1}
  <2> HIDE DEF x, y
  <2>1. x \in 0 .. Word - 1 /\ y \in 0 .. Word - 1
    BY <1>6 DEF x, y, w
  <2> QED BY <2>1, CombineIsOnesComplement DEF w
<1>8. x \in Nat /\ y \in Nat /\ v = x + y + y * (w - 1) /\ v \in Nat
  BY <1>5, <1>6
<1> HIDE DEF x, y, c, v
<1>9. y * (w - 1) \in Int
  BY <1>1, <1>8
<1>10. Cong(c, v)
  <2>1. CASE x + y - c = 0
    <3>1. c = v + (0 - y) * (w - 1) /\ 0 - y \in Int
      <4>1. (0 - y) * (w - 1) = 0 - y * (w - 1)
        BY <1>1, <1>8
      <4> QED BY <2>1, <4>1, <1>1, <1>7, <1>8, <1>9
    <3> QED BY <3>1 DEF Cong, w
  <2>2. CASE x + y - c = w - 1
    <3>1. c = v + (0 - y - 1) * (w - 1) /\ 0 - y - 1 \in Int
      <4>1. (0 - y - 1) * (w - 1) = 0 - y * (w - 1) - (w - 1)
        BY <1>1, <1>8
      <4> QED BY <2>2, <4>1, <1>1, <1>7, <1>8, <1>9
    <3> QED BY <3>1 DEF Cong, w
  <2> QED BY <1>7, <2>1, <2>2
<1>11. Checksum(buf, initial) = c
  BY <1>4 DEF c, x, y
<1> QED BY <1>7, <1>10, <1>11 DEF v, s, w

\* Every header is shorter than a word counts.
LEMMA WordBig == Word \in Int /\ Word > 68
BY WordType

\* The complement of a word is a word.
LEMMA ComplementType ==
  ASSUME NEW v \in 0 .. Word - 1
  PROVE  Complement(v) \in 0 .. Word - 1 /\ Complement(v) = (Word - 1) - v
<1>1. Word \in Nat
  BY WordType, Zenon
<1> QED BY <1>1 DEF Complement

\* Sums go on from part to part.
LEMMA ChecksumOn ==
  ASSUME NEW buf \in Seq(Byte), Len(buf) < Word, NEW c \in 0 .. Word - 1, NEW t \in Int, Cong(c, t)
  PROVE  /\ Checksum(buf, c) \in 0 .. Word - 1
         /\ t + Sum16(buf) \in Int
         /\ Cong(Checksum(buf, c), t + Sum16(buf))
<1> DEFINE d == Checksum(buf, c)
           s == Sum16(buf)
<1>1. d \in 0 .. Word - 1 /\ Cong(d, c + s)
  BY ChecksumIsSum
<1>2. s \in Int /\ c \in Int /\ d \in Int
  BY <1>1, Sum16Type
<1> HIDE DEF d, s
<1>3. Cong(c + s, t + s)
  BY <1>2, CongIs, Zenon
<1>4. c + s \in Int /\ t + s \in Int
  BY <1>2
<1>5. Cong(d, t + s)
  BY <1>1, <1>2, <1>3, <1>4, CongIs
<1> QED BY <1>1, <1>4, <1>5 DEF d, s

\* The sum of the pseudo header's words.
LEMMA PseudoSumIs ==
  ASSUME NEW proto \in Byte, NEW a \in Seq(Byte), Len(a) <= 4, NEW d \in Seq(Byte), Len(d) <= 4,
         NEW t, t = Sum16(a) + Sum16(d) + Sum16(<<0, proto>>)
  PROVE  /\ PseudoHeaderChecksum(proto, a, d) \in 0 .. Word - 1
         /\ t \in Int /\ Cong(PseudoHeaderChecksum(proto, a, d), t)
<1> DEFINE p == <<0, proto>>
           c1 == Checksum(a, 0)
           c2 == Checksum(d, c1)
           c3 == Checksum(p, c2)
<1>1. p \in Seq(Byte) /\ Len(p) = 2
  BY BaseType, PairIs
<1>2. PseudoHeaderChecksum(proto, a, d) = c3
  BY DEF PseudoHeaderChecksum
<1>3. t = Sum16(a) + Sum16(d) + Sum16(p)
  OBVIOUS
<1> HIDE DEF p
<1>4. Word > 4 /\ Word \in Nat
  BY WordType
<1>5. Len(a) < Word /\ Len(d) < Word /\ Len(p) < Word
  BY <1>1, <1>4, LenProperties
<1>6. 0 \in 0 .. Word - 1 /\ Cong(0, 0) /\ 0 \in Int
  <2>1. 0 = 0 + 0 * (Word - 1) /\ 0 \in Int
    BY <1>4
  <2> QED BY <2>1, <1>4 DEF Cong
<1> DEFINE s1 == Sum16(a)
           s2 == Sum16(d)
           s3 == Sum16(p)
<1>7. s1 \in Int /\ s2 \in Int /\ s3 \in Int
  BY <1>1, Sum16Type
<1>8. c1 \in 0 .. Word - 1 /\ 0 + s1 \in Int /\ Cong(c1, 0 + s1)
  BY <1>5, <1>6, ChecksumOn
<1> HIDE DEF c1, s1, s2, s3
<1>9. c2 \in 0 .. Word - 1 /\ (0 + s1) + s2 \in Int /\ Cong(c2, (0 + s1) + s2)
  BY <1>5, <1>8, ChecksumOn DEF s2
<1> HIDE DEF c2
<1>10. c3 \in 0 .. Word - 1 /\ ((0 + s1) + s2) + s3 \in Int /\ Cong(c3, ((0 + s1) + s2) + s3)
  BY <1>1, <1>5, <1>9, ChecksumOn, Zenon DEF s3
<1>11. ((0 + s1) + s2) + s3 = t
  BY <1>3, <1>7 DEF s1, s2, s3
<1> QED BY <1>2, <1>10, <1>11

\* A sum to which the complement of itself was added is zero.
LEMMA SumCancels ==
  ASSUME NEW a \in Int, NEW b \in Int, NEW c \in Int, NEW d \in Int,
         NEW x \in Int, NEW t, t = ((a + b) + c) + d, Cong(x, t),
         NEW k, k = (Word - 1) - x, NEW y, y = d - 0 + k, NEW r, r = a + c + y + b
  PROVE  Cong(r, 0)
<1>1. Word \in Int
  BY WordBig
<1>2. t \in Int
  OBVIOUS
<1>3. Cong(t + (Word - 1) - x, 0)
  BY <1>2, CongIs
<1>4. r = t + (Word - 1) - x
  BY <1>1
<1> QED BY <1>3, <1>4

\* The sum of a UDP packet and its pseudo header, once the complement of the
\* calculated checksum is in it, is zero.
LEMMA UDPSum ==
  ASSUME NEW proto \in Byte, NEW a \in Seq(Byte), Len(a) <= 4, NEW d \in Seq(Byte), Len(d) <= 4,
         NEW u \in Seq(Byte), Len(u) = 8, Pair(u, 7) = 0,
         NEW payload \in Seq(Byte), NEW len \in 0 .. Word - 1, Len(payload) < Word,
         NEW x, x = CalculateUDPChecksum(u, Checksum(payload, PseudoHeaderChecksum(proto, a, d)), len),
         NEW v, v = SetUDPChecksum(u, Complement(x))
  PROVE  /\ IsPutWord(v, u, 7, Complement(x))
         /\ Cong(Sum16(a) + Sum16(d) + Sum16(<<0, proto>>) + Sum16(PutUint(2, len))
                   + Sum16(v) + Sum16(payload), 0)
<1> DEFINE t1 == Sum16(a) + Sum16(d) + Sum16(<<0, proto>>)
           c1 == PseudoHeaderChecksum(proto, a, d)
           c2 == Checksum(payload, c1)
           l == PutUint(2, len)
           c3 == Checksum(l, c2)
           c4 == Checksum(u, c3)
           sp == Sum16(payload)
           sl == Sum16(l)
           su == Sum16(u)
<1>1. x = c4
  <2>1. At(u, 1, 8) = u
    BY SubSeqFull DEF At
  <2> QED BY <2>1 DEF CalculateUDPChecksum, UDPMinimumSize
<1>2. l \in Seq(Byte) /\ Len(l) = 2
  BY PutTwo
<1>4. c1 \in 0 .. Word - 1 /\ t1 \in Int /\ Cong(c1, t1)
  BY PseudoSumIs
<1>5. sp \in Int /\ sl \in Int /\ su \in Int
  BY <1>2, Sum16Type
<1> HIDE DEF t1, c1, l
<1>3. Len(l) < Word /\ Len(u) < Word
  <2>1. Word \in Int /\ Word > 68
    BY WordBig
  <2> QED BY <1>2, <2>1
<1>6. c2 \in 0 .. Word - 1 /\ t1 + sp \in Int /\ Cong(c2, t1 + sp)
  BY <1>4, ChecksumOn
<1> HIDE DEF c2, sp
<1>7. c3 \in 0 .. Word - 1 /\ (t1 + sp) + sl \in Int /\ Cong(c3, (t1 + sp) + sl)
  BY <1>2, <1>3, <1>6, ChecksumOn, Zenon
<1> HIDE DEF c3, sl
<1>8. c4 \in 0 .. Word - 1 /\ ((t1 + sp) + sl) + su \in Int /\ Cong(c4, ((t1 + sp) + sl) + su)
  BY <1>3, <1>7, ChecksumOn, Zenon
<1> HIDE DEF c4, su
<1>9. Complement(x) \in 0 .. Word - 1 /\ Complement(x) = (Word - 1) - x
  BY <1>1, <1>8, ComplementType
<1>10. IsPutWord(v, u, 7, Complement(x))
  <2>1. 7 \in 1 .. Len(u) - 1
    OBVIOUS
  <2> QED BY <1>9, <2>1, PutWord, Zenon DEF SetUDPChecksum
<1>11. Sum16(v) = su - 0 + Complement(x)
  <2>1. \E m \in Nat : 2 * m + 2 <= Len(u) /\ 2 * m + 1 = 7
    <3>1. 3 \in Nat /\ 2 * 3 + 2 <= Len(u) /\ 2 * 3 + 1 = 7
      OBVIOUS
    <3> QED BY <3>1
  <2>2. Sum16(v) = Sum16(u) - Pair(u, 7) + Complement(x)
    <3>1. PICK m \in Nat : 2 * m + 2 <= Len(u) /\ 2 * m + 1 = 7
      BY <2>1
    <3>2. IsPutWord(v, u, 2 * m + 1, Complement(x))
      BY <1>10, <3>1
    <3>3. Sum16(v) = Sum16(u) - Pair(u, 2 * m + 1) + Complement(x)
      BY <3>1, <3>2, Sum16Put, Zenon
    <3> QED BY <3>1, <3>3
  <2> QED BY <2>2 DEF su
<1> DEFINE t == ((t1 + sp) + sl) + su
           k == Complement(x)
           y == Sum16(v)
           r == t1 + sl + y + sp
<1>12. x \in Int /\ Cong(x, t)
  BY <1>1, <1>8
<1>13. k = (Word - 1) - x /\ y = su - 0 + k
  BY <1>9, <1>11
<1>14. t = ((t1 + sp) + sl) + su /\ r = t1 + sl + y + sp
  OBVIOUS
<1>15. t1 \in Int /\ sp \in Int /\ sl \in Int /\ su \in Int
  BY <1>4, <1>5
<1> HIDE DEF t, k, y, r
<1>16. Cong(r, 0)
  BY <1>12, <1>13, <1>14, <1>15, SumCancels, Zenon
<1> QED BY <1>10, <1>16 DEF r, y, t1, sl, sp, l

------------------------------------------------------------------------------
(* The draft *)

\* SetSourcePort changes its word alone.
LEMMA SetSourcePortHolds ==
  ASSUME NEW w \in DraftFields, NEW u, HoldsUDP(u, w), NEW v \in Uint16
  PROVE  LET x == [w EXCEPT !.srcPort = v] IN x \in DraftFields /\ HoldsUDP(SetSourcePort(u, v), x)
<1> DEFINE x == [w EXCEPT !.srcPort = v]
           c == SetSourcePort(u, v)
<1>1. x.dstPort = w.dstPort /\ x.length = w.length /\ x.checksum = w.checksum /\ x.srcPort = v
  BY DEF DraftFields
<1>2. x \in DraftFields
  BY Zenon DEF DraftFields
<1>3. IsPutWord(c, u, 1, v)
  <2>1. u \in Seq(Byte) /\ 1 \in 1 .. Len(u) - 1
    BY DEF HoldsUDP
  <2>2. v \in 0 .. Word - 1
    BY DEF Uint16
  <2> QED BY <2>1, <2>2, PutWord DEF SetSourcePort
<1> HIDE DEF c, x
<1>4. c \in Seq(Byte) /\ Len(c) = 8 /\ Pair(c, 1) = v
  BY <1>3 DEF IsPutWord, Pair, HoldsUDP
<1>5. \A k \in 3 .. 8 : c[k] = u[k]
  BY <1>3 DEF IsPutWord, HoldsUDP
<1>6. Pair(c, 3) = Pair(u, 3) /\ Pair(c, 5) = Pair(u, 5) /\ Pair(c, 7) = Pair(u, 7)
  BY <1>5 DEF Pair
<1>7. HoldsUDP(c, x)
  BY <1>1, <1>4, <1>6 DEF HoldsUDP
<1> QED BY <1>2, <1>7 DEF c, x

\* SetDestinationPort changes its word alone.
LEMMA SetDestinationPortHolds ==
  ASSUME NEW w \in DraftFields, NEW u, HoldsUDP(u, w), NEW v \in Uint16
  PROVE  LET x == [w EXCEPT !.dstPort = v]
         IN x \in DraftFields /\ HoldsUDP(SetDestinationPort(u, v), x)
<1> DEFINE x == [w EXCEPT !.dstPort = v]
           c == SetDestinationPort(u, v)
<1>1. x.srcPort = w.srcPort /\ x.length = w.length /\ x.checksum = w.checksum /\ x.dstPort = v
  BY DEF DraftFields
<1>2. x \in DraftFields
  BY DEF DraftFields
<1>3. IsPutWord(c, u, 3, v)
  <2>1. u \in Seq(Byte) /\ 3 \in 1 .. Len(u) - 1
    BY DEF HoldsUDP
  <2>2. v \in 0 .. Word - 1
    BY DEF Uint16
  <2> QED BY <2>1, <2>2, PutWord DEF SetDestinationPort
<1> HIDE DEF c, x
<1>4. c \in Seq(Byte) /\ Len(c) = 8 /\ Pair(c, 3) = v
  BY <1>3 DEF IsPutWord, Pair, HoldsUDP
<1>5. \A k \in {1, 2, 5, 6, 7, 8} : c[k] = u[k]
  BY <1>3 DEF IsPutWord, HoldsUDP
<1>6. Pair(c, 1) = Pair(u, 1) /\ Pair(c, 5) = Pair(u, 5) /\ Pair(c, 7) = Pair(u, 7)
  BY <1>5 DEF Pair
<1>7. HoldsUDP(c, x)
  BY <1>1, <1>4, <1>6 DEF HoldsUDP
<1> QED BY <1>2, <1>7 DEF c, x

\* d is the headers of fields w, whose lengths are those of the packet.
IsDraft(d, w) ==
  /\ w \in DraftFields
  /\ w.length = 8 + Len(w.payload)
  /\ w.ihl + w.length \in Uint16
  /\ HoldsIP(d.ip, w)
  /\ HoldsUDP(d.udp, w)

\* The 4-byte form of an address, if it has one.
LEMMA To4Type ==
  ASSUME NEW ip \in Seq(Byte)
  PROVE  /\ To4(ip) \in Seq(Byte)
         /\ To4(ip) = Nil \/ Len(To4(ip)) = 4
         /\ Len(To4(ip)) <= 4
         /\ Len(ip) = 4 => To4(ip) = ip
<1>0. IPv4len = 4 /\ Len(V4InV6Prefix) \in Nat /\ Nil \in Seq(Byte) /\ Len(Nil) = 0
  <2>1. Nil \in Seq(Byte) /\ Len(Nil) = 0
    BY DEF Nil
  <2> QED BY <2>1, HeadersAssumption, AddressBytesAssumption, LenProperties
<1>1. CASE Len(ip) = 4
  <2>1. To4(ip) = ip
    BY <1>0, <1>1 DEF To4
  <2>2. Len(To4(ip)) = 4 /\ 4 <= 4 /\ To4(ip) \in Seq(Byte)
    BY <1>1, <2>1
  <2> QED BY <2>1, <2>2
<1>2. CASE Len(ip) # 4 /\ Len(ip) = Len(V4InV6Prefix) + 4 /\ SubSeq(ip, 1, Len(V4InV6Prefix)) = V4InV6Prefix
  <2> DEFINE p == Len(V4InV6Prefix)
             x == SubSeq(ip, p + 1, Len(ip))
  <2>1. To4(ip) = x
    BY <1>0, <1>2 DEF To4
  <2>2. p \in Nat /\ Len(ip) = p + 4 /\ p + 1 \in 1 .. Len(ip) + 1 /\ Len(ip) \in p .. Len(ip)
    BY <1>0, <1>2
  <2> HIDE DEF p
  <2>3. x \in Seq(Byte) /\ Len(x) = 4
    <3>1. \A i \in p + 1 .. Len(ip) : ip[i] \in Byte
      BY <2>2, ElementOfSeq, LenProperties
    <3>2. x = [k \in 1 .. 4 |-> ip[p + k]]
      BY <2>2 DEF SubSeq
    <3>3. \A k \in 1 .. 4 : p + k \in p + 1 .. Len(ip)
      BY <2>2
    <3>4. x \in [1 .. 4 -> Byte] /\ 4 \in Nat
      BY <3>1, <3>2, <3>3, Zenon
    <3> QED BY <3>4, ArrayIsSeq, Zenon
  <2> QED BY <1>2, <2>1, <2>3
<1>3. CASE Len(ip) # 4 /\ ~(Len(ip) = Len(V4InV6Prefix) + 4 /\ SubSeq(ip, 1, Len(V4InV6Prefix)) = V4InV6Prefix)
  BY <1>0, <1>3 DEF To4
<1> QED BY <1>1, <1>2, <1>3

------------------------------------------------------------------------------
(* The headers of a packet *)

\* What a receiver looks for in an IPv4 header.
IsIPHdr(b, h, total, proto, src, dst) ==
  /\ b \in Seq(Byte) /\ Len(b) = h /\ h \in HeaderLengths
  /\ b[1] = 4 * 16 + (h \div 4)
  /\ Pair(b, 3) = total
  /\ Protocol(b) = proto /\ SourceAddress(b) = src /\ DestinationAddress(b) = dst

\* An encoded header is one.
LEMMA HoldsIsHdr ==
  ASSUME NEW i, IPFields(i), NEW b, HoldsIP(b, i)
  PROVE  IsIPHdr(b, i.ihl, i.totalLength, i.protocol, Copied(4, i.srcAddr), Copied(4, i.dstAddr))
<1>1. GetIP(b, i)
  BY GettersIP
<1>2. /\ Protocol(b) = i.protocol /\ SourceAddress(b) = Copied(4, i.srcAddr)
      /\ DestinationAddress(b) = Copied(4, i.dstAddr)
  BY <1>1 DEF GetIP
<1> QED BY <1>2 DEF IsIPHdr, HoldsIP, IPFields

\* A header has room for its fields, and an even length.
LEMMA HdrLength ==
  ASSUME NEW h \in HeaderLengths
  PROVE  h \in Nat /\ h >= 20 /\ h <= 60 /\ \E m \in Nat : h = 2 * m
<1>1. h \in 20 .. 60 /\ \E m \in 10 .. 30 : h = 2 * m
  BY FirstByte
<1> QED BY <1>1

\* The bytes of a header that are not written keep its addresses.
LEMMA SameAddresses ==
  ASSUME NEW b \in Seq(Byte), NEW c \in Seq(Byte), Len(b) >= 20, Len(c) = Len(b),
         \A k \in 13 .. 20 : c[k] = b[k]
  PROVE  SourceAddress(c) = SourceAddress(b) /\ DestinationAddress(c) = DestinationAddress(b)
<1>0. IPv4len = 4 /\ 4 \in Nat /\ Len(b) \in Nat
  BY HeadersAssumption, LenProperties
<1>1. ASSUME NEW at \in {13, 17} PROVE At(c, at, IPv4len) = At(b, at, IPv4len)
  <2> DEFINE a == At(b, at, 4)
  <2>1. at \in Nat \ {0} /\ at + 4 - 1 <= Len(b) /\ at + 3 <= Len(c)
    BY <1>0
  <2>2. a \in Seq(Byte) /\ Len(a) = 4 /\ \A k \in 1 .. 4 : a[k] = b[at - 1 + k]
    BY <1>0, <2>1, AtIs, Zenon
  <2> HIDE DEF a
  <2>3. \A k \in 1 .. 4 : at - 1 + k \in 13 .. 20
    OBVIOUS
  <2>4. \A k \in 1 .. 4 : c[at - 1 + k] = a[k]
    BY <2>2, <2>3
  <2>5. At(c, at, IPv4len) = a
    BY <2>1, <2>2, <2>4, AddressAt, Zenon
  <2> QED BY <1>0, <2>5 DEF a
<1> QED BY <1>1 DEF SourceAddress, DestinationAddress

\* SetIPChecksum changes the checksum alone.
LEMMA ChecksumHdr ==
  ASSUME NEW b, NEW h, NEW total, NEW proto, NEW src, NEW dst,
         IsIPHdr(b, h, total, proto, src, dst), NEW v \in 0 .. Word - 1
  PROVE  /\ IsPutWord(SetIPChecksum(b, v), b, 11, v)
         /\ IsIPHdr(SetIPChecksum(b, v), h, total, proto, src, dst)
<1> DEFINE c == SetIPChecksum(b, v)
<1>0. b \in Seq(Byte) /\ Len(b) = h /\ h \in Nat /\ h >= 20
  BY HdrLength DEF IsIPHdr
<1>1. IsPutWord(c, b, 11, v)
  <2>1. 11 \in 1 .. Len(b) - 1
    BY <1>0
  <2> QED BY <1>0, <2>1, PutWord DEF SetIPChecksum
<1> HIDE DEF c
<1>2. c \in Seq(Byte) /\ Len(c) = Len(b)
  BY <1>1 DEF IsPutWord
<1>3. \A k \in 1 .. 20 : k \notin {11, 12} => c[k] = b[k]
  BY <1>0, <1>1 DEF IsPutWord
<1>4. c[1] = b[1] /\ c[10] = b[10] /\ Pair(c, 3) = Pair(b, 3)
  BY <1>3 DEF Pair
<1>5. SourceAddress(c) = SourceAddress(b) /\ DestinationAddress(c) = DestinationAddress(b)
  <2>1. \A k \in 13 .. 20 : c[k] = b[k]
    BY <1>3
  <2> QED BY <1>0, <1>2, <2>1, SameAddresses
<1>6. IsIPHdr(c, h, total, proto, src, dst)
  BY <1>0, <1>2, <1>4, <1>5 DEF IsIPHdr, Protocol
<1> QED BY <1>1, <1>6 DEF c

\* SetTotalLength changes the total length alone.
LEMMA TotalHdr ==
  ASSUME NEW b, NEW h, NEW total, NEW proto, NEW src, NEW dst,
         IsIPHdr(b, h, total, proto, src, dst), NEW v \in 0 .. Word - 1
  PROVE  /\ IsPutWord(SetTotalLength(b, v), b, 3, v)
         /\ IsIPHdr(SetTotalLength(b, v), h, v, proto, src, dst)
         /\ Pair(SetTotalLength(b, v), 11) = Pair(b, 11)
<1> DEFINE c == SetTotalLength(b, v)
<1>0. b \in Seq(Byte) /\ Len(b) = h /\ h \in Nat /\ h >= 20
  BY HdrLength DEF IsIPHdr
<1>1. IsPutWord(c, b, 3, v)
  <2>1. 3 \in 1 .. Len(b) - 1
    BY <1>0
  <2> QED BY <1>0, <2>1, PutWord DEF SetTotalLength
<1> HIDE DEF c
<1>2. c \in Seq(Byte) /\ Len(c) = Len(b) /\ Pair(c, 3) = v
  BY <1>1 DEF IsPutWord, Pair
<1>3. \A k \in 1 .. 20 : k \notin {3, 4} => c[k] = b[k]
  BY <1>0, <1>1 DEF IsPutWord
<1>4. c[1] = b[1] /\ c[10] = b[10] /\ Pair(c, 11) = Pair(b, 11)
  BY <1>3 DEF Pair
<1>5. SourceAddress(c) = SourceAddress(b) /\ DestinationAddress(c) = DestinationAddress(b)
  <2>1. \A k \in 13 .. 20 : c[k] = b[k]
    BY <1>3
  <2> QED BY <1>0, <1>2, <2>1, SameAddresses
<1>6. IsIPHdr(c, h, v, proto, src, dst)
  BY <1>0, <1>2, <1>4, <1>5 DEF IsIPHdr, Protocol
<1> QED BY <1>1, <1>4, <1>6 DEF c

\* An even place of a sequence of words.
LEMMA Sum16Word ==
  ASSUME NEW b \in Seq(Byte), NEW at \in {3, 11}, Len(b) >= 20, NEW c, NEW v, IsPutWord(c, b, at, v)
  PROVE  Sum16(c) = Sum16(b) - Pair(b, at) + v
<1>1. PICK m \in {1, 5} : at = 2 * m + 1
  OBVIOUS
<1>2. m \in Nat /\ 2 * m + 2 <= Len(b)
  BY LenProperties
<1>3. IsPutWord(c, b, 2 * m + 1, v)
  BY <1>1
<1>4. Sum16(c) = Sum16(b) - Pair(b, 2 * m + 1) + v
  BY <1>2, <1>3, Sum16Put
<1> QED BY <1>1, <1>4

\* The word at a place of a header is one.
LEMMA PairType ==
  ASSUME NEW b \in Seq(Byte), NEW at \in Nat \ {0}, at + 1 <= Len(b)
  PROVE  Pair(b, at) \in 0 .. Word - 1 /\ Uint16At(b, at) = Pair(b, at)
<1>1. at \in 1 .. Len(b) - 1
  BY LenProperties
<1> QED BY <1>1, WordAt DEF Pair

\* The checksum that udp4pkt puts into an IPv4 header makes its sum zero.
LEMMA CalculatedIPSum ==
  ASSUME NEW b, NEW h, NEW total, NEW proto, NEW src, NEW dst,
         IsIPHdr(b, h, total, proto, src, dst), Pair(b, 11) = 0,
         NEW c, c = SetIPChecksum(b, Complement(CalculateIPChecksum(b)))
  PROVE  IsIPHdr(c, h, total, proto, src, dst) /\ Cong(Sum16(c), 0)
<1> DEFINE x == CalculateIPChecksum(b)
           s == Sum16(b)
<1>0. b \in Seq(Byte) /\ Len(b) = h /\ h \in Nat /\ h >= 20 /\ h <= 60
  BY HdrLength DEF IsIPHdr
<1>1. HeaderLength(b) = h
  BY FirstByte DEF IsIPHdr, HeaderLength
<1>2. At(b, 1, h) = b
  <2>1. 1 + h - 1 = Len(b)
    BY <1>0
  <2> QED BY <1>0, <2>1, SubSeqFull DEF At
<1>3. x = Checksum(b, 0)
  BY <1>1, <1>2 DEF CalculateIPChecksum
<1>4. Word \in Int /\ Word > 68
  BY WordBig
<1>5. x \in 0 .. Word - 1 /\ Cong(x, 0 + s)
  <2>1. Len(b) < Word /\ 0 \in 0 .. Word - 1
    BY <1>0, <1>4
  <2> QED BY <1>0, <1>3, <2>1, ChecksumIsSum
<1>6. s \in Int
  BY <1>0, Sum16Type
<1> HIDE DEF x, s
<1>7. Complement(x) \in 0 .. Word - 1 /\ Complement(x) = (Word - 1) - x
  BY <1>5, ComplementType
<1> DEFINE k == Complement(x)
<1>8. c = SetIPChecksum(b, k)
  BY DEF x
<1>9. k \in 0 .. Word - 1 /\ k = (Word - 1) - x
  BY <1>7
<1> HIDE DEF k
<1>10. IsPutWord(c, b, 11, k) /\ IsIPHdr(c, h, total, proto, src, dst)
  BY <1>8, <1>9, ChecksumHdr
<1>11. Sum16(c) = s - 0 + k
  <2>1. 11 \in {3, 11} /\ Len(b) >= 20
    BY <1>0
  <2>2. Sum16(c) = Sum16(b) - Pair(b, 11) + k
    BY <1>0, <1>10, <2>1, Sum16Word
  <2> QED BY <2>2 DEF s
<1>12. 0 + s = s /\ x \in Int
  BY <1>4, <1>5, <1>6
<1>13. Cong(s + (Word - 1) - x, 0)
  BY <1>5, <1>6, <1>12, CongIs
<1>14. s + (Word - 1) - x = s - 0 + k
  BY <1>4, <1>6, <1>9, <1>12
<1> QED BY <1>10, <1>11, <1>13, <1>14

\* A header of which a word was set again, and another one was, has the sum of
\* the words that were set instead of the earlier ones.
LEMMA TwoSet ==
  ASSUME NEW s \in Int, NEW p \in Int, NEW q \in Int, NEW t \in Int, NEW x \in Int, NEW k,
         k = (Word - 1) - x, NEW z, z = (s - p + 0) - q + 0, Cong(x, (0 + z) + t),
         NEW r, r = (s - p + t) - q + k
  PROVE  Cong(r, 0)
<1> DEFINE y == (0 + z) + t
<1>1. Word \in Int
  BY WordBig
<1>2. y \in Int /\ Cong(x, y)
  OBVIOUS
<1>3. y = s - p - q + t
  OBVIOUS
<1> HIDE DEF y
<1>4. Cong(y + (Word - 1) - x, 0)
  BY <1>2, CongIs
<1>5. r = y + (Word - 1) - x
  BY <1>1, <1>2, <1>3
<1> QED BY <1>4, <1>5

------------------------------------------------------------------------------
(* Packets *)

\* The checksum that EncodePartial puts into an IPv4 header, calculated from the
\* one of the header without its total length, makes its sum zero.
LEMMA PartialIPSum ==
  ASSUME NEW b, NEW h, NEW old, NEW proto, NEW src, NEW dst,
         IsIPHdr(b, h, old, proto, src, dst), NEW total \in 0 .. Word - 1,
         NEW c, c = EncodePartial(b, partialChecksum(b), total)
  PROVE  IsIPHdr(c, h, total, proto, src, dst) /\ Cong(Sum16(c), 0)
<1> DEFINE z1 == SetTotalLength(b, 0)
           z == SetIPChecksum(z1, 0)
           y == Checksum(z, 0)
           b1 == SetTotalLength(b, total)
           len == At(b1, 3, 2)
           x == Checksum(len, y)
           k == Complement(x)
           s == Sum16(b)
           p == Pair(b, 3)
           q == Pair(b, 11)
<1>w. Word \in Int /\ Word > 68 /\ 0 \in 0 .. Word - 1
  BY WordBig
<1>0. b \in Seq(Byte) /\ Len(b) = h /\ h \in Nat /\ h >= 20 /\ h <= 60
  BY HdrLength DEF IsIPHdr
<1>c. c = SetIPChecksum(b1, k) /\ partialChecksum(b) = y
  BY DEF EncodePartial, partialChecksum
<1>t. s \in Int /\ p \in Int /\ q \in Int /\ total \in Int
  <2>1. 3 + 1 <= Len(b) /\ 11 + 1 <= Len(b) /\ 3 \in Nat \ {0} /\ 11 \in Nat \ {0}
    BY <1>0
  <2>2. p \in 0 .. Word - 1 /\ q \in 0 .. Word - 1
    BY <1>0, <2>1, PairType
  <2>3. s \in Nat
    BY <1>0, Sum16Type
  <2> HIDE DEF s, p, q
  <2> QED BY <1>w, <2>2, <2>3
<1>1. IsPutWord(z1, b, 3, 0) /\ IsIPHdr(z1, h, 0, proto, src, dst) /\ Pair(z1, 11) = q
  BY <1>w, TotalHdr
<1>2. IsPutWord(b1, b, 3, total) /\ IsIPHdr(b1, h, total, proto, src, dst) /\ Pair(b1, 11) = q
  BY TotalHdr
<1> HIDE DEF z1, b1
<1>3. IsPutWord(z, z1, 11, 0) /\ IsIPHdr(z, h, 0, proto, src, dst)
  BY <1>w, <1>1, ChecksumHdr
<1>4. z1 \in Seq(Byte) /\ Len(z1) = h /\ b1 \in Seq(Byte) /\ Len(b1) = h /\ Pair(b1, 3) = total
  BY <1>1, <1>2 DEF IsIPHdr
<1> HIDE DEF z
<1>5. z \in Seq(Byte) /\ Len(z) = h
  BY <1>3 DEF IsIPHdr
<1>6. Sum16(z1) = s - p + 0 /\ Sum16(b1) = s - p + total
  BY <1>0, <1>1, <1>2, Sum16Word
<1>7. Sum16(z) = Sum16(z1) - q + 0
  BY <1>0, <1>1, <1>3, <1>4, Sum16Word
<1>8. y \in 0 .. Word - 1 /\ Cong(y, 0 + Sum16(z))
  <2>1. Len(z) < Word
    BY <1>0, <1>5, <1>w
  <2> QED BY <1>5, <1>w, <2>1, ChecksumIsSum
<1> HIDE DEF y
<1>9. len \in Seq(Byte) /\ Len(len) = 2 /\ Sum16(len) = total
  <2>1. 3 \in Nat \ {0} /\ 2 \in Nat /\ 3 + 2 - 1 <= Len(b1)
    BY <1>0, <1>4
  <2>2. len \in Seq(Byte) /\ Len(len) = 2 /\ \A j \in 1 .. 2 : len[j] = b1[3 - 1 + j]
    BY <1>4, <2>1, AtIs, Zenon
  <2>3. len[1] = b1[3] /\ len[2] = b1[4]
    BY <2>2
  <2> HIDE DEF len
  <2>4. Sum16(len) = Pair(len, 1)
    BY <2>2, Sum16Small
  <2>5. Pair(len, 1) = Pair(b1, 3)
    BY <2>3 DEF Pair
  <2> QED BY <1>4, <2>2, <2>4, <2>5
<1> HIDE DEF len
<1>10. x \in 0 .. Word - 1 /\ Cong(x, (0 + Sum16(z)) + total)
  <2>1. Len(len) < Word
    BY <1>9, <1>w
  <2>2. Sum16(z) \in Nat
    BY <1>5, Sum16Type
  <2>3. 0 + Sum16(z) \in Int
    BY <2>2
  <2>4. x \in 0 .. Word - 1 /\ Cong(x, (0 + Sum16(z)) + Sum16(len))
    BY <1>8, <1>9, <2>1, <2>3, ChecksumOn, Zenon
  <2> QED BY <1>9, <2>4
<1> HIDE DEF x
<1>11. k \in 0 .. Word - 1 /\ k = (Word - 1) - x
  BY <1>10, ComplementType
<1> HIDE DEF k
<1>12. IsPutWord(c, b1, 11, k) /\ IsIPHdr(c, h, total, proto, src, dst)
  BY <1>c, <1>2, <1>11, ChecksumHdr
<1>13. Sum16(c) = Sum16(b1) - q + k
  BY <1>0, <1>2, <1>4, <1>12, Sum16Word
<1> DEFINE r == Sum16(c)
           sz == Sum16(z)
<1>14. r = (s - p + total) - q + k /\ sz = (s - p + 0) - q + 0
  BY <1>6, <1>7, <1>13
<1>15. Cong(x, (0 + sz) + total) /\ x \in Int
  BY <1>10, <1>w
<1> HIDE DEF r, sz, s, p, q
<1>16. Cong(r, 0)
  BY <1>t, <1>11, <1>14, <1>15, TwoSet, Zenon
<1> QED BY <1>12, <1>16 DEF r

\* c is s before t, and can be taken apart again.
IsJoin(c, s, t, m, n) ==
  c \in Seq(Byte) /\ Len(c) = m + n /\ SubSeq(c, 1, m) = s /\ SubSeq(c, m + 1, Len(c)) = t

\* A concatenation is that.
LEMMA JoinParts ==
  ASSUME NEW s \in Seq(Byte), NEW t \in Seq(Byte)
  PROVE  IsJoin(s \o t, s, t, Len(s), Len(t))
<1>1. s \o t \in Seq(Byte) /\ Len(s \o t) = Len(s) + Len(t)
  BY PartsOfCat
<1>2. SubSeq(s \o t, 1, Len(s)) = s
  BY PartsOfCat
<1>3. SubSeq(s \o t, Len(s) + 1, Len(s \o t)) = t
  BY PartsOfCat
<1> DEFINE c == s \o t
<1>4. c \in Seq(Byte) /\ Len(c) = Len(s) + Len(t) /\ SubSeq(c, 1, Len(s)) = s
      /\ SubSeq(c, Len(s) + 1, Len(c)) = t
  BY <1>1, <1>2, <1>3
<1> HIDE DEF c
<1>5. IsJoin(c, s, t, Len(s), Len(t))
  BY <1>4 DEF IsJoin
<1> QED BY <1>5 DEF c

\* The same, the lengths given.
LEMMA JoinIs ==
  ASSUME NEW s \in Seq(Byte), NEW t \in Seq(Byte), NEW m, Len(s) = m, NEW n, Len(t) = n
  PROVE  IsJoin(s \o t, s, t, m, n)
BY JoinParts

\* pkt is an IPv4 header b before t.
IsPacket(pkt, b, t) ==
  /\ pkt \in Seq(Byte) /\ pkt # <<>> /\ Len(pkt) = Len(b) + Len(t)
  /\ HeaderLength(pkt) = Len(b)
  /\ ipHdr(pkt) = b /\ AfterIP(pkt) = t
  /\ TotalLength(pkt) = Pair(b, 3)

\* The parts that ReadFrom and a receiver take a packet apart into are those it
\* was made of.
LEMMA PacketIs ==
  ASSUME NEW b, NEW h, NEW total, NEW proto, NEW src, NEW dst,
         IsIPHdr(b, h, total, proto, src, dst), NEW t \in Seq(Byte)
  PROVE  IsPacket(b \o t, b, t)
<1> DEFINE c == b \o t
           n == Len(t)
<1>0. b \in Seq(Byte) /\ Len(b) = h /\ h \in Nat /\ h >= 20 /\ n \in Nat
  BY HdrLength, LenProperties DEF IsIPHdr
<1>j. IsJoin(c, b, t, h, n) /\ IsCat(c, b, t, h, n)
  BY <1>0, JoinIs, CatIs
<1> HIDE DEF c, n
<1>1. /\ c \in Seq(Byte) /\ Len(c) = Len(b) + n
      /\ SubSeq(c, 1, Len(b)) = b /\ SubSeq(c, Len(b) + 1, Len(c)) = t
  BY <1>0, <1>j DEF IsJoin
<1>3. \A k \in 1 .. 20 : c[k] = b[k]
  <2>1. \A k \in 1 .. h : c[k] = b[k]
    BY <1>j DEF IsCat
  <2>2. \A k \in 1 .. 20 : k \in 1 .. h
    BY <1>0
  <2> QED BY <2>1, <2>2, Zenon
<1>4. c # <<>>
  BY <1>0, <1>1
<1>5. HeaderLength(c) = h
  <2>1. c[1] = b[1]
    BY <1>3
  <2> QED BY <2>1, FirstByte DEF IsIPHdr, HeaderLength
<1>6. ipHdr(c) = b /\ AfterIP(c) = t
  BY <1>0, <1>1, <1>5 DEF ipHdr, AfterIP
<1>7. TotalLength(c) = Pair(b, 3)
  <2>1. 3 \in Nat \ {0} /\ 3 + 1 <= Len(c)
    BY <1>0, <1>1
  <2>2. TotalLength(c) = Pair(c, 3)
    BY <1>1, <2>1, PairType DEF TotalLength
  <2>3. Pair(c, 3) = Pair(b, 3)
    BY <1>3 DEF Pair
  <2> QED BY <2>2, <2>3
<1>8. IsPacket(c, b, t)
  BY <1>0, <1>1, <1>4, <1>5, <1>6, <1>7 DEF IsPacket, n
<1> QED BY <1>8 DEF c

\* The fields of a UDP header are those of the packet that it begins.
LEMMA DatagramIs ==
  ASSUME NEW u \in Seq(Byte), Len(u) = 8, NEW p \in Seq(Byte)
  PROVE  /\ u \o p \in Seq(Byte) /\ Len(u \o p) = 8 + Len(p)
         /\ UDPPayload(u \o p) = p
         /\ DestinationPort(u \o p) = Pair(u, 3)
         /\ Length(u \o p) = Pair(u, 5)
<1> DEFINE c == u \o p
           n == Len(p)
<1>0. n \in Nat
  BY LenProperties
<1>j. IsJoin(c, u, p, 8, n)
  BY JoinIs, Zenon
<1>2. IsCat(c, u, p, 8, n)
  BY CatIs, Zenon
<1> HIDE DEF c
<1>1. c \in Seq(Byte) /\ Len(c) = 8 + n /\ SubSeq(c, 8 + 1, Len(c)) = p
  BY <1>j DEF IsJoin
<1>3. \A k \in 1 .. 8 : c[k] = u[k]
  BY <1>2 DEF IsCat
<1>4. UDPPayload(c) = p
  BY <1>1 DEF UDPPayload, UDPMinimumSize
<1>5. \A at \in {3, 5} : Uint16At(c, at) = Pair(c, at)
  <2>1. \A at \in {3, 5} : at \in Nat \ {0} /\ at + 1 <= Len(c)
    BY <1>0, <1>1
  <2> QED BY <1>1, <2>1, PairType
<1>6. Pair(c, 3) = Pair(u, 3) /\ Pair(c, 5) = Pair(u, 5)
  BY <1>3 DEF Pair
<1>7. DestinationPort(c) = Pair(u, 3) /\ Length(c) = Pair(u, 5)
  BY <1>5, <1>6 DEF DestinationPort, Length
<1>8. c \in Seq(Byte) /\ Len(c) = 8 + n /\ UDPPayload(c) = p
      /\ DestinationPort(c) = Pair(u, 3) /\ Length(c) = Pair(u, 5)
  BY <1>1, <1>4, <1>7
<1> QED BY <1>8 DEF c

\* The sum of a datagram and its pseudo header is that of their parts.
LEMMA PseudoSum ==
  ASSUME NEW ip, NEW src \in Seq(Byte), Len(src) = 4, NEW dst \in Seq(Byte), Len(dst) = 4,
         NEW proto \in Byte, SourceAddress(ip) = src, DestinationAddress(ip) = dst,
         Protocol(ip) = proto, NEW t \in Seq(Byte), NEW len \in 0 .. Word - 1, Len(t) = len
  PROVE  Sum16(PseudoHeader(ip, t) \o t)
           = Sum16(src) + Sum16(dst) + Sum16(<<0, proto>>) + Sum16(PutUint(2, len)) + Sum16(t)
<1> DEFINE p == <<0, proto>>
           l == PutUint(2, len)
           a2 == src \o dst
           a3 == a2 \o p
           a4 == a3 \o l
<1>1. p \in Seq(Byte) /\ Len(p) = 2
  BY BaseType, PairIs
<1>2. l \in Seq(Byte) /\ Len(l) = 2
  BY PutTwo
<1>3. PseudoHeader(ip, t) = a4
  BY DEF PseudoHeader
<1> HIDE DEF p, l
<1>4. a2 \in Seq(Byte) /\ Len(a2) = 8
  <2>1. IsCat(a2, src, dst, 4, 4)
    BY CatIs, Zenon
  <2> HIDE DEF a2
  <2> QED BY <2>1 DEF IsCat
<1>5. Sum16(a2) = Sum16(src) + Sum16(dst)
  <2>1. 2 \in Nat /\ Len(src) = 2 * 2
    OBVIOUS
  <2> QED BY <2>1, Sum16Cat, Zenon
<1> HIDE DEF a2
<1>6. a3 \in Seq(Byte) /\ Len(a3) = 10
  <2>1. IsCat(a3, a2, p, 8, 2)
    BY <1>1, <1>4, CatIs, Zenon
  <2> HIDE DEF a3
  <2> QED BY <2>1 DEF IsCat
<1>7. Sum16(a3) = Sum16(a2) + Sum16(p)
  <2>1. 4 \in Nat /\ Len(a2) = 2 * 4
    BY <1>4
  <2> QED BY <1>1, <1>4, <2>1, Sum16Cat, Zenon
<1> HIDE DEF a3
<1>8. a4 \in Seq(Byte) /\ Len(a4) = 12
  <2>1. IsCat(a4, a3, l, 10, 2)
    BY <1>2, <1>6, CatIs, Zenon
  <2> HIDE DEF a4
  <2> QED BY <2>1 DEF IsCat
<1>9. Sum16(a4) = Sum16(a3) + Sum16(l)
  <2>1. 5 \in Nat /\ Len(a3) = 2 * 5
    BY <1>6
  <2> QED BY <1>2, <1>6, <2>1, Sum16Cat, Zenon
<1> HIDE DEF a4
<1>10. Sum16(a4 \o t) = Sum16(a4) + Sum16(t)
  <2>1. 6 \in Nat /\ Len(a4) = 2 * 6
    BY <1>8
  <2> QED BY <1>8, <2>1, Sum16Cat, Zenon
<1>11. Sum16(a4 \o t) = Sum16(src) + Sum16(dst) + Sum16(p) + Sum16(l) + Sum16(t)
  BY <1>5, <1>7, <1>9, <1>10
<1> QED BY <1>3, <1>11 DEF p, l

\* What ChecksumsVerify says of one packet.
Verifies(pkt) ==
  /\ SumsToZero(ipHdr(pkt))
  /\ SumsToZero(PseudoHeader(ipHdr(pkt), AfterIP(pkt)) \o AfterIP(pkt))
  /\ IsValid(pkt, Len(pkt))
  /\ Payload(pkt) = AfterIP(pkt)
  /\ Length(AfterIP(pkt)) = Len(AfterIP(pkt))

\* A number below 2^16 is what remains of it.
LEMMA SmallMod ==
  ASSUME NEW x \in 0 .. Word - 1
  PROVE  x % Word = x
<1>1. Word \in Int /\ Word > 68
  BY WordBig
<1> QED BY <1>1

\* What has a sum of zero, and lengths that are its own, verifies.
LEMMA Verified ==
  ASSUME NEW b, NEW h, NEW total \in 0 .. Word - 1, NEW proto \in Byte,
         NEW src \in Seq(Byte), Len(src) = 4, NEW dst \in Seq(Byte), Len(dst) = 4,
         IsIPHdr(b, h, total, proto, src, dst), Cong(Sum16(b), 0),
         NEW u \in Seq(Byte), Len(u) = 8, NEW p \in Seq(Byte),
         NEW len \in 0 .. Word - 1, Pair(u, 5) = len, len = 8 + Len(p), total = h + len,
         Cong(Sum16(src) + Sum16(dst) + Sum16(<<0, proto>>) + Sum16(PutUint(2, len))
                + Sum16(u) + Sum16(p), 0)
  PROVE  Verifies(b \o (u \o p))
<1> DEFINE t == u \o p
           pkt == b \o t
           n == Len(p)
<1>0. b \in Seq(Byte) /\ Len(b) = h /\ h \in Nat /\ h >= 20
  BY HdrLength DEF IsIPHdr
<1>w. Word \in Int /\ Word > 68 /\ n \in Nat
  BY WordBig, LenProperties
<1>1. t \in Seq(Byte) /\ Len(t) = 8 + n /\ Length(t) = Pair(u, 5)
  BY DatagramIs
<1>2. Len(t) = len /\ Length(t) = len
  BY <1>1
<1>3. Sum16(t) = Sum16(u) + Sum16(p)
  <2>1. 4 \in Nat /\ Len(u) = 2 * 4
    OBVIOUS
  <2> QED BY <2>1, Sum16Cat, Zenon
<1> HIDE DEF t
<1>4. IsPacket(pkt, b, t)
  BY <1>1, PacketIs
<1> HIDE DEF pkt, n
<1>5. SumsToZero(b)
  <2>1. Sum16(b) \in Nat
    BY <1>0, Sum16Type
  <2>2. Sum16(b) % (Word - 1) = 0
    BY <2>1, CongZero
  <2> QED BY <2>2 DEF SumsToZero, Sum16
<1>6. SumsToZero(PseudoHeader(b, t) \o t)
  <2> DEFINE ps == PseudoHeader(b, t) \o t
             s1 == Sum16(src)
             s2 == Sum16(dst)
             s3 == Sum16(<<0, proto>>)
             s4 == Sum16(PutUint(2, len))
             s5 == Sum16(u)
             s6 == Sum16(p)
  <2>1. SourceAddress(b) = src /\ DestinationAddress(b) = dst /\ Protocol(b) = proto
    BY DEF IsIPHdr
  <2>2. Sum16(ps) = s1 + s2 + s3 + s4 + Sum16(t)
    BY <1>1, <1>2, <2>1, PseudoSum
  <2>3. s1 \in Nat /\ s2 \in Nat /\ s5 \in Nat /\ s6 \in Nat
    BY Sum16Type
  <2>4. s3 \in Nat /\ s4 \in Nat
    <3>1. <<0, proto>> \in Seq(Byte)
      BY BaseType, PairIs
    <3>2. PutUint(2, len) \in Seq(Byte)
      BY PutTwo
    <3> QED BY <3>1, <3>2, Sum16Type, Zenon
  <2>5. Cong(s1 + s2 + s3 + s4 + s5 + s6, 0) /\ Sum16(t) = s5 + s6
    BY <1>3
  <2> HIDE DEF s1, s2, s3, s4, s5, s6, ps
  <2> DEFINE s == s1 + s2 + s3 + s4 + s5 + s6
  <2>6. s \in Nat /\ Cong(s, 0) /\ Sum16(ps) = s
    BY <2>2, <2>3, <2>4, <2>5
  <2> HIDE DEF s
  <2>7. Sum16(ps) % (Word - 1) = 0
    BY <2>6, CongZero
  <2> QED BY <2>7 DEF SumsToZero, Sum16, ps
<1>7. /\ pkt \in Seq(Byte) /\ Len(pkt) = h + len /\ HeaderLength(pkt) = h
      /\ ipHdr(pkt) = b /\ AfterIP(pkt) = t /\ TotalLength(pkt) = total
  BY <1>0, <1>2, <1>4 DEF IsPacket, IsIPHdr
<1>8. IsValid(pkt, Len(pkt))
  BY <1>0, <1>7, <1>w DEF IsValid, IPv4MinimumSize
<1>9. PayloadLength(pkt) = len
  <2>1. TotalLength(pkt) - HeaderLength(pkt) = len
    BY <1>0, <1>7, <1>w
  <2>2. len % Word = len
    BY SmallMod
  <2> QED BY <2>1, <2>2 DEF PayloadLength
<1>10. Payload(pkt) = t
  <2>1. h + 1 + len - 1 = Len(pkt)
    BY <1>0, <1>7, <1>w
  <2>2. Payload(pkt) = SubSeq(pkt, h + 1, Len(pkt))
    BY <1>7, <1>9, <2>1, Zenon DEF Payload, At
  <2> QED BY <1>7, <2>2 DEF AfterIP
<1>11. Verifies(pkt)
  BY <1>2, <1>5, <1>6, <1>7, <1>8, <1>10 DEF Verifies
<1> QED BY <1>11 DEF pkt, t

\* The bytes of an address in its place: as they are, or zeros for nil.
LEMMA CopiedAddress ==
  ASSUME NEW a \in Seq(Byte), a = Nil \/ Len(a) = 4
  PROVE  /\ Copied(4, a) \in Seq(Byte) /\ Len(Copied(4, a)) = 4
         /\ Sum16(Copied(4, a)) = Sum16(a)
         /\ Len(a) = 4 => Copied(4, a) = a
         /\ Len(a) <= 4
<1> DEFINE c == Copied(4, a)
<1>1. c \in Seq(Byte) /\ Len(c) = 4
  BY CopiedType, Zenon
<1>2. CASE Len(a) = 4
  <2>1. \A k \in 1 .. 4 : c[k] = a[k]
    BY <1>2 DEF Copied
  <2> HIDE DEF c
  <2>2. c = a
    BY <1>1, <1>2, <2>1, SeqEqual
  <2> QED BY <1>1, <2>2 DEF c
<1>3. CASE a = Nil
  <2>1. a = <<>> /\ Len(a) = 0
    BY <1>3 DEF Nil
  <2>2. Sum16(c) = 0 /\ Sum16(a) = 0
    BY <2>1, Sum16Zeros, Sum16Small
  <2> QED BY <1>1, <2>1, <2>2
<1> QED BY <1>2, <1>3

\* pkt is a packet from somewhere to dst: an IPv4 header of h bytes, a UDP header
\* with the port, and the payload p; and a receiver verifies it.
IsSent(pkt, h, proto, dst, port, p) ==
  /\ proto \in Byte /\ p \in Seq(Byte) /\ dst \in Seq(Byte) /\ Len(dst) = 4
  /\ \E b, total, src, u :
       /\ IsIPHdr(b, h, total, proto, src, dst)
       /\ u \in Seq(Byte) /\ Len(u) = 8 /\ Pair(u, 3) = port
       /\ pkt = b \o (u \o p)
       /\ Verifies(pkt)

\* SetUDPChecksum changes the checksum alone.
LEMMA ChecksumUDP ==
  ASSUME NEW u \in Seq(Byte), Len(u) = 8, NEW v, NEW x, IsPutWord(v, u, 7, x)
  PROVE  v \in Seq(Byte) /\ Len(v) = 8 /\ Pair(v, 3) = Pair(u, 3) /\ Pair(v, 5) = Pair(u, 5)
<1>1. v \in Seq(Byte) /\ Len(v) = 8 /\ \A k \in 1 .. 6 : v[k] = u[k]
  BY DEF IsPutWord
<1> QED BY <1>1 DEF Pair

\* What both programs do with a UDP header: a packet of an IPv4 header that is
\* ready, the UDP header with the checksum that is calculated, and the payload.
LEMMA SentIs ==
  ASSUME NEW b, NEW h, NEW total \in 0 .. Word - 1, NEW proto \in Byte,
         NEW src \in Seq(Byte), src = Nil \/ Len(src) = 4,
         NEW dst \in Seq(Byte), dst = Nil \/ Len(dst) = 4,
         IsIPHdr(b, h, total, proto, Copied(4, src), Copied(4, dst)), Cong(Sum16(b), 0),
         NEW u \in Seq(Byte), Len(u) = 8, Pair(u, 7) = 0,
         NEW p \in Seq(Byte), NEW len \in 0 .. Word - 1, Pair(u, 5) = len, len = 8 + Len(p),
         total = h + len,
         NEW x, x = CalculateUDPChecksum(u, Checksum(p, PseudoHeaderChecksum(proto, src, dst)), len),
         NEW pkt, pkt = b \o SetUDPChecksum(u, Complement(x)) \o p
  PROVE  IsSent(pkt, h, proto, Copied(4, dst), Pair(u, 3), p)
<1> DEFINE v == SetUDPChecksum(u, Complement(x))
           s == Copied(4, src)
           d == Copied(4, dst)
<1>1. Len(p) \in Nat /\ Len(p) < Word /\ Len(src) <= 4 /\ Len(dst) <= 4
  <2>1. Word \in Int /\ Len(p) \in Nat
    BY WordBig, LenProperties
  <2>2. Len(p) < Word
    BY <2>1
  <2>3. Len(src) <= 4 /\ Len(dst) <= 4
    BY CopiedAddress
  <2> QED BY <2>1, <2>2, <2>3
<1>2. /\ IsPutWord(v, u, 7, Complement(x))
      /\ Cong(Sum16(src) + Sum16(dst) + Sum16(<<0, proto>>) + Sum16(PutUint(2, len))
                + Sum16(v) + Sum16(p), 0)
  BY <1>1, UDPSum
<1>3. pkt = (b \o v) \o p
  OBVIOUS
<1>4. s \in Seq(Byte) /\ Len(s) = 4 /\ Sum16(s) = Sum16(src)
  BY CopiedAddress
<1>5. d \in Seq(Byte) /\ Len(d) = 4 /\ Sum16(d) = Sum16(dst)
  BY CopiedAddress
<1> HIDE DEF v
<1>6. v \in Seq(Byte) /\ Len(v) = 8 /\ Pair(v, 3) = Pair(u, 3) /\ Pair(v, 5) = len
  BY <1>2, ChecksumUDP
<1>7. IsIPHdr(b, h, total, proto, s, d)
  OBVIOUS
<1>8. Cong(Sum16(s) + Sum16(d) + Sum16(<<0, proto>>) + Sum16(PutUint(2, len))
             + Sum16(v) + Sum16(p), 0)
  BY <1>2, <1>4, <1>5
<1> HIDE DEF s, d
<1>9. b \in Seq(Byte)
  BY <1>7 DEF IsIPHdr
<1>10. pkt = b \o (v \o p)
  <2>1. SameJoin((b \o v) \o p, b, v, p)
    BY <1>6, <1>9, CatAssociates
  <2> QED BY <1>3, <2>1, Zenon DEF SameJoin
<1>11. Verifies(b \o (v \o p))
  BY <1>4, <1>5, <1>6, <1>7, <1>8, Verified
<1>12. IsSent(pkt, h, proto, d, Pair(u, 3), p)
  BY <1>5, <1>6, <1>7, <1>10, <1>11, Zenon DEF IsSent
<1> QED BY <1>12 DEF d

\* The lengths that udp4pkt puts into headers are those of its packet.
LEMMA SentLengths ==
  ASSUME NEW n \in Nat, 20 + 8 + n \in Uint16
  PROVE  /\ (20 + 8 + n) % Word = 28 + n /\ (8 + n) % Word = 8 + n
         /\ 28 + n \in 0 .. Word - 1 /\ 8 + n \in 0 .. Word - 1
         /\ 28 + n = 20 + (8 + n)
<1>1. Word \in Int
  BY WordBig
<1>2. 20 + 8 + n = 28 + n /\ 28 + n \in 0 .. Word - 1
  BY <1>1 DEF Uint16
<1>3. 8 + n \in 0 .. Word - 1
  BY <1>1, <1>2
<1> QED BY <1>2, <1>3, SmallMod

\* What udp4pkt returns is a packet to its destination, and verifies.
LEMMA WriteToSent ==
  ASSUME NEW p \in Seq(Byte), 20 + 8 + Len(p) \in Uint16,
         NEW dest \in UDPAddrs, NEW source \in UDPAddrs
  PROVE  IsSent(udp4pkt(p, dest, source), 20, 17, Copied(4, To4(dest.ip)), dest.port, p)
<1> DEFINE n == Len(p)
           src == To4(source.ip)
           dst == To4(dest.ip)
           f == [ihl |-> 20, tos |-> 0, totalLength |-> (20 + 8 + n) % Word, id |-> 0,
                 flags |-> 0, fragmentOffset |-> 0, ttl |-> 30, protocol |-> 17, checksum |-> 0,
                 srcAddr |-> src, dstAddr |-> dst]
           g == [srcPort |-> source.port % Word, dstPort |-> dest.port % Word,
                 length |-> (8 + n) % Word, checksum |-> 0]
           ip == EncodeIPv4(Zeros(20), f)
           u == EncodeUDP(g)
           b == SetIPChecksum(ip, Complement(CalculateIPChecksum(ip)))
           x == CalculateUDPChecksum(u, Checksum(p, PseudoHeaderChecksum(Protocol(ip), src, dst)),
                                     Length(u))
           pkt == b \o SetUDPChecksum(u, Complement(x)) \o p
<1>1. udp4pkt(p, dest, source) = pkt
  BY DEF udp4pkt, IPv4MinimumSize, UDPMinimumSize, UDPProtocolNumber
<1>2. n \in Nat
  BY LenProperties
<1>3. /\ (20 + 8 + n) % Word = 28 + n /\ (8 + n) % Word = 8 + n
      /\ 28 + n \in 0 .. Word - 1 /\ 8 + n \in 0 .. Word - 1 /\ 28 + n = 20 + (8 + n)
  BY <1>2, SentLengths
<1>4. source.ip \in Seq(Byte) /\ dest.ip \in Seq(Byte) /\ source.port \in Uint16 /\ dest.port \in Uint16
  BY DEF UDPAddrs
<1>5. /\ src \in Seq(Byte) /\ (src = Nil \/ Len(src) = 4)
      /\ dst \in Seq(Byte) /\ (dst = Nil \/ Len(dst) = 4)
  BY <1>4, To4Type
<1>6. source.port % Word = source.port /\ dest.port % Word = dest.port
  BY <1>4, SmallMod DEF Uint16
<1>7. /\ f.ihl = 20 /\ f.tos = 0 /\ f.totalLength = 28 + n /\ f.id = 0 /\ f.flags = 0
      /\ f.fragmentOffset = 0 /\ f.ttl = 30 /\ f.protocol = 17 /\ f.checksum = 0
      /\ f.srcAddr = src /\ f.dstAddr = dst
  BY <1>3
<1>8. g.srcPort = source.port /\ g.dstPort = dest.port /\ g.length = 8 + n /\ g.checksum = 0
  BY <1>3, <1>6
<1> HIDE DEF f, g, src, dst, n
<1>9. 0 \in Byte /\ 30 \in Byte /\ 17 \in Byte /\ 0 \in Uint16 /\ 0 \in 0 .. 7
  <2>1. Byte = 0 .. 255
    BY HeadersAssumption DEF Byte
  <2>2. 0 \in Uint16
    BY WordBig DEF Uint16
  <2> QED BY <2>1, <2>2
<1>10. 20 \in HeaderLengths /\ 0 \in FragmentOffsets
  <2>1. 20 = 4 * 5 /\ 5 \in 5 .. 15
    OBVIOUS
  <2>2. 0 = 8 * 0 /\ 0 \in 0 .. 2^13 - 1
    BY OffsetBits
  <2>3. 20 \in HeaderLengths
    BY <2>1 DEF HeaderLengths
  <2>4. 0 \in FragmentOffsets
    BY <2>2 DEF FragmentOffsets
  <2> QED BY <2>3, <2>4
<1>11. IPFields(f)
  BY <1>3, <1>5, <1>7, <1>9, <1>10 DEF IPFields, Uint16
<1>12. HoldsIP(ip, f)
  BY <1>7, <1>11, EncodeIPIs
<1>13. HoldsUDP(u, g)
  BY <1>3, <1>4, <1>8, <1>9, EncodeUDPIs DEF Uint16
<1> HIDE DEF ip, u
<1>14. IsIPHdr(ip, 20, 28 + n, 17, Copied(4, src), Copied(4, dst))
  BY <1>7, <1>11, <1>12, HoldsIsHdr
<1>15. Pair(ip, 11) = 0 /\ Protocol(ip) = 17
  BY <1>7, <1>12, <1>14 DEF HoldsIP, IsIPHdr
<1>16. /\ u \in Seq(Byte) /\ Len(u) = 8 /\ Pair(u, 3) = dest.port /\ Pair(u, 5) = 8 + n
       /\ Pair(u, 7) = 0
  BY <1>8, <1>13 DEF HoldsUDP
<1>17. Length(u) = 8 + n
  BY <1>8, <1>13, GettersUDP
<1>18. IsIPHdr(b, 20, 28 + n, 17, Copied(4, src), Copied(4, dst)) /\ Cong(Sum16(b), 0)
  BY <1>14, <1>15, CalculatedIPSum
<1> HIDE DEF b
<1>19. x = CalculateUDPChecksum(u, Checksum(p, PseudoHeaderChecksum(17, src, dst)), 8 + n)
  BY <1>15, <1>17
<1>20. pkt = b \o SetUDPChecksum(u, Complement(x)) \o p /\ 8 + n = 8 + Len(p)
  BY DEF n
<1> HIDE DEF x, pkt
<1>21. IsSent(pkt, 20, 17, Copied(4, dst), Pair(u, 3), p)
  BY <1>3, <1>5, <1>9, <1>16, <1>18, <1>19, <1>20, SentIs, Zenon
<1> QED BY <1>1, <1>16, <1>21 DEF dst

\* c is the first n elements of s, or all of them.
IsFirst(c, n, s) ==
  /\ c \in Seq(Byte) /\ Len(c) \in Nat /\ Len(c) <= n /\ Len(c) <= Len(s)
  /\ \A k \in 1 .. Len(c) : c[k] = s[k]
  /\ Len(s) <= n => c = s
  /\ Len(s) > n => Len(c) = n

\* A sequence that is not longer than n is taken whole, of another the first n.
LEMMA UptoIs ==
  ASSUME NEW s \in Seq(Byte), NEW n \in Nat
  PROVE  IsFirst(Upto(n, s), n, s)
<1> DEFINE m == IF Len(s) <= n THEN Len(s) ELSE n
           c == SubSeq(s, 1, m)
<1>1. Len(s) \in Nat /\ m \in 0 .. Len(s) /\ m <= n /\ m \in Nat
  BY LenProperties
<1>2. Upto(n, s) = c
  BY DEF Upto
<1>3. Len(s) > n => m = n
  BY <1>1
<1>4. Len(s) <= n => c = s
  BY SubSeqFull
<1> HIDE DEF m
<1>5. c \in Seq(Byte) /\ Len(c) = m /\ \A i \in 1 .. m : c[i] = s[i]
  BY <1>1, CutAfter
<1> HIDE DEF c
<1>6. IsFirst(c, n, s)
  BY <1>1, <1>3, <1>4, <1>5 DEF IsFirst
<1> QED BY <1>2, <1>6

\* The first n of the first m are the first n.
LEMMA UptoUpto ==
  ASSUME NEW s \in Seq(Byte), NEW m \in Nat, NEW n \in Nat, n <= m
  PROVE  Upto(n, Upto(m, s)) = Upto(n, s)
<1> DEFINE a == Upto(m, s)
           b == Upto(n, a)
           c == Upto(n, s)
<1>0. Len(s) \in Nat
  BY LenProperties
<1>1. /\ a \in Seq(Byte) /\ Len(a) \in Nat /\ (Len(s) <= m => a = s) /\ (Len(s) > m => Len(a) = m)
      /\ \A k \in 1 .. Len(a) : a[k] = s[k]
  BY UptoIs, Zenon DEF IsFirst
<1>2. CASE Len(s) <= m
  BY <1>1, <1>2
<1>3. CASE Len(s) > m
  <2>1. Len(a) = m
    BY <1>1, <1>3
  <2> HIDE DEF a
  <2>2. /\ b \in Seq(Byte) /\ Len(b) \in Nat /\ Len(b) <= n /\ (Len(a) <= n => b = a)
        /\ (Len(a) > n => Len(b) = n) /\ \A k \in 1 .. Len(b) : b[k] = a[k]
    BY <1>1, UptoIs, Zenon DEF IsFirst
  <2>3. /\ c \in Seq(Byte) /\ (Len(s) > n => Len(c) = n) /\ \A k \in 1 .. Len(c) : c[k] = s[k]
    BY UptoIs, Zenon DEF IsFirst
  <2> HIDE DEF b, c
  <2>4. Len(b) = n /\ Len(c) = n
    BY <1>0, <1>3, <2>1, <2>2, <2>3
  <2>5. \A k \in 1 .. n : k \in 1 .. Len(a)
    BY <2>1
  <2>6. \A k \in 1 .. n : b[k] = c[k]
    BY <1>1, <2>2, <2>3, <2>4, <2>5
  <2>7. b = c
    BY <2>2, <2>3, <2>4, <2>6, SeqEqual
  <2> QED BY <2>7 DEF a, b, c
<1> QED BY <1>0, <1>2, <1>3
==============================================================================
