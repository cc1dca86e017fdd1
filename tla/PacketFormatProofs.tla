-------------------------- MODULE PacketFormatProofs --------------------------
(* The bytes of headers, options and typed values of every size: what is     *)
(* written is what is read.                                                  *)
EXTENDS PacketFormat, BytesProofs

\* What a sequence with one more element holds.
LEMMA AppendProperties ==
  ASSUME NEW S, NEW s \in Seq(S), NEW e \in S
  PROVE  /\ Append(s, e) \in Seq(S) /\ Append(s, e) # <<>> /\ Len(Append(s, e)) = Len(s) + 1
         /\ \A k \in 1 .. Len(s) : Append(s, e)[k] = s[k]
         /\ Append(s, e)[Len(s) + 1] = e
OBVIOUS

------------------------------------------------------------------------------
(* The layout of the header *)

Names == {"op", "htype", "hlen", "hops", "xid", "secs", "flags", "ciaddr", "yiaddr",
          "siaddr", "giaddr", "chaddr", "sname", "file", "cookie"}

\* Every field has a width, and a place of its own.
LEMMA FieldsAre ==
  /\ Len(Fields) = 15 /\ DOMAIN Fields = 1 .. 15
  /\ \A k \in 1 .. 15 : Fields[k] \in Names
  /\ \A name \in Names : \E k \in 1 .. 15 : Fields[k] = name
  /\ \A j, k \in 1 .. 15 : Fields[j] = Fields[k] => j = k
<1>1. Len(Fields) = 15 /\ DOMAIN Fields = 1 .. 15
  BY DEF Fields
<1>2. \A k \in 1 .. 15 : Fields[k] \in Names
  BY DEF Fields, Names
<1>3. \A name \in Names : \E k \in 1 .. 15 : Fields[k] = name
  BY DEF Fields, Names
<1>4. \A j, k \in 1 .. 15 : Fields[j] = Fields[k] => j = k
  BY DEF Fields
<1> QED BY <1>1, <1>2, <1>3, <1>4

\* Every field of the header has a width.
LEMMA WidthIs ==
  DOMAIN Width = Names /\ \A name \in Names : Width[name] \in Nat
<1>1. DOMAIN Width = Names
  BY DEF Width, Names
<1>2. Len(magicCookie) \in Nat /\ {txidLen, chaddrLen, snameLen, fileLen, IPv4len} \subseteq Nat
  BY FormatAssumption, AddressBytesAssumption
<1>3. \A name \in Names : Width[name] \in Nat
  BY <1>2 DEF Width, Names
<1> QED BY <1>1, <1>3

\* The fields follow one another.
LEMMA OffsetIs ==
  /\ Offset \in [0 .. 15 -> Nat] /\ Offset[0] = 0
  /\ \A k \in 1 .. 15 : Offset[k] = Offset[k - 1] + Width[Fields[k]]
<1> DEFINE w(k) == Width[Fields[k]]
           g == [k \in 1 .. 15 |-> [v \in Nat |-> v + w(k)]]
           F(p) == [k \in 0 .. 15 |-> IF k = 0 THEN 0 ELSE p[k - 1] + w(k)]
           U == CHOOSE p : p = F(p)
<1>1. \A k \in 1 .. 15 : w(k) \in Nat
  BY FieldsAre, WidthIs
<1> HIDE DEF w
<1>2. g \in [1 .. 15 -> [Nat -> Nat]]
  BY <1>1
<1>3. PICK f : IsRec(f, 15, Nat, 0, g)
  <2> HIDE DEF g
  <2> QED BY <1>2, Recursion, Zenon
<1>4. f \in [0 .. 15 -> Nat] /\ f[0] = 0
  BY <1>3 DEF IsRec
<1>5. ASSUME NEW k \in 1 .. 15 PROVE f[k] = f[k - 1] + w(k)
  <2>1. f[k - 1] \in Nat
    BY <1>4
  <2>2. f[k] = g[k][f[k - 1]]
    BY <1>3 DEF IsRec
  <2> QED BY <2>1, <2>2
<1>6. f = F(f)
  BY <1>4, <1>5
<1>7. U = F(U)
  BY <1>6
<1>8. Offset = U
  BY FieldsAre DEF Offset, w
<1> HIDE DEF U
<1>9. Offset[0] = 0 /\ \A k \in 1 .. 15 : Offset[k] = Offset[k - 1] + w(k)
  BY <1>7, <1>8
<1>10. Offset \in [0 .. 15 -> Nat]
  <2> DEFINE S == {k \in 0 .. 15 : Offset[k] \in Nat}
  <2>1. 0 \in S
    BY <1>9
  <2>2. ASSUME NEW k \in 0 .. 15 - 1, k \in S PROVE k + 1 \in S
    <3>1. k + 1 \in 1 .. 15 /\ (k + 1) - 1 = k
      OBVIOUS
    <3> QED BY <3>1, <2>2, <1>1, <1>9
  <2>3. 0 .. 15 \subseteq S
    <3> HIDE DEF S
    <3> QED BY <2>1, <2>2, UpTo
  <2> QED BY <2>3, <1>7, <1>8
<1> QED BY <1>9, <1>10 DEF w

\* What a reader of the header is: a Lexer, and what it has read.
Readers ==
  {r \in [lex : [data : Seq(Byte), err : BOOLEAN], got : [Names -> Seq(Byte)]] :
     \A name \in Names : Len(r.got[name]) = Width[name]}

\* The reader at the start of UnmarshalBinary.
Start(bytes, xid) ==
  [lex |-> NewLexer(bytes),
   got |-> [name \in DOMAIN Width |-> IF name = "xid" THEN xid ELSE Zeros(Width[name])]]

\* UnmarshalBinary starts with a well-formed reader.
LEMMA StartType ==
  ASSUME NEW bytes \in Seq(Byte), NEW xid \in Seq(Byte), Len(xid) = txidLen
  PROVE  Start(bytes, xid) \in Readers
<1> DEFINE r == Start(bytes, xid)
           got == [name \in Names |-> IF name = "xid" THEN xid ELSE Zeros(Width[name])]
<1>1. r = [lex |-> [data |-> bytes, err |-> FALSE], got |-> got]
  BY WidthIs DEF Start, NewLexer
<1>2. Width["xid"] = txidLen
  BY DEF Width
<1>3. ASSUME NEW name \in Names PROVE got[name] \in Seq(Byte) /\ Len(got[name]) = Width[name]
  <2>1. Zeros(Width[name]) \in Seq(Byte) /\ Len(Zeros(Width[name])) = Width[name]
    BY WidthIs, ZerosType
  <2> QED BY <2>1, <1>2
<1>4. got \in [Names -> Seq(Byte)]
  BY <1>3
<1> HIDE DEF got
<1>5. [lex |-> [data |-> bytes, err |-> FALSE], got |-> got] \in Readers
  BY <1>3, <1>4 DEF Readers
<1> QED BY <1>1, <1>5

\* One read: of the next bytes, or of none.
LEMMA ReadFieldIs ==
  ASSUME NEW r \in Readers, NEW name \in Names
  PROVE  LET n == Width[name]
             q == ReadField(r, name) IN
         /\ q \in Readers
         /\ \A other \in Names \ {name} : q.got[other] = r.got[other]
         /\ Len(r.lex.data) >= n =>
              /\ q.lex.err = r.lex.err
              /\ q.lex.data = SubSeq(r.lex.data, n + 1, Len(r.lex.data))
              /\ q.got[name] = SubSeq(r.lex.data, 1, n)
         /\ ~(Len(r.lex.data) >= n) => q.lex.err
<1> DEFINE n == Width[name]
           q == ReadField(r, name)
           data == r.lex.data
<1>1. n \in Nat /\ data \in Seq(Byte) /\ r.got \in [Names -> Seq(Byte)] /\ r.lex.err \in BOOLEAN
  BY WidthIs DEF Readers
<1>2. CASE Len(data) >= n
  <2>1. /\ SubSeq(data, 1, n) \in Seq(Byte) /\ Len(SubSeq(data, 1, n)) = n
        /\ SubSeq(data, n + 1, Len(data)) \in Seq(Byte)
    <3>1. n \in 0 .. Len(data)
      BY <1>1, <1>2
    <3> QED BY <1>1, <3>1, CutAfter
  <2>2. q = [lex |-> [r.lex EXCEPT !.data = SubSeq(data, n + 1, Len(data))],
             got |-> [r.got EXCEPT ![name] = SubSeq(data, 1, n)]]
    BY <1>2 DEF ReadField, Has, Consume, Read
  <2> DEFINE x == SubSeq(data, n + 1, Len(data))
             y == SubSeq(data, 1, n)
             e == r.lex.err
             lex == [data |-> x, err |-> e]
             got == [r.got EXCEPT ![name] = y]
  <2>3. [r.lex EXCEPT !.data = x] = lex
    <3>1. r.lex \in [data : Seq(Byte), err : BOOLEAN]
      BY DEF Readers
    <3> HIDE DEF x
    <3> QED BY <3>1
  <2>4. q = [lex |-> lex, got |-> got]
    BY <2>2, <2>3, Zenon
  <2>x. x \in Seq(Byte) /\ y \in Seq(Byte) /\ Len(y) = n /\ e \in BOOLEAN
    BY <1>1, <2>1
  <2> HIDE DEF n, q, data, x, y, e
  <2>5. /\ got \in [Names -> Seq(Byte)] /\ got[name] = y
        /\ \A other \in Names \ {name} : got[other] = r.got[other]
    BY <1>1, <2>x
  <2>6. \A m \in Names : Len(got[m]) = Width[m]
    BY <2>x, <2>5 DEF Readers, n
  <2> HIDE DEF got
  <2>7. lex \in [data : Seq(Byte), err : BOOLEAN] /\ lex.data = x /\ lex.err = e
    BY <2>x
  <2> HIDE DEF lex
  <2>8. q \in Readers /\ q.lex = lex /\ q.got = got
    BY <2>4, <2>5, <2>6, <2>7 DEF Readers
  <2> QED BY <1>2, <2>5, <2>7, <2>8 DEF n, q, data, x, y, e
<1>3. CASE ~(Len(data) >= n)
  <2>1. q = [lex |-> [r.lex EXCEPT !.err = TRUE], got |-> [r.got EXCEPT ![name] = r.got[name]]]
    BY <1>3 DEF ReadField, Has, Consume
  <2> DEFINE lex == [data |-> data, err |-> TRUE]
  <2>2. [r.lex EXCEPT !.err = TRUE] = lex
    <3>1. r.lex \in [data : Seq(Byte), err : BOOLEAN]
      BY DEF Readers
    <3>2. \A l \in [data : Seq(Byte), err : BOOLEAN] : \A v :
            [l EXCEPT !.err = v] = [data |-> l.data, err |-> v]
      OBVIOUS
    <3> QED BY <3>1, <3>2, Zenon
  <2>3. [r.got EXCEPT ![name] = r.got[name]] = r.got
    BY <1>1
  <2>4. q = [lex |-> lex, got |-> r.got]
    BY <2>1, <2>2, <2>3, Zenon
  <2> HIDE DEF n, q, data
  <2>5. lex \in [data : Seq(Byte), err : BOOLEAN] /\ lex.err
    BY <1>1
  <2> HIDE DEF lex
  <2>6. q \in Readers /\ q.lex = lex /\ q.got = r.got
    BY <1>1, <2>4, <2>5 DEF Readers
  <2> QED BY <1>3, <2>5, <2>6 DEF n, q, data
<1> QED BY <1>2, <1>3

\* The readers that the reads of the header go through, from the start to the end.
IsReading(f, bytes, xid) ==
  /\ f \in [0 .. 15 -> Readers]
  /\ f[0] = Start(bytes, xid)
  /\ \A k \in 1 .. 15 : f[k] = ReadField(f[k - 1], Fields[k])

\* The reads of UnmarshalBinary, one after the other.
LEMMA ReadingExists ==
  ASSUME NEW bytes \in Seq(Byte), NEW xid \in Seq(Byte), Len(xid) = txidLen
  PROVE  \E f : IsReading(f, bytes, xid) /\ ReadFields(bytes, xid) = f[15]
<1> DEFINE start == Start(bytes, xid)
           g == [k \in 1 .. 15 |-> [r \in Readers |-> ReadField(r, Fields[k])]]
           F(p) == [k \in 0 .. 15 |-> IF k = 0 THEN start ELSE ReadField(p[k - 1], Fields[k])]
           U == CHOOSE p : p = F(p)
<1>1. start \in Readers
  BY StartType
<1>2. \A k \in 1 .. 15 : Fields[k] \in Names
  BY FieldsAre
<1>3. \A k \in 1 .. 15 : \A r \in Readers : ReadField(r, Fields[k]) \in Readers
  BY <1>2, ReadFieldIs, Zenon
<1>4. g \in [1 .. 15 -> [Readers -> Readers]]
  BY <1>3
<1>5. ReadFields(bytes, xid) = U[15]
  BY FieldsAre DEF ReadFields, Start
<1> HIDE DEF start
<1>6. PICK f : IsRec(f, 15, Readers, start, g)
  <2> HIDE DEF g
  <2> QED BY <1>1, <1>4, Recursion, Zenon
<1>7. f \in [0 .. 15 -> Readers] /\ f[0] = start
  BY <1>6 DEF IsRec
<1>8. ASSUME NEW k \in 1 .. 15 PROVE f[k] = ReadField(f[k - 1], Fields[k])
  <2>1. f[k - 1] \in Readers
    BY <1>7
  <2>2. f[k] = g[k][f[k - 1]]
    BY <1>6 DEF IsRec
  <2> QED BY <2>1, <2>2
<1>9. f = F(f)
  BY <1>7, <1>8
<1>10. U = F(U)
  BY <1>9, Zenon
<1> HIDE DEF U
<1>11. U[0] = start /\ \A k \in 1 .. 15 : U[k] = ReadField(U[k - 1], Fields[k])
  BY <1>10
<1>12. U \in [0 .. 15 -> Readers]
  <2> DEFINE S == {k \in 0 .. 15 : U[k] \in Readers}
  <2>1. 0 \in S
    BY <1>1, <1>11
  <2>2. ASSUME NEW k \in 0 .. 15 - 1, k \in S PROVE k + 1 \in S
    <3>1. k + 1 \in 1 .. 15 /\ k + 1 \in 0 .. 15 /\ (k + 1) - 1 = k
      OBVIOUS
    <3>2. U[k + 1] = ReadField(U[k], Fields[k + 1]) /\ U[k] \in Readers
      BY <3>1, <2>2, <1>11
    <3>3. U[k + 1] \in Readers
      BY <3>1, <3>2, <1>3, Zenon
    <3> QED BY <3>1, <3>3
  <2>3. 0 .. 15 \subseteq S
    <3> HIDE DEF S
    <3> QED BY <2>1, <2>2, UpTo
  <2> QED BY <2>3, <1>10
<1>13. IsReading(U, bytes, xid)
  BY <1>11, <1>12 DEF IsReading, start
<1> QED BY <1>5, <1>13

\* The reads fail exactly if the header is not whole, and otherwise give each
\* field the bytes at its place and leave the rest.
LEMMA ReadFieldsIs ==
  ASSUME NEW bytes \in Seq(Byte), NEW xid \in Seq(Byte), Len(xid) = txidLen
  PROVE  LET r == ReadFields(bytes, xid) IN
         /\ r \in Readers
         /\ r.lex.err <=> Len(bytes) < HeaderLen
         /\ ~r.lex.err =>
              /\ r.lex.data = SubSeq(bytes, HeaderLen + 1, Len(bytes))
              /\ \A k \in 1 .. 15 : r.got[Fields[k]] = FieldAt(bytes, k)
<1> DEFINE L == Len(bytes)
<1>1. PICK f : IsReading(f, bytes, xid) /\ ReadFields(bytes, xid) = f[15]
  BY ReadingExists
<1>2. /\ f \in [0 .. 15 -> Readers] /\ f[0] = Start(bytes, xid)
      /\ \A k \in 1 .. 15 : f[k] = ReadField(f[k - 1], Fields[k])
  BY <1>1 DEF IsReading
<1>3. L \in Nat /\ HeaderLen = Offset[15] /\ \A k \in 0 .. 15 : Offset[k] \in Nat
  BY LenProperties, OffsetIs, FieldsAre DEF HeaderLen
<1> DEFINE Whole(k) == /\ Offset[k] <= L
                       /\ f[k].lex.data = SubSeq(bytes, Offset[k] + 1, L)
                       /\ \A j \in 1 .. k : f[k].got[Fields[j]] = FieldAt(bytes, j)
           S == {k \in 0 .. 15 : /\ f[k].lex.err \/ Whole(k)
                                 /\ f[k].lex.err => L < Offset[k]}
<1> HIDE DEF L
<1>4. 0 \in S
  <2>1. f[0].lex.data = bytes /\ f[0].lex.err = FALSE
    BY <1>2 DEF Start, NewLexer
  <2>2. SubSeq(bytes, 1, L) = bytes
    BY SubSeqFull DEF L
  <2>3. Whole(0)
    BY <2>1, <2>2, <1>3, OffsetIs
  <2> HIDE DEF Whole
  <2> QED BY <2>1, <2>3
<1>5. ASSUME NEW k \in 0 .. 15 - 1, k \in S PROVE k + 1 \in S
  <2> DEFINE j == k + 1
             name == Fields[j]
             n == Width[name]
             r == f[k]
             q == f[j]
             o == Offset[k]
  <2>1. j \in 1 .. 15 /\ j \in 0 .. 15 /\ j - 1 = k /\ k \in 0 .. 15
    OBVIOUS
  <2>2. name \in Names /\ n \in Nat /\ o \in Nat /\ Offset[j] = o + n /\ r \in Readers
    BY <2>1, <1>2, <1>3, FieldsAre, WidthIs, OffsetIs, Zenon
  <2>3. q = ReadField(r, name)
    BY <2>1, <1>2
  <2> HIDE DEF j, name, n, r, q, o
  <2>4. /\ \A other \in Names \ {name} : q.got[other] = r.got[other]
        /\ Len(r.lex.data) >= n =>
             /\ q.lex.err = r.lex.err
             /\ q.lex.data = SubSeq(r.lex.data, n + 1, Len(r.lex.data))
             /\ q.got[name] = SubSeq(r.lex.data, 1, n)
        /\ ~(Len(r.lex.data) >= n) => q.lex.err
    BY <2>2, <2>3, ReadFieldIs, Zenon DEF n
  <2>5. CASE r.lex.err
    <3>1. L < o
      BY <2>5, <1>5 DEF r, o
    <3>2. q.lex.err
      BY <2>4, <2>5, Zenon
    <3>3. L < Offset[j]
      BY <3>1, <2>2, <1>3
    <3> HIDE DEF Whole
    <3> QED BY <3>2, <3>3, <2>1 DEF q, j
  <2>6. CASE ~r.lex.err
    <3>1. o <= L /\ r.lex.data = SubSeq(bytes, o + 1, L) /\ \A i \in 1 .. k : r.got[Fields[i]] = FieldAt(bytes, i)
      BY <2>6, <1>5 DEF r, o
    <3>2. Len(r.lex.data) = L - o
      <4>1. o \in 0 .. L
        BY <3>1, <2>2, <1>3
      <4> QED BY <4>1, <3>1, CutAfter DEF L
    <3>3. CASE L - o >= n
      <4>1. /\ SubSeq(r.lex.data, 1, n) = SubSeq(bytes, o + 1, o + n)
            /\ SubSeq(r.lex.data, n + 1, Len(r.lex.data)) = SubSeq(bytes, o + n + 1, L)
        <5>1. o \in 0 .. L /\ n \in 0 .. L - o
          BY <3>1, <3>3, <2>2, <1>3
        <5> QED BY <5>1, <3>1, PartsOfRest DEF L
      <4>2. Offset[j] <= L
        BY <3>1, <3>3, <2>2, <1>3
      <4>3. q.got[name] = FieldAt(bytes, j)
        BY <4>1, <3>2, <3>3, <2>1, <2>2, <2>4, Zenon DEF FieldAt, o
      <4>4. ASSUME NEW i \in 1 .. j PROVE q.got[Fields[i]] = FieldAt(bytes, i)
        <5>1. CASE i = j
          BY <5>1, <4>3 DEF name
        <5>2. CASE i # j
          <6>1. i \in 1 .. k /\ i \in 1 .. 15
            BY <5>2, <2>1
          <6>2. Fields[i] \in Names \ {name}
            BY <5>2, <6>1, <2>1, FieldsAre DEF name
          <6> QED BY <6>1, <6>2, <3>1, <2>4
        <5> QED BY <5>1, <5>2
      <4>5. ~q.lex.err /\ q.lex.data = SubSeq(bytes, Offset[j] + 1, L)
        BY <4>1, <3>2, <3>3, <2>2, <2>4, <2>6, Zenon
      <4>6. Whole(j)
        BY <4>2, <4>4, <4>5 DEF q
      <4> HIDE DEF Whole
      <4> QED BY <4>5, <4>6, <2>1 DEF q, j
    <3>4. CASE ~(L - o >= n)
      <4>1. q.lex.err
        BY <3>2, <3>4, <2>4
      <4>2. L < Offset[j]
        BY <3>4, <2>2, <1>3
      <4> HIDE DEF Whole
      <4> QED BY <4>1, <4>2, <2>1 DEF q, j
    <3> QED BY <3>3, <3>4
  <2> QED BY <2>5, <2>6
<1>6. 15 \in S
  <2>1. 0 .. 15 \subseteq S
    <3> HIDE DEF S
    <3> QED BY <1>4, <1>5, UpTo
  <2>2. 15 \in 0 .. 15
    OBVIOUS
  <2> HIDE DEF S
  <2> QED BY <2>1, <2>2
<1>7. f[15] \in Readers
  BY <1>2
<1>8. f[15].lex.err <=> L < HeaderLen
  <2>1. f[15].lex.err => L < Offset[15]
    BY <1>6
  <2>2. ~f[15].lex.err => Offset[15] <= L
    BY <1>6
  <2>3. HeaderLen = Offset[15] /\ (Offset[15] <= L <=> ~(L < Offset[15]))
    <3>1. 15 \in 0 .. 15
      OBVIOUS
    <3>2. Offset[15] \in Nat
      BY <1>3, <3>1
    <3>3. \A a \in Nat, b \in Nat : a <= b <=> ~(b < a)
      OBVIOUS
    <3> QED BY <1>3, <3>2, <3>3, Zenon
  <2> QED BY <2>1, <2>2, <2>3, Zenon
<1>9. ~f[15].lex.err =>
        /\ f[15].lex.data = SubSeq(bytes, HeaderLen + 1, L)
        /\ \A k \in 1 .. 15 : f[15].got[Fields[k]] = FieldAt(bytes, k)
  BY <1>3, <1>6, Zenon
<1> QED BY <1>1, <1>7, <1>8, <1>9 DEF L

\* An address on the wire.
LEMMA writeIPType ==
  ASSUME NEW ip \in Seq(Byte), ip = Nil \/ Len(ip) >= IPv4len
  PROVE  writeIP(ip) \in Seq(Byte) /\ Len(writeIP(ip)) = IPv4len
<1>1. IPv4len \in Nat
  BY AddressBytesAssumption
<1>2. CASE ip = Nil
  BY <1>1, <1>2, ZerosType DEF writeIP
<1>3. CASE ip # Nil
  <2>1. IPv4len \in 0 .. Len(ip)
    BY <1>1, <1>3, LenProperties
  <2>2. SubSeq(ip, 1, IPv4len) \in Seq(Byte) /\ Len(SubSeq(ip, 1, IPv4len)) = IPv4len
    BY <2>1, CutAfter
  <2> QED BY <2>2, <1>3 DEF writeIP
<1> QED BY <1>2, <1>3

\* The fields of a header that a program can fill in, one by one.
LEMMA HeaderFields ==
  ASSUME NEW h, IsHeader(h)
  PROVE  /\ h.op \in Byte /\ h.htype \in Byte /\ h.hops \in Byte
         /\ h.secs \in Nat /\ h.secs < Power(2) /\ h.broadcast \in BOOLEAN
         /\ h.xid \in Seq(Byte) /\ h.chaddr \in Seq(Byte) /\ h.sname \in Seq(Byte)
         /\ h.file \in Seq(Byte) /\ Len(h.xid) = txidLen /\ Len(h.chaddr) <= MaxUint8
         /\ \A ip \in {h.ciaddr, h.yiaddr, h.siaddr, h.giaddr} :
              ip \in Seq(Byte) /\ (ip = Nil \/ Len(ip) >= IPv4len)
<1>1. Power(2) \in Nat
  BY PowerIs
<1> QED BY <1>1 DEF IsHeader

\* The value of the broadcast flag fits into its field and is not zero.
LEMMA FlagIs == flagBroadcast \in Nat /\ 0 < flagBroadcast /\ flagBroadcast < Power(2)
<1> DEFINE p == Base * Base
<1>1. p \in Nat /\ p >= 4
  <2>1. \A b \in Nat : b >= 2 => b * b \in Nat /\ b * b >= 4
    OBVIOUS
  <2> QED BY <2>1, BaseType
<1>2. Power(2) = p
  BY SmallPowers
<1> HIDE DEF p
<1>3. p \div 2 \in Nat /\ 0 < p \div 2 /\ p \div 2 < p
  BY <1>1
<1> QED BY <1>2, <1>3 DEF flagBroadcast, p

\* Each field takes its width.
LEMMA EncodedType ==
  ASSUME NEW h, IsHeader(h)
  PROVE  \A name \in Names : Encoded(h)[name] \in Seq(Byte) /\ Len(Encoded(h)[name]) = Width[name]
<1> DEFINE Fits(s, n) == s \in Seq(Byte) /\ Len(s) = n
           e == Encoded(h)
<1>0. \A b \in Byte : Fits(<<b>>, 1)
  OBVIOUS
<1>1. /\ Fits(<<h.op>>, 1) /\ Fits(<<h.htype>>, 1) /\ Fits(<<h.hops>>, 1)
  BY <1>0, HeaderFields
<1>2. Fits(<<Len(h.chaddr) % Base>>, 1)
  <2>1. Len(h.chaddr) % Base \in Byte
    <3>1. Len(h.chaddr) \in Nat
      BY HeaderFields, LenProperties
    <3>2. Base \in Nat \ {0} /\ Byte = 0 .. Base - 1
      BY BaseType
    <3> QED BY <3>1, <3>2, DivIs, Zenon
  <2> QED BY <1>0, <2>1
<1>3. Fits(h.xid, txidLen) /\ Fits(magicCookie, Len(magicCookie))
  BY HeaderFields, FormatAssumption
<1>4. Fits(PutUint(2, h.secs), 2)
  BY HeaderFields, PutUintType, Zenon
<1>5. Fits(PutUint(2, IF h.broadcast THEN flagBroadcast ELSE 0), 2)
  <2>1. (IF h.broadcast THEN flagBroadcast ELSE 0) \in Nat
    BY FlagIs
  <2> QED BY <2>1, PutUintType, Zenon
<1>6. /\ Fits(writeIP(h.ciaddr), IPv4len) /\ Fits(writeIP(h.yiaddr), IPv4len)
      /\ Fits(writeIP(h.siaddr), IPv4len) /\ Fits(writeIP(h.giaddr), IPv4len)
  BY HeaderFields, writeIPType
<1>7. /\ Fits(Copied(chaddrLen, h.chaddr), chaddrLen) /\ Fits(Copied(snameLen, h.sname), snameLen)
      /\ Fits(Copied(fileLen, h.file), fileLen)
  BY HeaderFields, CopiedType, FormatAssumption
<1> HIDE DEF Fits
<1>8. \A name \in Names : Fits(Encoded(h)[name], Width[name])
  BY <1>1, <1>2, <1>3, <1>4, <1>5, <1>6, <1>7 DEF Names, Encoded, Width
<1> QED BY <1>8 DEF Fits

\* The fields of a written header are at their places, whatever follows.
LEMMA HeaderIs ==
  ASSUME NEW h, IsHeader(h)
  PROVE  /\ Header(h) \in Seq(Byte) /\ Len(Header(h)) = HeaderLen
         /\ \A rest \in Seq(Byte) : \A k \in 1 .. 15 :
              FieldAt(Header(h) \o rest, k) = Encoded(h)[Fields[k]]
<1> DEFINE seqs == [k \in 1 .. 15 |-> Encoded(h)[Fields[k]]]
<1>1. \A k \in 1 .. 15 : seqs[k] \in Seq(Byte) /\ Len(seqs[k]) = Width[Fields[k]]
  BY EncodedType, FieldsAre, Zenon
<1>2. seqs \in Seq(Seq(Byte)) /\ Len(seqs) = 15
  <2> DEFINE W == Seq(Byte)
  <2>1. seqs \in [1 .. 15 -> W]
    BY <1>1
  <2> HIDE DEF seqs, W
  <2>2. seqs \in Seq(W) /\ Len(seqs) = 15
    <3>1. 15 \in Nat
      OBVIOUS
    <3> QED BY <2>1, <3>1, ArrayIsSeq, Zenon
  <2> QED BY <2>2 DEF W
<1>3. Header(h) = Joined(seqs)
  BY FieldsAre DEF Header
<1>s. \A k \in 1 .. 15 : seqs[k] = Encoded(h)[Fields[k]]
  OBVIOUS
<1> HIDE DEF seqs
<1>4. PICK f : IsFlat(f, seqs, Byte)
  BY <1>2, FlatExists
<1>5. /\ f \in [0 .. 15 -> Seq(Byte)] /\ f[0] = <<>>
      /\ \A k \in 1 .. 15 : f[k] = f[k - 1] \o seqs[k]
  BY <1>2, <1>4, Zenon DEF IsFlat
<1> DEFINE S == {k \in 0 .. 15 : Len(f[k]) = Offset[k]}
<1>6. 0 \in S
  BY <1>5, OffsetIs
<1>7. ASSUME NEW k \in 0 .. 15 - 1, k \in S PROVE k + 1 \in S
  <2> DEFINE j == k + 1
             x == f[k]
             y == seqs[j]
  <2>1. j \in 1 .. 15 /\ j \in 0 .. 15 /\ j - 1 = k /\ k \in 0 .. 15
    OBVIOUS
  <2>2. x \in Seq(Byte) /\ y \in Seq(Byte) /\ f[j] = x \o y
    BY <2>1, <1>1, <1>5, Zenon
  <2>3. Len(x) = Offset[k] /\ Len(y) = Width[Fields[j]] /\ Offset[j] = Offset[k] + Width[Fields[j]]
    BY <2>1, <1>1, <1>7, OffsetIs, Zenon
  <2> HIDE DEF x, y, j
  <2>4. Len(x \o y) = Len(x) + Len(y)
    BY <2>2, ConcatProperties
  <2>5. Len(f[j]) = Offset[j]
    BY <2>2, <2>3, <2>4
  <2> QED BY <2>1, <2>5 DEF j
<1>8. 0 .. 15 \subseteq S
  <2> HIDE DEF S
  <2> QED BY <1>6, <1>7, UpTo
<1>9. \A k \in 0 .. 15 : Len(f[k]) = Offset[k]
  BY <1>8, Zenon
<1>10. Header(h) = f[15]
  BY <1>2, <1>3, <1>4, JoinedIs, Zenon
<1>11. Header(h) \in Seq(Byte) /\ Len(Header(h)) = HeaderLen
  <2>1. 15 \in 0 .. 15
    OBVIOUS
  <2> QED BY <2>1, <1>5, <1>9, <1>10, FieldsAre DEF HeaderLen
<1>12. ASSUME NEW rest \in Seq(Byte), NEW k \in 1 .. 15
       PROVE  FieldAt(Header(h) \o rest, k) = Encoded(h)[Fields[k]]
  <2>1. k \in 1 .. Len(seqs) /\ k \in 0 .. 15 /\ k - 1 \in 0 .. 15
    BY <1>2
  <2>2. SubSeq(Joined(seqs) \o rest, Len(f[k - 1]) + 1, Len(f[k])) = seqs[k]
    <3>1. seqs \in Seq(Seq(Byte)) /\ k \in 1 .. Len(seqs)
      BY <2>1, <1>2
    <3> QED BY <3>1, <1>4, JoinedPart, Zenon
  <2>3. Len(f[k - 1]) = Offset[k - 1] /\ Len(f[k]) = Offset[k]
    BY <2>1, <1>9, Zenon
  <2> QED BY <2>2, <2>3, <1>3, <1>s, Zenon DEF FieldAt
<1> QED BY <1>11, <1>12

\* FieldsOf by number.
LEMMA FieldsOfIs ==
  ASSUME NEW bytes, NEW k \in 1 .. 15
  PROVE  FieldsOf(bytes)[Fields[k]] = FieldAt(bytes, k)
<1>1. (CHOOSE j \in DOMAIN Fields : Fields[j] = Fields[k]) = k
  BY FieldsAre
<1>2. Fields[k] \in DOMAIN Width
  BY FieldsAre, WidthIs
<1> QED BY <1>1, <1>2, Zenon DEF FieldsOf

\* A header and the rest are read.
IsRead(r, h, rest) ==
  /\ r.lex.err = FALSE /\ r.lex.data = rest
  /\ \A name \in Names : r.got[name] = Encoded(h)[name]

\* What is read of a written packet is what was encoded.
LEMMA ReadsHeader ==
  ASSUME NEW h, IsHeader(h), NEW rest \in Seq(Byte), NEW xid \in Seq(Byte), Len(xid) = txidLen
  PROVE  IsRead(ReadFields(Header(h) \o rest, xid), h, rest)
<1> DEFINE b == Header(h)
           w == b \o rest
           r == ReadFields(w, xid)
<1>1. b \in Seq(Byte) /\ Len(b) = HeaderLen /\ Len(b) \in Nat /\ Len(rest) \in Nat
  BY HeaderIs, LenProperties
<1>2. /\ w \in Seq(Byte) /\ Len(w) = Len(b) + Len(rest)
      /\ SubSeq(w, Len(b) + 1, Len(w)) = rest
  <2>1. b \in Seq(Byte)
    BY <1>1
  <2> HIDE DEF b
  <2> QED BY <2>1, PartsOfCat
<1>3. \A k \in 1 .. 15 : FieldAt(w, k) = Encoded(h)[Fields[k]]
  BY HeaderIs, Zenon
<1> HIDE DEF w, b
<1>4. /\ r \in Readers
      /\ r.lex.err <=> Len(w) < HeaderLen
      /\ ~r.lex.err =>
           /\ r.lex.data = SubSeq(w, HeaderLen + 1, Len(w))
           /\ \A k \in 1 .. 15 : r.got[Fields[k]] = FieldAt(w, k)
  BY <1>2, ReadFieldsIs, Zenon
<1>5. ~(Len(w) < HeaderLen)
  BY <1>1, <1>2
<1> HIDE DEF r
<1>6. r.lex.err = FALSE
  <2>1. r.lex.err \in BOOLEAN
    BY <1>4 DEF Readers
  <2> QED BY <2>1, <1>4, <1>5
<1>7. r.lex.data = rest
  BY <1>1, <1>2, <1>4, <1>5, Zenon
<1>8. ASSUME NEW name \in Names PROVE r.got[name] = Encoded(h)[name]
  <2>1. PICK k \in 1 .. 15 : Fields[k] = name
    BY FieldsAre
  <2> QED BY <2>1, <1>3, <1>4, <1>5, Zenon
<1> QED BY <1>6, <1>7, <1>8 DEF IsRead, r, w, b

------------------------------------------------------------------------------
(* The header written and read *)

\* A name without a zero is itself, and any other ends before its first zero.
LEMMA NameIs ==
  ASSUME NEW s \in Seq(Byte)
  PROVE  /\ Name(s) \in Seq(Byte)
         /\ (\A i \in 1 .. Len(s) : s[i] # 0) => Name(s) = s
         /\ \A m \in 1 .. Len(s) : s[m] = 0 /\ (\A i \in 1 .. m - 1 : s[i] # 0) =>
              Name(s) = SubSeq(s, 1, m - 1)
<1> DEFINE Z == {k \in 1 .. Len(s) : s[k] = 0}
<1>0. DOMAIN s = 1 .. Len(s) /\ Len(s) \in Nat
  BY LenProperties
<1>1. Name(s) = IF Z = {} THEN s ELSE SubSeq(s, 1, Min(Z) - 1)
  BY <1>0 DEF Name
<1>2. Z # {} => Min(Z) \in Z /\ \A y \in Z : Min(Z) <= y
  <2>1. Z \subseteq Nat
    OBVIOUS
  <2> HIDE DEF Z
  <2> QED BY <2>1, Least, Zenon DEF Min
<1>3. Name(s) \in Seq(Byte)
  <2>1. CASE Z = {}
    BY <1>1, <2>1
  <2>2. CASE Z # {}
    <3> DEFINE m == Min(Z)
    <3>1. m \in 1 .. Len(s)
      BY <1>2, <2>2
    <3>2. m - 1 \in 0 .. Len(s)
      <4> HIDE DEF m
      <4> QED BY <3>1, <1>0
    <3>3. SubSeq(s, 1, m - 1) \in Seq(Byte)
      <4> HIDE DEF m
      <4> QED BY <3>2, CutAfter
    <3> HIDE DEF Z
    <3> QED BY <1>1, <2>2, <3>3
  <2> QED BY <2>1, <2>2
<1>4. (\A i \in 1 .. Len(s) : s[i] # 0) => Name(s) = s
  BY <1>1
<1>5. ASSUME NEW m \in 1 .. Len(s), s[m] = 0, \A i \in 1 .. m - 1 : s[i] # 0
      PROVE  Name(s) = SubSeq(s, 1, m - 1)
  <2>1. m \in Z
    BY <1>5
  <2>2. Min(Z) \in 1 .. Len(s) /\ s[Min(Z)] = 0 /\ Min(Z) <= m
    BY <1>2, <2>1
  <2>3. Z # {}
    BY <2>1
  <2> DEFINE k == Min(Z)
  <2> HIDE DEF Z
  <2>4. k = m
    <3>1. k \in 1 .. Len(s) /\ s[k] = 0 /\ k <= m
      BY <2>2
    <3> HIDE DEF k
    <3>2. ~(k < m)
      <4>1. k < m => k \in 1 .. m - 1
        BY <3>1, <1>0
      <4> QED BY <4>1, <3>1, <1>5
    <3> QED BY <3>1, <3>2, <1>0
  <2> QED BY <1>1, <2>3, <2>4
<1> QED BY <1>3, <1>4, <1>5

\* A name that leaves room for its zero is read back.
LEMMA NameCopied ==
  ASSUME NEW n \in Nat, NEW s \in Seq(Byte), Len(s) < n
  PROVE  Name(Copied(n, s)) = Name(s) /\ 0 \in Range(Copied(n, s))
<1> DEFINE c == Copied(n, s)
           L == Len(s)
<1>1. L \in Nat /\ L < n /\ \A i \in 1 .. L : s[i] \in Byte
  BY LenProperties, ElementOfSeq
<1>2. c \in Seq(Byte) /\ Len(c) = n /\ DOMAIN c = 1 .. n
  BY CopiedType, LenProperties
<1>3. \A i \in 1 .. n : c[i] = IF i <= L THEN s[i] ELSE 0
  BY DEF Copied
<1> HIDE DEF c, L
<1>4. 0 \in Range(c)
  <2>1. L + 1 \in 1 .. n /\ ~(L + 1 <= L)
    BY <1>1
  <2>2. c[L + 1] = 0
    BY <2>1, <1>3
  <2> QED BY <2>1, <2>2, <1>2 DEF Range
<1>5. ASSUME NEW m \in 0 .. L PROVE SubSeq(c, 1, m) = SubSeq(s, 1, m)
  <2> DEFINE x == SubSeq(c, 1, m)
             y == SubSeq(s, 1, m)
  <2>1. m \in 0 .. Len(c) /\ m \in 0 .. Len(s)
    BY <1>1, <1>2 DEF L
  <2>2. x \in Seq(Byte) /\ Len(x) = m /\ \A i \in 1 .. m : x[i] = c[i]
    BY <2>1, <1>2, CutAfter
  <2>3. y \in Seq(Byte) /\ Len(y) = m /\ \A i \in 1 .. m : y[i] = s[i]
    BY <2>1, CutAfter
  <2> HIDE DEF x, y
  <2>4. ASSUME NEW i \in 1 .. m PROVE x[i] = y[i]
    <3>1. i \in 1 .. n /\ i <= L
      BY <1>1
    <3> QED BY <3>1, <2>2, <2>3, <1>3
  <2>5. x = y
    BY <2>2, <2>3, <2>4, SeqEqual
  <2> QED BY <2>5 DEF x, y
<1>6. CASE \A i \in 1 .. L : s[i] # 0
  <2>1. Name(s) = s
    BY <1>6, NameIs DEF L
  <2>2. L + 1 \in 1 .. n /\ ~(L + 1 <= L) /\ (L + 1) - 1 = L
    BY <1>1
  <2>3. c[L + 1] = 0
    BY <2>2, <1>3
  <2>4. \A i \in 1 .. (L + 1) - 1 : c[i] # 0
    <3>1. \A i \in 1 .. L : i \in 1 .. n /\ i <= L
      BY <1>1
    <3> QED BY <3>1, <2>2, <1>3, <1>6
  <2>5. Name(c) = SubSeq(c, 1, (L + 1) - 1)
    <3> DEFINE m == L + 1
    <3>1. m \in 1 .. Len(c) /\ c[m] = 0 /\ \A i \in 1 .. m - 1 : c[i] # 0
      BY <2>2, <2>3, <2>4, <1>2
    <3> HIDE DEF m
    <3>2. Name(c) = SubSeq(c, 1, m - 1)
      BY <3>1, <1>2, NameIs, Zenon
    <3> QED BY <3>2 DEF m
  <2>6. SubSeq(s, 1, L) = s
    BY SubSeqFull DEF L
  <2>7. L \in 0 .. L
    BY <1>1
  <2> QED BY <2>1, <2>2, <2>5, <2>6, <2>7, <1>4, <1>5 DEF c
<1>7. CASE \E i \in 1 .. L : s[i] = 0
  <2> DEFINE Z == {i \in 1 .. L : s[i] = 0}
             m == Min(Z)
  <2>1. m \in Z /\ \A y \in Z : m <= y
    <3>1. Z \subseteq Nat /\ Z # {}
      BY <1>7
    <3> HIDE DEF Z
    <3> QED BY <3>1, Least, Zenon DEF Min
  <2>2. m \in 1 .. L /\ s[m] = 0
    BY <2>1
  <2>3. ASSUME NEW i \in 1 .. m - 1 PROVE s[i] # 0
    <3>1. i \in 1 .. L /\ ~(m <= i)
      <4> HIDE DEF m
      <4> QED BY <2>2, <1>1
    <3> QED BY <3>1, <2>1
  <2> HIDE DEF m, Z
  <2>4. Name(s) = SubSeq(s, 1, m - 1)
    BY <2>2, <2>3, NameIs DEF L
  <2>5. m \in 1 .. n /\ m <= L /\ m - 1 \in 0 .. L
    BY <2>2, <1>1
  <2>6. c[m] = 0
    BY <2>2, <2>5, <1>3
  <2>7. ASSUME NEW i \in 1 .. m - 1 PROVE c[i] # 0
    <3>1. i \in 1 .. n /\ i <= L
      BY <2>5, <1>1
    <3> QED BY <3>1, <2>3, <1>3
  <2>8. Name(c) = SubSeq(c, 1, m - 1)
    BY <2>5, <2>6, <2>7, <1>2, NameIs, Zenon
  <2> QED BY <2>4, <2>5, <2>8, <1>4, <1>5 DEF c
<1> QED BY <1>6, <1>7

\* hlen is a length that the hardware address has.
LEMMA hlenType ==
  ASSUME NEW byte \in Byte
  PROVE  hlen(byte) \in 0 .. chaddrLen /\ hlen(byte) <= MaxUint8
BY FormatAssumption, BytesAssumption DEF hlen, Byte

\* Whatever the reads gave, the fields are those of a Packet.
LEMMA DecodedType ==
  ASSUME NEW f \in [Names -> Seq(Byte)], \A name \in Names : Len(f[name]) = Width[name],
         NEW b \in BOOLEAN
  PROVE  IsHeader(Decoded(f, b))
<1> DEFINE d == Decoded(f, b)
<1>1. \A name \in Names : f[name] \in Seq(Byte)
  OBVIOUS
<1>2. /\ Len(f.op) = 1 /\ Len(f.htype) = 1 /\ Len(f.hops) = 1 /\ Len(f.hlen) = 1
      /\ Len(f.xid) = txidLen /\ Len(f.secs) = 2 /\ Len(f.chaddr) = chaddrLen
      /\ Len(f.ciaddr) = IPv4len /\ Len(f.yiaddr) = IPv4len
      /\ Len(f.siaddr) = IPv4len /\ Len(f.giaddr) = IPv4len
  BY DEF Names, Width
<1>3. /\ f.op \in Seq(Byte) /\ f.htype \in Seq(Byte) /\ f.hops \in Seq(Byte) /\ f.hlen \in Seq(Byte)
      /\ f.xid \in Seq(Byte) /\ f.secs \in Seq(Byte) /\ f.chaddr \in Seq(Byte)
      /\ f.ciaddr \in Seq(Byte) /\ f.yiaddr \in Seq(Byte) /\ f.siaddr \in Seq(Byte)
      /\ f.giaddr \in Seq(Byte) /\ f.sname \in Seq(Byte) /\ f.file \in Seq(Byte)
  BY <1>1 DEF Names
<1>4. ASSUME NEW s \in Seq(Byte), Len(s) = 1 PROVE s[1] \in Byte
  <2>1. 1 \in 1 .. Len(s)
    BY <1>4
  <2> QED BY <2>1, ElementOfSeq
<1>5. f.op[1] \in Byte /\ f.htype[1] \in Byte /\ f.hops[1] \in Byte /\ f.hlen[1] \in Byte
  BY <1>2, <1>3, <1>4
<1>6. Uint(f.secs) \in 0 .. Power(2) - 1
  BY <1>2, <1>3, UintBound, Zenon
<1>7. Name(f.sname) \in Seq(Byte) /\ Name(f.file) \in Seq(Byte)
  BY <1>3, NameIs, Zenon
<1> DEFINE c == SubSeq(f.chaddr, 1, hlen(f.hlen[1]))
<1>8. c \in Seq(Byte) /\ Len(c) <= MaxUint8
  <2>1. hlen(f.hlen[1]) \in 0 .. Len(f.chaddr) /\ hlen(f.hlen[1]) <= MaxUint8
    BY <1>2, <1>5, hlenType
  <2> QED BY <2>1, <1>3, CutAfter
<1> DEFINE bc == b \/ Uint(f.flags) >= flagBroadcast
<1>9. bc \in BOOLEAN
  OBVIOUS
<1>10. d = [op |-> f.op[1], htype |-> f.htype[1], hops |-> f.hops[1], xid |-> f.xid,
            secs |-> Uint(f.secs), broadcast |-> bc, ciaddr |-> f.ciaddr, yiaddr |-> f.yiaddr,
            siaddr |-> f.siaddr, giaddr |-> f.giaddr, chaddr |-> c,
            sname |-> Name(f.sname), file |-> Name(f.file)]
  BY DEF Decoded
<1> HIDE DEF d, c, bc
<1>11. /\ d \in [op : Byte, htype : Byte, hops : Byte, xid : Seq(Byte), secs : 0 .. Power(2) - 1,
               broadcast : BOOLEAN, ciaddr : Seq(Byte), yiaddr : Seq(Byte), siaddr : Seq(Byte),
               giaddr : Seq(Byte), chaddr : Seq(Byte), sname : Seq(Byte), file : Seq(Byte)]
       /\ d.xid = f.xid /\ d.chaddr = c /\ d.ciaddr = f.ciaddr /\ d.yiaddr = f.yiaddr
       /\ d.siaddr = f.siaddr /\ d.giaddr = f.giaddr
  BY <1>3, <1>5, <1>6, <1>7, <1>8, <1>9, <1>10
<1>12. IPv4len \in Nat
  BY AddressBytesAssumption
<1>13. \A ip \in {d.ciaddr, d.yiaddr, d.siaddr, d.giaddr} : Len(ip) >= IPv4len
  BY <1>2, <1>11, <1>12
<1>14. Len(d.xid) = txidLen /\ Len(d.chaddr) <= MaxUint8
  BY <1>2, <1>8, <1>11
<1>15. IsHeader(d)
  BY <1>11, <1>13, <1>14 DEF IsHeader
<1> QED BY <1>15 DEF d

\* A hardware address, cut to its field, is read back.
LEMMA ChaddrCopied ==
  ASSUME NEW s \in Seq(Byte), Len(s) <= MaxUint8
  PROVE  SubSeq(Copied(chaddrLen, s), 1, hlen(Len(s) % Base)) =
           IF Len(s) > chaddrLen THEN SubSeq(s, 1, chaddrLen) ELSE s
<1> DEFINE c == Copied(chaddrLen, s)
           m == hlen(Len(s) % Base)
<1>1. chaddrLen \in Nat /\ MaxUint8 \in Nat /\ Len(s) \in Nat /\ Base = MaxUint8 + 1
  BY FormatAssumption, BytesAssumption, LenProperties DEF Base
<1>2. Len(s) % Base = Len(s)
  <2>1. \A n \in Nat : \A x \in 0 .. n : x % (n + 1) = x
    OBVIOUS
  <2> QED BY <2>1, <1>1
<1>3. m = IF Len(s) > chaddrLen THEN chaddrLen ELSE Len(s)
  BY <1>2 DEF hlen
<1>4. m \in 0 .. Len(s) /\ m \in 0 .. chaddrLen
  BY <1>1, <1>3
<1>5. c \in Seq(Byte) /\ Len(c) = chaddrLen /\ \A i \in 1 .. chaddrLen : c[i] = IF i <= Len(s) THEN s[i] ELSE 0
  BY <1>1, CopiedType DEF Copied
<1> DEFINE x == SubSeq(c, 1, m)
           y == SubSeq(s, 1, m)
<1> HIDE DEF c, m
<1>6. x \in Seq(Byte) /\ Len(x) = m /\ \A i \in 1 .. m : x[i] = c[i]
  BY <1>4, <1>5, CutAfter
<1>7. y \in Seq(Byte) /\ Len(y) = m /\ \A i \in 1 .. m : y[i] = s[i]
  BY <1>4, CutAfter
<1> HIDE DEF x, y
<1>8. ASSUME NEW i \in 1 .. m PROVE x[i] = y[i]
  <2>1. i \in 1 .. chaddrLen /\ i <= Len(s)
    BY <1>1, <1>4
  <2> QED BY <2>1, <1>5, <1>6, <1>7
<1>9. x = y
  BY <1>6, <1>7, <1>8, SeqEqual
<1>10. CASE Len(s) > chaddrLen
  BY <1>3, <1>9, <1>10, Zenon DEF x, y, c, m
<1>11. CASE ~(Len(s) > chaddrLen)
  <2>1. y = s
    BY <1>3, <1>11, SubSeqFull DEF y
  <2> QED BY <1>9, <1>11, <2>1 DEF x, c, m
<1> QED BY <1>10, <1>11, Zenon

\* The fields of a Packet.
PacketNames == {"op", "htype", "hops", "xid", "secs", "broadcast", "ciaddr", "yiaddr",
                "siaddr", "giaddr", "chaddr", "sname", "file"}

\* A header that was written is read back, up to what the wire cannot tell.
LEMMA DecodedEncoded ==
  ASSUME NEW h, IsHeader(h), ~NoRoom(h), FourBytes(h),
         NEW f, \A name \in Names : f[name] = Encoded(h)[name]
  PROVE  Decoded(f, FALSE) = Normal(h)
<1> DEFINE d == Decoded(f, FALSE)
           n == Normal(h)
           flags == IF h.broadcast THEN flagBroadcast ELSE 0
<1>1. /\ f.op = <<h.op>> /\ f.htype = <<h.htype>> /\ f.hlen = <<Len(h.chaddr) % Base>>
      /\ f.hops = <<h.hops>> /\ f.xid = h.xid /\ f.secs = PutUint(2, h.secs)
      /\ f.flags = PutUint(2, flags)
      /\ f.ciaddr = writeIP(h.ciaddr) /\ f.yiaddr = writeIP(h.yiaddr)
      /\ f.siaddr = writeIP(h.siaddr) /\ f.giaddr = writeIP(h.giaddr)
      /\ f.chaddr = Copied(chaddrLen, h.chaddr) /\ f.sname = Copied(snameLen, h.sname)
      /\ f.file = Copied(fileLen, h.file)
  BY DEF Names, Encoded
<1>2. Uint(PutUint(2, h.secs)) = h.secs
  BY HeaderFields, UintOfPutUint, Zenon
<1>3. (FALSE \/ Uint(f.flags) >= flagBroadcast) = h.broadcast
  <2>1. flags \in Nat /\ flags < Power(2)
    <3>1. Power(2) \in Nat
      BY PowerIs
    <3> QED BY <3>1, FlagIs
  <2>2. Uint(PutUint(2, flags)) = flags
    <3> HIDE DEF flags
    <3> QED BY <2>1, UintOfPutUint
  <2>3. h.broadcast \in BOOLEAN
    BY HeaderFields
  <2>4. CASE h.broadcast = TRUE
    <3>1. Uint(f.flags) = flagBroadcast
      BY <2>2, <2>4, <1>1
    <3>2. Uint(f.flags) >= flagBroadcast
      BY <3>1, FlagIs
    <3> QED BY <3>2, <2>4, Zenon
  <2>5. CASE h.broadcast = FALSE
    <3>1. Uint(f.flags) = 0
      BY <2>2, <2>5, <1>1
    <3>2. ~(Uint(f.flags) >= flagBroadcast)
      BY <3>1, FlagIs
    <3> QED BY <3>2, <2>5, Zenon
  <2> QED BY <2>3, <2>4, <2>5, Zenon
<1>4. ASSUME NEW ip \in {h.ciaddr, h.yiaddr, h.siaddr, h.giaddr}
      PROVE  writeIP(ip) = IF ip = Nil THEN Zeros(IPv4len) ELSE ip
  <2>1. ip \in Seq(Byte) /\ (ip = Nil \/ Len(ip) = IPv4len)
    BY HeaderFields DEF FourBytes, IPFields
  <2>2. CASE ip = Nil
    BY <2>2 DEF writeIP
  <2>3. CASE ip # Nil
    BY <2>1, <2>3, SubSeqFull DEF writeIP
  <2> QED BY <2>2, <2>3
<1>5. Name(Copied(snameLen, h.sname)) = Name(h.sname) /\ Name(Copied(fileLen, h.file)) = Name(h.file)
  <2>1. /\ h.sname \in Seq(Byte) /\ h.file \in Seq(Byte) /\ snameLen \in Nat /\ fileLen \in Nat
        /\ Len(h.sname) \in Nat /\ Len(h.file) \in Nat
    BY HeaderFields, FormatAssumption, LenProperties
  <2>2. Len(h.sname) < snameLen /\ Len(h.file) < fileLen
    BY <2>1 DEF NoRoom
  <2> QED BY <2>1, <2>2, NameCopied
<1>6. SubSeq(f.chaddr, 1, hlen(f.hlen[1])) = IF Len(h.chaddr) > chaddrLen THEN SubSeq(h.chaddr, 1, chaddrLen) ELSE h.chaddr
  <2>1. f.hlen[1] = Len(h.chaddr) % Base
    BY <1>1
  <2>2. h.chaddr \in Seq(Byte) /\ Len(h.chaddr) <= MaxUint8
    BY HeaderFields
  <2> QED BY <1>1, <2>1, <2>2, ChaddrCopied, Zenon
<1>7. DOMAIN h = PacketNames
  BY DEF IsHeader, PacketNames
<1>8. /\ d = [x \in PacketNames |-> d[x]]
      /\ d.op = h.op /\ d.htype = h.htype /\ d.hops = h.hops /\ d.xid = h.xid /\ d.secs = h.secs
      /\ d.ciaddr = writeIP(h.ciaddr) /\ d.yiaddr = writeIP(h.yiaddr)
      /\ d.siaddr = writeIP(h.siaddr) /\ d.giaddr = writeIP(h.giaddr)
      /\ d.sname = Name(h.sname) /\ d.file = Name(h.file)
      /\ d.chaddr = IF Len(h.chaddr) > chaddrLen THEN SubSeq(h.chaddr, 1, chaddrLen) ELSE h.chaddr
  <2> DEFINE bc == FALSE \/ Uint(f.flags) >= flagBroadcast
             c == SubSeq(f.chaddr, 1, hlen(f.hlen[1]))
  <2>1. d = [op |-> f.op[1], htype |-> f.htype[1], hops |-> f.hops[1], xid |-> f.xid,
             secs |-> Uint(f.secs), broadcast |-> bc, ciaddr |-> f.ciaddr, yiaddr |-> f.yiaddr,
             siaddr |-> f.siaddr, giaddr |-> f.giaddr, chaddr |-> c,
             sname |-> Name(f.sname), file |-> Name(f.file)]
    BY DEF Decoded
  <2>2. f.op[1] = h.op /\ f.htype[1] = h.htype /\ f.hops[1] = h.hops
    BY <1>1
  <2> HIDE DEF d, bc
  <2> QED BY <1>1, <1>2, <1>5, <1>6, <2>1, <2>2, Zenon DEF PacketNames
<1>9. d.broadcast = h.broadcast
  BY <1>3 DEF Decoded
<1>10. n = [x \in PacketNames |->
              CASE x \in IPFields /\ h[x] = Nil -> Zeros(IPv4len)
                [] x \in {"sname", "file"} -> Name(h[x])
                [] x = "chaddr" /\ Len(h[x]) > chaddrLen -> SubSeq(h[x], 1, chaddrLen)
                [] OTHER -> h[x]]
  BY <1>7 DEF Normal
<1> HIDE DEF d, n
<1>11. \A x \in {"op", "htype", "hops", "xid", "secs", "broadcast"} : d[x] = n[x]
  BY <1>8, <1>9, <1>10 DEF PacketNames, IPFields
<1>12. \A x \in {"sname", "file"} : d[x] = n[x]
  BY <1>8, <1>10 DEF PacketNames, IPFields
<1>13. d["chaddr"] = n["chaddr"]
  BY <1>8, <1>10 DEF PacketNames, IPFields
<1>14. \A x \in IPFields : d[x] = n[x]
  <2>1. /\ d.ciaddr = (IF h.ciaddr = Nil THEN Zeros(IPv4len) ELSE h.ciaddr)
        /\ d.yiaddr = (IF h.yiaddr = Nil THEN Zeros(IPv4len) ELSE h.yiaddr)
        /\ d.siaddr = (IF h.siaddr = Nil THEN Zeros(IPv4len) ELSE h.siaddr)
        /\ d.giaddr = (IF h.giaddr = Nil THEN Zeros(IPv4len) ELSE h.giaddr)
    BY <1>4, <1>8
  <2> QED BY <2>1, <1>10 DEF PacketNames, IPFields
<1>15. \A x \in PacketNames : d[x] = n[x]
  BY <1>11, <1>12, <1>13, <1>14 DEF PacketNames, IPFields
<1>16. n = [x \in PacketNames |-> n[x]]
  BY <1>10
<1>17. d = n
  BY <1>8, <1>15, <1>16
<1> QED BY <1>17, Zenon DEF d, n
------------------------------------------------------------------------------
(* Options on the wire *)

\* One piece of an option on the wire.
IsChunk(code, data) ==
  /\ code \in Byte \ {Pad, End}
  /\ data \in Seq(Byte)
  /\ data # <<>> /\ Len(data) <= MaxUint8

Chunk(code, data) == <<code, Len(data)>> \o data

\* Unmarshal between two rounds of its loop: the bytes that are left, and the
\* options so far.
Point(bytes, o) == [bytes |-> bytes, opts |-> o]

ReadsChunk(a, b) ==
  \E code, data :
    /\ IsChunk(code, data)
    /\ a.bytes = Chunk(code, data) \o b.bytes
    /\ b.opts = AddRaw(a.opts, code, data)

IsTrace(f, n, a, z) ==
  /\ f[0] = a /\ f[n] = z
  /\ \A i \in 0 .. n : f[i] = Point(f[i].bytes, f[i].opts) /\ f[i].bytes \in Seq(Byte)
  /\ \A i \in 1 .. n : ReadsChunk(f[i - 1], f[i])

\* From one point, chunk by chunk, to another.
Reads(a, z) == \E n \in Nat : \E f : IsTrace(f, n, a, z)

\* The bytes of a chunk.
LEMMA ChunkType ==
  ASSUME NEW code, NEW data, IsChunk(code, data)
  PROVE  /\ Chunk(code, data) \in Seq(Byte) /\ Len(Chunk(code, data)) = 2 + Len(data)
         /\ Len(data) \in 1 .. MaxUint8
         /\ Chunk(code, data)[1] = code /\ Chunk(code, data)[2] = Len(data)
<1>1. Len(data) \in Nat /\ Len(data) # 0 /\ Len(data) <= MaxUint8 /\ data \in Seq(Byte) /\ code \in Byte
  BY DEF IsChunk
<1>2. Len(data) \in 1 .. MaxUint8 /\ Len(data) \in Byte
  BY <1>1, BytesAssumption DEF Byte
<1> DEFINE h == <<code, Len(data)>>
<1>3. h \in Seq(Byte) /\ Len(h) = 2 /\ h[1] = code /\ h[2] = Len(data)
  BY <1>1, <1>2
<1> HIDE DEF h
<1>4. /\ h \o data \in Seq(Byte) /\ Len(h \o data) = Len(h) + Len(data)
      /\ \A i \in 1 .. Len(h) + Len(data) : (h \o data)[i] = IF i <= Len(h) THEN h[i] ELSE data[i - Len(h)]
  BY <1>1, <1>3, ConcatProperties, Zenon
<1>5. (h \o data)[1] = h[1] /\ (h \o data)[2] = h[2]
  BY <1>1, <1>3, <1>4
<1> QED BY <1>2, <1>3, <1>4, <1>5 DEF Chunk, h

\* No chunk read leaves the lexer where it is.
LEMMA ReadsNothing ==
  ASSUME NEW b \in Seq(Byte), NEW o
  PROVE  Reads(Point(b, o), Point(b, o))
<1> DEFINE f == [i \in 0 .. 0 |-> Point(b, o)]
<1>1. IsTrace(f, 0, Point(b, o), Point(b, o))
  BY DEF IsTrace, Point
<1> QED BY <1>1 DEF Reads

\* The same chunks are read when other bytes follow.
LEMMA ReadsBefore ==
  ASSUME NEW b, NEW o, NEW c, NEW p, Reads(Point(b, o), Point(c, p)), NEW t \in Seq(Byte)
  PROVE  Reads(Point(b \o t, o), Point(c \o t, p))
<1>0. PICK n \in Nat : \E f : IsTrace(f, n, Point(b, o), Point(c, p))
  BY DEF Reads
<1>1. PICK f : IsTrace(f, n, Point(b, o), Point(c, p))
  BY <1>0
<1>2. /\ f[0] = Point(b, o) /\ f[n] = Point(c, p)
      /\ \A i \in 0 .. n : f[i] = Point(f[i].bytes, f[i].opts) /\ f[i].bytes \in Seq(Byte)
      /\ \A i \in 1 .. n : ReadsChunk(f[i - 1], f[i])
  BY <1>1 DEF IsTrace
<1> DEFINE g == [i \in 0 .. n |-> Point(f[i].bytes \o t, f[i].opts)]
<1>3. \A i \in 0 .. n : /\ g[i] = Point(f[i].bytes \o t, f[i].opts)
                        /\ g[i].bytes = f[i].bytes \o t /\ g[i].opts = f[i].opts
  BY DEF Point
<1> HIDE DEF g
<1>4. g[0] = Point(b \o t, o) /\ g[n] = Point(c \o t, p)
  <2>1. 0 \in 0 .. n /\ n \in 0 .. n
    OBVIOUS
  <2>2. f[0].bytes = b /\ f[0].opts = o /\ f[n].bytes = c /\ f[n].opts = p
    BY <1>2 DEF Point
  <2> QED BY <2>1, <2>2, <1>3
<1>5. ASSUME NEW i \in 0 .. n
      PROVE  g[i] = Point(g[i].bytes, g[i].opts) /\ g[i].bytes \in Seq(Byte)
  <2>1. f[i].bytes \o t \in Seq(Byte)
    BY <1>2, ConcatProperties
  <2> QED BY <1>3, <2>1, Zenon
<1>6. ASSUME NEW i \in 1 .. n PROVE ReadsChunk(g[i - 1], g[i])
  <2>1. i \in 0 .. n /\ i - 1 \in 0 .. n
    OBVIOUS
  <2>2. PICK code, data : /\ IsChunk(code, data)
                          /\ f[i - 1].bytes = Chunk(code, data) \o f[i].bytes
                          /\ f[i].opts = AddRaw(f[i - 1].opts, code, data)
    BY <1>2, Zenon DEF ReadsChunk
  <2> DEFINE x == Chunk(code, data)
             y == f[i].bytes
  <2>3. x \in Seq(Byte) /\ y \in Seq(Byte)
    BY <1>2, <2>1, <2>2, ChunkType
  <2>4. g[i - 1].bytes = (x \o y) \o t /\ g[i].bytes = y \o t
    BY <1>3, <2>1, <2>2, Zenon
  <2>5. g[i].opts = AddRaw(g[i - 1].opts, code, data)
    BY <1>3, <2>1, <2>2
  <2> HIDE DEF x, y
  <2>6. (x \o y) \o t = x \o (y \o t)
    BY <2>3, ConcatAssociative
  <2>7. g[i - 1].bytes = Chunk(code, data) \o g[i].bytes
    BY <2>4, <2>6 DEF x
  <2> QED BY <2>2, <2>5, <2>7, Zenon DEF ReadsChunk
<1>7. IsTrace(g, n, Point(b \o t, o), Point(c \o t, p))
  BY <1>4, <1>5, <1>6 DEF IsTrace
<1> QED BY <1>7 DEF Reads

\* One chunk more.
LEMMA ReadsOneMore ==
  ASSUME NEW a, NEW z, Reads(a, z), NEW c \in Seq(Byte), NEW p, ReadsChunk(z, Point(c, p))
  PROVE  Reads(a, Point(c, p))
<1>0. PICK n \in Nat : \E f : IsTrace(f, n, a, z)
  BY DEF Reads
<1>1. PICK f : IsTrace(f, n, a, z)
  BY <1>0
<1>2. /\ f[0] = a /\ f[n] = z
      /\ \A i \in 0 .. n : f[i] = Point(f[i].bytes, f[i].opts) /\ f[i].bytes \in Seq(Byte)
      /\ \A i \in 1 .. n : ReadsChunk(f[i - 1], f[i])
  BY <1>1 DEF IsTrace
<1> DEFINE y == Point(c, p)
           g == [i \in 0 .. n + 1 |-> IF i = n + 1 THEN y ELSE f[i]]
<1>3. /\ g[n + 1] = y /\ \A i \in 0 .. n : g[i] = f[i]
  OBVIOUS
<1>y. y = Point(y.bytes, y.opts) /\ y.bytes \in Seq(Byte)
  BY DEF Point
<1> HIDE DEF g, y
<1>4. g[0] = a
  BY <1>2, <1>3
<1>5. ASSUME NEW i \in 0 .. n + 1
      PROVE  g[i] = Point(g[i].bytes, g[i].opts) /\ g[i].bytes \in Seq(Byte)
  <2>1. CASE i = n + 1
    BY <2>1, <1>3, <1>y
  <2>2. CASE i # n + 1
    <3>1. i \in 0 .. n
      BY <2>2
    <3> QED BY <3>1, <1>2, <1>3
  <2> QED BY <2>1, <2>2
<1>6. ASSUME NEW i \in 1 .. n + 1 PROVE ReadsChunk(g[i - 1], g[i])
  <2>1. CASE i = n + 1
    <3>1. i - 1 = n /\ n \in 0 .. n
      BY <2>1
    <3> QED BY <2>1, <3>1, <1>2, <1>3 DEF y
  <2>2. CASE i # n + 1
    <3>1. i \in 0 .. n /\ i \in 1 .. n /\ i - 1 \in 0 .. n
      BY <2>2
    <3> QED BY <3>1, <1>2, <1>3
  <2> QED BY <2>1, <2>2
<1>7. IsTrace(g, n + 1, a, y)
  BY <1>3, <1>4, <1>5, <1>6 DEF IsTrace
<1>8. n + 1 \in Nat
  OBVIOUS
<1> QED BY <1>7, <1>8 DEF Reads, y

\* The first chunk, if there is one.
LEMMA ReadsFirst ==
  ASSUME NEW a, NEW z, Reads(a, z), a # z
  PROVE  \E c \in Seq(Byte) : \E p : ReadsChunk(a, Point(c, p)) /\ Reads(Point(c, p), z)
<1>0. PICK n \in Nat : \E f : IsTrace(f, n, a, z)
  BY DEF Reads
<1>1. PICK f : IsTrace(f, n, a, z)
  BY <1>0
<1>2. /\ f[0] = a /\ f[n] = z
      /\ \A i \in 0 .. n : f[i] = Point(f[i].bytes, f[i].opts) /\ f[i].bytes \in Seq(Byte)
      /\ \A i \in 1 .. n : ReadsChunk(f[i - 1], f[i])
  BY <1>1 DEF IsTrace
<1>3. n # 0 /\ n - 1 \in Nat /\ 1 \in 1 .. n /\ 1 \in 0 .. n
  BY <1>2
<1> DEFINE m == n - 1
           g == [i \in 0 .. m |-> f[i + 1]]
<1>4. g[0] = f[1] /\ g[m] = f[n] /\ \A i \in 0 .. m : g[i] = f[i + 1]
  BY <1>3
<1>5. \A i \in 0 .. m : i + 1 \in 0 .. n
  BY <1>3
<1>6. ASSUME NEW i \in 1 .. m PROVE ReadsChunk(g[i - 1], g[i])
  <2>1. i + 1 \in 1 .. n /\ (i + 1) - 1 = i /\ i - 1 \in 0 .. m /\ i \in 0 .. m /\ (i - 1) + 1 = i
    BY <1>3
  <2>2. ReadsChunk(f[i], f[i + 1])
    BY <2>1, <1>2
  <2>3. g[i - 1] = f[i] /\ g[i] = f[i + 1]
    <3> HIDE DEF g, m
    <3> QED BY <2>1, <1>4
  <2> QED BY <2>2, <2>3
<1> HIDE DEF g, m
<1>7. IsTrace(g, m, f[1], z)
  BY <1>2, <1>4, <1>5, <1>6 DEF IsTrace
<1>8. ReadsChunk(a, f[1]) /\ f[1] = Point(f[1].bytes, f[1].opts) /\ f[1].bytes \in Seq(Byte)
  <2>1. 1 - 1 = 0
    OBVIOUS
  <2> QED BY <2>1, <1>2, <1>3
<1>9. Reads(f[1], z)
  BY <1>3, <1>7 DEF Reads, m
<1> QED BY <1>8, <1>9

\* How Unmarshal takes a chunk apart.
LEMMA ChunkParts ==
  ASSUME NEW code, NEW data, IsChunk(code, data), NEW c \in Seq(Byte)
  PROVE  LET b == Chunk(code, data) \o c
             n == Len(data) IN
         /\ b \in Seq(Byte) /\ Len(b) = 2 + n + Len(c)
         /\ b[1] = code /\ Head(b) = code /\ b[2] = n
         /\ SubSeq(b, 3, 2 + n) = data
         /\ SubSeq(b, 2 + n + 1, Len(b)) = c
<1> DEFINE x == Chunk(code, data)
           n == Len(data)
           b == x \o c
           h == <<code, n>>
<1>1. /\ x \in Seq(Byte) /\ Len(x) = 2 + n /\ n \in 1 .. MaxUint8 /\ x[1] = code /\ x[2] = n
      /\ data \in Seq(Byte) /\ code \in Byte
  BY ChunkType DEF IsChunk
<1>2. n \in Nat /\ n \in Byte /\ Len(c) \in Nat
  BY <1>1, BytesAssumption, LenProperties DEF Byte
<1>3. h \in Seq(Byte) /\ Len(h) = 2
  BY <1>1, <1>2
<1>4. SubSeq((h \o data) \o c, Len(h) + 1, Len(h) + Len(data)) = data
  <2> HIDE DEF h
  <2> QED BY <1>1, <1>3, MiddleOfCat, Zenon
<1>5. x = h \o data
  BY DEF Chunk
<1>6. SubSeq(b, 3, 2 + n) = data
  <2>1. Len(h) + 1 = 3 /\ Len(h) + Len(data) = 2 + n
    BY <1>3
  <2> HIDE DEF h
  <2> QED BY <2>1, <1>4, <1>5
<1> HIDE DEF x, n
<1>7. /\ b \in Seq(Byte) /\ Len(b) = Len(x) + Len(c) /\ SubSeq(b, Len(x) + 1, Len(b)) = c
  <2>1. x \in Seq(Byte)
    BY <1>1
  <2> QED BY <2>1, PartsOfCat
<1>8. \A i \in 1 .. Len(x) + Len(c) : b[i] = IF i <= Len(x) THEN x[i] ELSE c[i - Len(x)]
  BY <1>1, ConcatProperties
<1> HIDE DEF b
<1>9. b[1] = code /\ b[2] = n
  <2>1. 1 \in 1 .. Len(x) + Len(c) /\ 2 \in 1 .. Len(x) + Len(c) /\ 1 <= Len(x) /\ 2 <= Len(x)
    BY <1>1, <1>2
  <2> QED BY <2>1, <1>1, <1>8
<1>10. Head(b) = b[1]
  BY <1>7
<1>11. Len(b) = 2 + n + Len(c)
  BY <1>1, <1>7
<1>12. SubSeq(b, 2 + n + 1, Len(b)) = c
  BY <1>1, <1>7
<1> QED BY <1>6, <1>7, <1>9, <1>10, <1>11, <1>12, Zenon DEF b, x, n

\* Options, and what AddRaw makes of them.
LEMMA AddRawIs ==
  ASSUME NEW o, IsOptions(o), NEW key \in Byte, NEW value \in Seq(Byte)
  PROVE  /\ IsOptions(AddRaw(o, key, value))
         /\ DOMAIN AddRaw(o, key, value) = DOMAIN o \cup {key}
         /\ Get(AddRaw(o, key, value), key) = Get(o, key) \o value
         /\ \A k \in DOMAIN o \ {key} : AddRaw(o, key, value)[k] = o[k]
         /\ \A k : k # key => Get(AddRaw(o, key, value), k) = Get(o, k)
<1> DEFINE a == AddRaw(o, key, value)
           d == (IF key \in DOMAIN o THEN o[key] ELSE <<>>) \o value
<1>1. DOMAIN o \subseteq Byte /\ \A k \in DOMAIN o : o[k] \in Seq(Byte)
  BY DEF IsOptions
<1>2. d \in Seq(Byte)
  <2>1. (IF key \in DOMAIN o THEN o[key] ELSE <<>>) \in Seq(Byte)
    BY <1>1, EmptySeq
  <2> QED BY <2>1, ConcatProperties
<1>3. a = [k \in DOMAIN o \cup {key} |-> IF k # key THEN o[k] ELSE d]
  BY DEF AddRaw
<1>4. Get(o, key) \o value = d
  BY DEF Get, Nil
<1> HIDE DEF a, d
<1>5. DOMAIN a = DOMAIN o \cup {key} /\ a[key] = d /\ \A k \in DOMAIN o \ {key} : a[k] = o[k]
  BY <1>3
<1>6. a \in [DOMAIN a -> Seq(Byte)]
  BY <1>1, <1>2, <1>3
<1>7. IsOptions(a)
  BY <1>1, <1>5, <1>6 DEF IsOptions
<1>8. Get(a, key) = d
  BY <1>5 DEF Get
<1>9. \A k : k # key => Get(a, k) = Get(o, k)
  BY <1>5 DEF Get
<1> QED BY <1>4, <1>5, <1>7, <1>8, <1>9 DEF a

\* A round of Unmarshal on the way: it takes the next chunk.
LEMMA ReadsStep ==
  ASSUME NEW b \in Seq(Byte), NEW o, NEW z, Reads(Point(b, o), z), Point(b, o) # z
  PROVE  /\ b # <<>> /\ Len(b) >= 2 /\ Head(b) \notin {Pad, End} /\ b[1] \in Byte
         /\ b[2] \in Nat /\ b[2] > 0 /\ Len(b) >= 2 + b[2]
         /\ Reads(Point(SubSeq(b, 2 + b[2] + 1, Len(b)), AddRaw(o, b[1], SubSeq(b, 3, 2 + b[2]))), z)
<1>1. PICK c, p : c \in Seq(Byte) /\ ReadsChunk(Point(b, o), Point(c, p)) /\ Reads(Point(c, p), z)
  BY ReadsFirst
<1>2. PICK code, data : IsChunk(code, data) /\ b = Chunk(code, data) \o c /\ p = AddRaw(o, code, data)
  BY <1>1 DEF ReadsChunk, Point
<1> DEFINE n == Len(data)
<1>3. /\ Len(b) = 2 + n + Len(c) /\ b[1] = code /\ Head(b) = code /\ b[2] = n
      /\ SubSeq(b, 3, 2 + n) = data /\ SubSeq(b, 2 + n + 1, Len(b)) = c
  BY <1>2, ChunkParts
<1>4. n \in 1 .. MaxUint8 /\ Len(c) \in Nat /\ code \in Byte \ {Pad, End}
  BY <1>2, ChunkType DEF IsChunk
<1>5. Reads(Point(c, AddRaw(o, code, data)), z)
  BY <1>1, <1>2
<1> HIDE DEF n
<1>6. n \in Nat /\ n > 0 /\ Len(b) >= 2 + n /\ Len(b) >= 2
  BY <1>3, <1>4, BytesAssumption
<1>7. b # <<>>
  BY <1>6
<1> QED BY <1>3, <1>4, <1>5, <1>6, <1>7, Zenon

\* What one round of Marshal writes is one chunk.
LEMMA ChunkWritten ==
  ASSUME NEW code \in Byte \ {Pad, End}, NEW data \in Seq(Byte), data # <<>>
  PROVE  LET n == chunk(Len(data))
             d == SubSeq(data, 1, n)
             e == SubSeq(data, n + 1, Len(data)) IN
         /\ IsChunk(code, d) /\ <<code, n % Base>> \o d = Chunk(code, d)
         /\ e \in Seq(Byte) /\ d \o e = data
<1> DEFINE n == chunk(Len(data))
           d == SubSeq(data, 1, n)
           e == SubSeq(data, n + 1, Len(data))
<1>1. Len(data) \in Nat /\ Len(data) # 0
  OBVIOUS
<1>2. n \in 1 .. MaxUint8 /\ n \in 0 .. Len(data)
  BY <1>1, BytesAssumption DEF chunk
<1>3. n % Base = n
  BY <1>2, BytesAssumption DEF Base
<1> HIDE DEF n
<1>4. d \in Seq(Byte) /\ Len(d) = n /\ e \in Seq(Byte) /\ d \o e = data
  BY <1>2, CutAfter, Zenon
<1> HIDE DEF d, e
<1>5. d # <<>> /\ Len(d) <= MaxUint8
  BY <1>2, <1>4, BytesAssumption
<1>6. IsChunk(code, d)
  BY <1>4, <1>5 DEF IsChunk
<1>7. <<code, n % Base>> \o d = Chunk(code, d)
  BY <1>3, <1>4 DEF Chunk
<1> QED BY <1>4, <1>6, <1>7, Zenon DEF n, d, e

------------------------------------------------------------------------------
(* Marshal between two rounds *)

\* Of options o, body is written and t is left: what a reader of body has in
\* its map is what is gone from t.
Holds(o, body, t, cur) ==
  /\ IsOptions(cur) /\ DOMAIN cur \subseteq DOMAIN o
  /\ \A k \in DOMAIN cur : cur[k] # <<>>
  /\ \A k \in DOMAIN o : Get(cur, k) \o Get(t, k) = o[k]
  /\ Reads(Point(body, NoOptions), Point(<<>>, cur))

Written(o, body, t) == \E cur : Holds(o, body, t, cur)

\* No options are options.
LEMMA NoOptionsIs ==
  IsOptions(NoOptions) /\ DOMAIN NoOptions = {} /\ \A k : Get(NoOptions, k) = <<>>
<1>1. DOMAIN NoOptions = {} /\ NoOptions \in [{} -> Seq(Byte)]
  BY DEF NoOptions
<1> QED BY <1>1 DEF IsOptions, Get, Nil

\* The data of a code.
LEMMA GetType ==
  ASSUME NEW o, IsOptions(o), NEW k
  PROVE  Get(o, k) \in Seq(Byte)
BY EmptySeq DEF IsOptions, Get, Nil

\* Nothing is written yet.
LEMMA WrittenStart ==
  ASSUME NEW o, IsOptions(o)
  PROVE  Written(o, <<>>, o)
<1>1. \A k \in DOMAIN o : Get(NoOptions, k) \o Get(o, k) = o[k]
  <2> SUFFICES ASSUME NEW k \in DOMAIN o PROVE Get(NoOptions, k) \o Get(o, k) = o[k]
    OBVIOUS
  <2>1. Get(NoOptions, k) = <<>> /\ Get(o, k) = o[k] /\ o[k] \in Seq(Byte)
    BY NoOptionsIs DEF Get, IsOptions
  <2> QED BY <2>1, ConcatEmptySeq
<1>2. Reads(Point(<<>>, NoOptions), Point(<<>>, NoOptions))
  BY ReadsNothing, EmptySeq, Zenon
<1>3. Holds(o, <<>>, o, NoOptions)
  BY <1>1, <1>2, NoOptionsIs DEF Holds
<1> QED BY <1>3 DEF Written

\* On to the next code.
LEMMA WrittenNext ==
  ASSUME NEW o, NEW body, NEW t, Written(o, body, t), NEW code, t[code] = <<>>, NEW u,
         DOMAIN u = DOMAIN t \ {code}, \A k \in DOMAIN u : u[k] = t[k]
  PROVE  Written(o, body, u)
<1>1. PICK cur : Holds(o, body, t, cur)
  BY DEF Written
<1>2. \A k : Get(u, k) = Get(t, k)
  BY DEF Get, Nil
<1>3. Holds(o, body, u, cur)
  BY <1>1, <1>2 DEF Holds
<1> QED BY <1>3 DEF Written

\* A chunk of the data that is left is written.
LEMMA WrittenChunk ==
  ASSUME NEW o, IsOptions(o), NEW body \in Seq(Byte), NEW t, IsOptions(t),
         DOMAIN t \subseteq DOMAIN o, Written(o, body, t),
         NEW code \in DOMAIN t, NEW d, NEW e \in Seq(Byte), IsChunk(code, d), d \o e = t[code],
         NEW u, u = [t EXCEPT ![code] = e]
  PROVE  Written(o, body \o Chunk(code, d), u)
<1>1. PICK cur : Holds(o, body, t, cur)
  BY DEF Written
<1> DEFINE new == AddRaw(cur, code, d)
           x == Chunk(code, d)
<1>2. code \in Byte /\ d \in Seq(Byte) /\ d # <<>> /\ code \in DOMAIN o
  BY DEF IsChunk
<1>3. IsOptions(cur) /\ x \in Seq(Byte)
  BY <1>1, ChunkType DEF Holds
<1>4. /\ IsOptions(new) /\ DOMAIN new = DOMAIN cur \cup {code}
      /\ Get(new, code) = Get(cur, code) \o d
      /\ \A k \in DOMAIN cur \ {code} : new[k] = cur[k]
      /\ \A k : k # code => Get(new, k) = Get(cur, k)
  BY <1>2, <1>3, AddRawIs, Zenon
<1> HIDE DEF new, x
<1>5. DOMAIN new \subseteq DOMAIN o
  BY <1>1, <1>2, <1>4 DEF Holds
<1>6. Get(cur, code) \in Seq(Byte)
  BY <1>3, GetType
<1>7. new[code] # <<>>
  <2>1. new[code] = Get(cur, code) \o d
    BY <1>4 DEF Get
  <2>2. Len(Get(cur, code) \o d) = Len(Get(cur, code)) + Len(d) /\ Len(d) \in Nat /\ Len(d) # 0
        /\ Len(Get(cur, code)) \in Nat
    BY <1>2, <1>6
  <2> QED BY <2>1, <2>2
<1>8. \A k \in DOMAIN new : new[k] # <<>>
  BY <1>1, <1>4, <1>7 DEF Holds
<1>9. ASSUME NEW k \in DOMAIN o PROVE Get(new, k) \o Get(u, k) = o[k]
  <2>0. Get(cur, k) \o Get(t, k) = o[k]
    BY <1>1 DEF Holds
  <2>1. CASE k = code
    <3>1. Get(u, k) = e /\ Get(t, k) = d \o e
      BY <2>1 DEF Get
    <3>2. \A f, g, h \in Seq(Byte) : (f \o g) \o h = f \o (g \o h)
      BY ConcatAssociative
    <3>3. (Get(cur, code) \o d) \o e = Get(cur, code) \o (d \o e)
      BY <1>2, <1>6, <3>2, Zenon
    <3> QED BY <2>0, <2>1, <3>1, <3>3, <1>4, Zenon
  <2>2. CASE k # code
    <3>1. Get(u, k) = Get(t, k)
      BY <2>2 DEF Get
    <3> QED BY <2>0, <2>2, <3>1, <1>4, Zenon
  <2> QED BY <2>1, <2>2, Zenon
<1>10. Reads(Point(body \o x, NoOptions), Point(x, cur))
  <2>1. Reads(Point(body \o x, NoOptions), Point(<<>> \o x, cur))
    BY <1>1, <1>3, ReadsBefore, Zenon DEF Holds
  <2>2. <<>> \o x = x
    BY <1>3, ConcatEmptySeq
  <2> QED BY <2>1, <2>2
<1>11. ReadsChunk(Point(x, cur), Point(<<>>, new))
  <2>1. x = Chunk(code, d) \o <<>>
    BY <1>3, ConcatEmptySeq DEF x
  <2> QED BY <2>1, Zenon DEF ReadsChunk, Point, new
<1>12. Reads(Point(body \o x, NoOptions), Point(<<>>, new))
  <2>1. <<>> \in Seq(Byte)
    BY EmptySeq
  <2> QED BY <2>1, <1>10, <1>11, ReadsOneMore, Zenon
<1>13. Holds(o, body \o x, u, new)
  BY <1>4, <1>5, <1>8, <1>9, <1>12, Zenon DEF Holds
<1> QED BY <1>13 DEF Written, x

\* What follows the last option.
EndOf(o) == IF End \in DOMAIN o THEN <<>> ELSE <<End>>

\* It is bytes.
LEMMA EndOfType ==
  ASSUME NEW o
  PROVE  EndOf(o) \in Seq(Byte)
<1>1. End \in Byte
  BY BytesAssumption DEF End, Byte
<1>2. <<>> \in Seq(Byte) /\ <<End>> \in Seq(Byte)
  BY <1>1, EmptySeq
<1> QED BY <1>2 DEF EndOf

\* All is written: a reader gets all options with data.
LEMMA WrittenEnd ==
  ASSUME NEW o, IsOptions(o), NEW body \in Seq(Byte), NEW t, DOMAIN t = {}, Written(o, body, t)
  PROVE  Reads(Point(body \o EndOf(o), NoOptions), Point(EndOf(o), NonEmpty(o)))
<1>1. PICK cur : Holds(o, body, t, cur)
  BY DEF Written
<1>2. IsOptions(cur) /\ DOMAIN cur \subseteq DOMAIN o /\ \A k \in DOMAIN cur : cur[k] # <<>>
  BY <1>1 DEF Holds
<1>3. ASSUME NEW k \in DOMAIN o PROVE Get(cur, k) = o[k]
  <2>1. Get(cur, k) \o Get(t, k) = o[k]
    BY <1>1 DEF Holds
  <2>2. Get(t, k) = <<>> /\ Get(cur, k) \in Seq(Byte)
    BY <1>2, GetType DEF Get, Nil
  <2> QED BY <2>1, <2>2, ConcatEmptySeq
<1> DEFINE D == {k \in DOMAIN o : o[k] # <<>>}
<1>4. DOMAIN cur = D
  BY <1>2, <1>3, Zenon DEF Get, Nil
<1>5. \A k \in D : cur[k] = o[k]
  BY <1>3, <1>4 DEF Get
<1>6. cur = [k \in D |-> cur[k]]
  BY <1>2, <1>4 DEF IsOptions
<1>7. cur = NonEmpty(o)
  BY <1>5, <1>6 DEF NonEmpty
<1> DEFINE x == EndOf(o)
<1>8. x \in Seq(Byte)
  BY EndOfType
<1> HIDE DEF x
<1>9. Reads(Point(body \o x, NoOptions), Point(<<>> \o x, cur))
  BY <1>1, <1>8, ReadsBefore, Zenon DEF Holds
<1>10. <<>> \o x = x
  BY <1>8, ConcatEmptySeq
<1> QED BY <1>7, <1>9, <1>10 DEF x

------------------------------------------------------------------------------
(* The bytes of values *)

\* An IPv4 address has four bytes, in whichever form it is given.
LEMMA To4Is ==
  ASSUME NEW ip, IsIPv4(ip)
  PROVE  /\ To4(ip) \in Seq(Byte) /\ Len(To4(ip)) = IPv4len
         /\ ip \in Seq(Byte) /\ Len(ip) >= IPv4len
<1>1. ip \in Seq(Byte) /\ To4(ip) # Nil /\ Len(ip) \in Nat
  BY DEF IsIPv4
<1>2. IPv4len \in Nat /\ Len(V4InV6Prefix) \in Nat
  BY AddressBytesAssumption
<1>3. CASE Len(ip) = IPv4len
  BY <1>1, <1>2, <1>3 DEF To4
<1>4. CASE Len(ip) # IPv4len
  <2> DEFINE m == Len(V4InV6Prefix)
  <2>1. Len(ip) = m + IPv4len /\ To4(ip) = SubSeq(ip, m + 1, Len(ip))
    BY <1>1, <1>4 DEF To4
  <2>2. m \in 0 .. Len(ip) /\ Len(ip) - m = IPv4len
    BY <1>2, <2>1
  <2> HIDE DEF m
  <2>3. SubSeq(ip, m + 1, Len(ip)) \in Seq(Byte) /\ Len(SubSeq(ip, m + 1, Len(ip))) = Len(ip) - m
    BY <1>1, <2>2, CutAfter
  <2>4. Len(ip) >= IPv4len
    BY <1>2, <2>1 DEF m
  <2> QED BY <1>1, <2>1, <2>2, <2>3, <2>4
<1> QED BY <1>3, <1>4

\* Each of a list of addresses as four bytes.
Short4(ips) == [k \in DOMAIN ips |-> To4(ips[k])]

\* They are lists of bytes.
LEMMA Short4Type ==
  ASSUME NEW ips \in Seq(Seq(Byte)), \A ip \in Range(ips) : IsIPv4(ip)
  PROVE  /\ Short4(ips) \in Seq(Seq(Byte)) /\ Len(Short4(ips)) = Len(ips)
         /\ \A k \in 1 .. Len(ips) : Short4(ips)[k] = To4(ips[k]) /\ Len(Short4(ips)[k]) = IPv4len
<1>1. DOMAIN ips = 1 .. Len(ips) /\ Len(ips) \in Nat
  OBVIOUS
<1>2. ASSUME NEW k \in 1 .. Len(ips)
      PROVE  To4(ips[k]) \in Seq(Byte) /\ Len(To4(ips[k])) = IPv4len
  <2>1. ips[k] \in Range(ips)
    BY <1>1 DEF Range
  <2> QED BY <2>1, To4Is
<1>3. Short4(ips) = [k \in 1 .. Len(ips) |-> To4(ips[k])]
  BY <1>1 DEF Short4
<1>4. Short4(ips) \in [1 .. Len(ips) -> Seq(Byte)]
  BY <1>2, <1>3
<1>5. Short4(ips) \in Seq(Seq(Byte)) /\ Len(Short4(ips)) = Len(ips)
  BY <1>1, <1>4, ArrayIsSeq, Zenon
<1> QED BY <1>2, <1>3, <1>5

\* The bytes that ToBytes gives for a value of each type.
LEMMA ValueBytes ==
  ASSUME NEW x, IsValue(x)
  PROVE  /\ MarshalValue(x) \in Seq(Byte)
         /\ x.type = "DHCPMessageType" => x.val \in Byte /\ MarshalValue(x) = <<x.val>>
         /\ x.type = "SubnetMask" => Len(x.val) = IPv4len /\ MarshalValue(x) = x.val
         /\ x.type = "IP" => /\ Len(MarshalValue(x)) = IPv4len
                             /\ Len(x.val) = IPv4len => MarshalValue(x) = To4(x.val)
         /\ x.type = "IPs" => MarshalValue(x) = Joined(Short4(x.val))
         /\ x.type \in {"String", "OptionCodes"} => MarshalValue(x) = x.val
         /\ x.type = "Uint16" => /\ MarshalValue(x) = PutUint(2, x.val)
                                 /\ Len(MarshalValue(x)) = 2 /\ Uint(MarshalValue(x)) = x.val
         /\ x.type = "Uint32" => /\ MarshalValue(x) = PutUint(4, x.val)
                                 /\ Len(MarshalValue(x)) = 4 /\ Uint(MarshalValue(x)) = x.val
         /\ x.type = "nil" => MarshalValue(x) = <<>>
<1> DEFINE v == x.val
           m == MarshalValue(x)
<1>0. x.type \in ValueTypes
  BY DEF IsValue
<1>1. CASE x.type = "DHCPMessageType"
  <2>1. v \in Byte /\ m = <<v>>
    BY <1>1 DEF IsValue, MarshalValue, MarshalMessageType
  <2>2. <<v>> \in Seq(Byte)
    BY <2>1
  <2> QED BY <1>1, <2>1, <2>2
<1>2. CASE x.type = "SubnetMask"
  <2>1. v \in Seq(Byte) /\ Len(v) = IPv4len /\ m = SubSeq(v, 1, IPv4len)
    BY <1>2 DEF IsValue, MarshalValue, MarshalSubnetMask
  <2>2. SubSeq(v, 1, Len(v)) = v
    BY <2>1, SubSeqFull
  <2> QED BY <1>2, <2>1, <2>2
<1>3. CASE x.type = "IP"
  <2>1. IsIPv4(v) /\ m = SubSeq(v, 1, IPv4len)
    BY <1>3, Zenon DEF IsValue, MarshalValue, MarshalIP
  <2>2. v \in Seq(Byte) /\ Len(v) >= IPv4len /\ Len(v) \in Nat /\ IPv4len \in Nat
    BY <2>1, To4Is, AddressBytesAssumption
  <2>3. IPv4len \in 0 .. Len(v)
    BY <2>2
  <2>4. SubSeq(v, 1, IPv4len) \in Seq(Byte) /\ Len(SubSeq(v, 1, IPv4len)) = IPv4len
    BY <2>2, <2>3, CutAfter
  <2>5. SubSeq(v, 1, Len(v)) = v
    BY <2>2, SubSeqFull
  <2>6. Len(v) = IPv4len => To4(v) = v
    BY DEF To4
  <2> QED BY <1>3, <2>1, <2>4, <2>5, <2>6
<1>4. CASE x.type = "IPs"
  <2>1. m = Joined(Short4(v)) /\ v \in Seq(Seq(Byte)) /\ \A ip \in Range(v) : IsIPv4(ip)
    BY <1>4 DEF IsValue, MarshalValue, MarshalIPs, Short4
  <2>2. Short4(v) \in Seq(Seq(Byte))
    BY <2>1, Short4Type
  <2>3. Joined(Short4(v)) \in Seq(Byte)
    BY <2>2, JoinedType
  <2> QED BY <1>4, <2>1, <2>3
<1>5. CASE x.type \in {"String", "OptionCodes"}
  <2>1. v \in Seq(Byte) /\ m = v
    BY <1>5 DEF IsValue, MarshalValue, MarshalString, MarshalOptionCodes
  <2> QED BY <1>5, <2>1
<1>6. CASE x.type = "Uint16"
  <2>1. v \in 0 .. Power(2) - 1 /\ m = PutUint(2, v) /\ Power(2) \in Nat
    BY <1>6, PowerIs DEF IsValue, MarshalValue, MarshalUint16
  <2>2. v \in Nat /\ v < Power(2) /\ 2 \in Nat
    BY <2>1
  <2>3. PutUint(2, v) \in Seq(Byte) /\ Len(PutUint(2, v)) = 2 /\ Uint(PutUint(2, v)) = v
    BY <2>2, PutUintType, UintOfPutUint, Zenon
  <2> QED BY <1>6, <2>1, <2>3
<1>7. CASE x.type = "Uint32"
  <2>1. v \in 0 .. Power(4) - 1 /\ m = PutUint(4, v) /\ Power(4) \in Nat
    BY <1>7, PowerIs DEF IsValue, MarshalValue, MarshalUint32
  <2>2. v \in Nat /\ v < Power(4) /\ 4 \in Nat
    BY <2>1
  <2>3. PutUint(4, v) \in Seq(Byte) /\ Len(PutUint(4, v)) = 4 /\ Uint(PutUint(4, v)) = v
    BY <2>2, PutUintType, UintOfPutUint, Zenon
  <2> QED BY <1>7, <2>1, <2>3
<1>8. CASE x.type = "nil"
  <2>1. m = <<>>
    BY <1>8 DEF MarshalValue
  <2> QED BY <1>8, <2>1, EmptySeq
<1> QED BY <1>0, <1>1, <1>2, <1>3, <1>4, <1>5, <1>6, <1>7, <1>8 DEF ValueTypes

------------------------------------------------------------------------------
(* The getters *)

\* The bytes of the values added under one code.
DataOf(s) == Joined([k \in 1 .. Len(s) |-> MarshalValue(s[k])])

\* A Lexer is left without error and without data after a read of all bytes.
LEMMA ExactlyIs ==
  ASSUME NEW n \in Nat, NEW v \in Seq(Byte)
  PROVE  Exactly(n, v) <=> Len(v) = n
<1> DEFINE l == NewLexer(v)
<1>1. l.data = v /\ l.err = FALSE /\ l = [data |-> v, err |-> FALSE]
  BY DEF NewLexer
<1>2. CASE Len(v) >= n
  <2>1. Consume(l, n) = [data |-> SubSeq(v, n + 1, Len(v)), err |-> FALSE]
    BY <1>1, <1>2, Zenon DEF Consume, Has
  <2>2. FinError(Consume(l, n)) <=> SubSeq(v, n + 1, Len(v)) # <<>>
    <3> DEFINE d == SubSeq(v, n + 1, Len(v))
    <3> HIDE DEF d
    <3>1. FinError([data |-> d, err |-> FALSE]) <=> d # <<>>
      BY DEF FinError
    <3> QED BY <2>1, <3>1 DEF d
  <2>3. n \in 0 .. Len(v)
    BY <1>2
  <2>4. SubSeq(v, n + 1, Len(v)) \in Seq(Byte) /\ Len(SubSeq(v, n + 1, Len(v))) = Len(v) - n
    BY <2>3, CutAfter
  <2>5. SubSeq(v, n + 1, Len(v)) = <<>> <=> Len(v) = n
    <3> DEFINE d == SubSeq(v, n + 1, Len(v))
    <3> HIDE DEF d
    <3>1. d \in Seq(Byte) /\ Len(d) = Len(v) - n
      BY <2>4 DEF d
    <3>2. d = <<>> <=> Len(d) = 0
      BY <3>1, EmptySeq
    <3> QED BY <3>1, <3>2, <2>3 DEF d
  <2> QED BY <2>2, <2>5 DEF Exactly
<1>3. CASE ~(Len(v) >= n)
  <2>1. Consume(l, n) = [data |-> v, err |-> TRUE]
    BY <1>1, <1>3, Zenon DEF Consume, Has
  <2>2. FinError(Consume(l, n))
    BY <2>1 DEF FinError
  <2>3. Len(v) # n
    BY <1>3
  <2> QED BY <2>2, <2>3 DEF Exactly
<1> QED BY <1>2, <1>3

\* A number is read back if it is the only one.
LEMMA NumberRead ==
  ASSUME NEW n \in Nat \ {0}, NEW key, NEW o, NEW v \in Seq(Byte), Get(o, key) = v
  PROVE  /\ Len(v) = n => GetNumber(n, key, o) = [u |-> Uint(v), err |-> "nil"]
         /\ Len(v) > n => GetNumber(n, key, o).err # "nil"
<1>1. ASSUME Len(v) >= n PROVE key \in DOMAIN o /\ o[key] = v
  <2>1. v # <<>>
    BY <1>1
  <2> QED BY <2>1 DEF Get, Nil
<1>2. Exactly(n, v) <=> Len(v) = n
  BY ExactlyIs
<1>3. ASSUME Len(v) = n PROVE GetNumber(n, key, o) = [u |-> Uint(v), err |-> "nil"]
  <2>1. key \in DOMAIN o /\ o[key] = v
    BY <1>1, <1>3
  <2>2. Read(NewLexer(v), n) = v
    <3>1. SubSeq(v, 1, n) = v
      BY <1>3, SubSeqFull
    <3> QED BY <1>3, <3>1 DEF Read, NewLexer, Has
  <2> QED BY <1>2, <1>3, <2>1, <2>2 DEF GetNumber
<1>4. ASSUME Len(v) > n PROVE GetNumber(n, key, o).err # "nil"
  <2>1. Len(v) \in Nat /\ Len(v) >= n /\ Len(v) # n
    BY <1>4
  <2>2. key \in DOMAIN o /\ o[key] = v
    BY <1>1, <2>1
  <2>3. ~Exactly(n, v)
    BY <1>2, <2>1
  <2> QED BY <2>2, <2>3 DEF GetNumber
<1> QED BY <1>3, <1>4

\* A list of IPv4 addresses.
IsIPs(a) == a \in Seq(Seq(Byte)) /\ \A k \in 1 .. Len(a) : IsIPv4(a[k])

\* Each of them as four bytes.
LEMMA Short4IPs ==
  ASSUME NEW ips, IsIPs(ips)
  PROVE  /\ Short4(ips) \in Seq(Seq(Byte)) /\ Len(Short4(ips)) = Len(ips)
         /\ \A k \in 1 .. Len(ips) : Short4(ips)[k] = To4(ips[k]) /\ Len(Short4(ips)[k]) = IPv4len
<1>1. ips \in Seq(Seq(Byte)) /\ \A k \in 1 .. Len(ips) : IsIPv4(ips[k])
  BY DEF IsIPs
<1>2. \A ip \in Range(ips) : IsIPv4(ip)
  BY <1>1 DEF Range
<1> QED BY <1>1, <1>2, Short4Type

\* The addresses of two lists, one after the other.
LEMMA Short4Cat ==
  ASSUME NEW a, IsIPs(a), NEW b, IsIPs(b)
  PROVE  IsIPs(a \o b) /\ Short4(a \o b) = Short4(a) \o Short4(b)
<1> DEFINE c == a \o b
           m == Len(a)
           n == Len(b)
<1>1. /\ c \in Seq(Seq(Byte)) /\ Len(c) = m + n /\ m \in Nat /\ n \in Nat
      /\ \A i \in 1 .. m + n : c[i] = IF i <= m THEN a[i] ELSE b[i - m]
  BY ConcatProperties DEF IsIPs
<1>2. \A ips : IsIPs(ips) => /\ Short4(ips) \in Seq(Seq(Byte)) /\ Len(Short4(ips)) = Len(ips)
                             /\ \A k \in 1 .. Len(ips) : Short4(ips)[k] = To4(ips[k])
  BY Short4IPs
<1> HIDE DEF c, m, n
<1>3. IsIPs(c)
  <2> SUFFICES ASSUME NEW i \in 1 .. m + n PROVE IsIPv4(c[i])
    BY <1>1 DEF IsIPs
  <2>1. CASE i <= m
    <3>1. i \in 1 .. m /\ c[i] = a[i]
      BY <2>1, <1>1
    <3> QED BY <3>1 DEF IsIPs, m
  <2>2. CASE ~(i <= m)
    <3>1. i - m \in 1 .. n /\ c[i] = b[i - m]
      BY <2>2, <1>1
    <3> QED BY <3>1 DEF IsIPs, n
  <2> QED BY <2>1, <2>2
<1> DEFINE x == Short4(a)
           y == Short4(b)
           z == Short4(c)
<1>4. /\ x \in Seq(Seq(Byte)) /\ Len(x) = m /\ \A k \in 1 .. m : x[k] = To4(a[k])
      /\ y \in Seq(Seq(Byte)) /\ Len(y) = n /\ \A k \in 1 .. n : y[k] = To4(b[k])
      /\ z \in Seq(Seq(Byte)) /\ Len(z) = m + n /\ \A k \in 1 .. m + n : z[k] = To4(c[k])
  BY <1>1, <1>2, <1>3 DEF m, n
<1> HIDE DEF x, y, z
<1>5. /\ x \o y \in Seq(Seq(Byte)) /\ Len(x \o y) = m + n
      /\ \A i \in 1 .. m + n : (x \o y)[i] = IF i <= m THEN x[i] ELSE y[i - m]
  BY <1>4, ConcatProperties, Zenon
<1>6. ASSUME NEW i \in 1 .. m + n PROVE z[i] = (x \o y)[i]
  <2>1. CASE i <= m
    <3>1. i \in 1 .. m
      BY <2>1, <1>1
    <3>2. z[i] = To4(a[i]) /\ (x \o y)[i] = x[i]
      BY <2>1, <1>1, <1>4, <1>5
    <3> QED BY <3>1, <3>2, <1>4, Zenon
  <2>2. CASE ~(i <= m)
    <3>1. i - m \in 1 .. n
      BY <2>2, <1>1
    <3> QED BY <2>2, <3>1, <1>1, <1>4, <1>5, Zenon
  <2> QED BY <2>1, <2>2, Zenon
<1>7. z = x \o y
  BY <1>4, <1>5, <1>6, SeqEqual, Zenon
<1> QED BY <1>3, <1>7 DEF c, x, y, z

\* The bytes of lists of addresses are those of one list of them all.
LEMMA FlatIPs ==
  ASSUME NEW vals \in Seq(Seq(Seq(Byte))), \A k \in 1 .. Len(vals) : IsIPs(vals[k])
  PROVE  /\ IsIPs(Joined(vals))
         /\ Joined([k \in 1 .. Len(vals) |-> Joined(Short4(vals[k]))]) =
              Joined(Short4(Joined(vals)))
<1> DEFINE N == Len(vals)
           W == Seq(Byte)
           B == [k \in 1 .. N |-> Joined(Short4(vals[k]))]
<1>0. N \in Nat
  OBVIOUS
<1>s. ASSUME NEW ips, IsIPs(ips)
      PROVE  Short4(ips) \in Seq(Seq(Byte)) /\ Joined(Short4(ips)) \in Seq(Byte)
  <2>2. Short4(ips) \in Seq(Seq(Byte))
    BY <1>s, Short4IPs
  <2> QED BY <2>2, JoinedType
<1>1. B \in Seq(Seq(Byte)) /\ Len(B) = N /\ \A k \in 1 .. N : B[k] = Joined(Short4(vals[k]))
  <2>1. \A k \in 1 .. N : IsIPs(vals[k])
    OBVIOUS
  <2>2. \A k \in 1 .. N : Joined(Short4(vals[k])) \in Seq(Byte)
    <3> HIDE DEF N
    <3> QED BY <2>1, <1>s
  <2>3. B \in [1 .. N -> Seq(Byte)] /\ \A k \in 1 .. N : B[k] = Joined(Short4(vals[k]))
    <3> HIDE DEF N
    <3> QED BY <2>2
  <2> HIDE DEF B
  <2> QED BY <2>3, <1>0, ArrayIsSeq, Zenon
<1>2. PICK f : IsFlat(f, vals, W)
  <2> HIDE DEF N, B
  <2> QED BY FlatExists
<1>3. PICK g : IsFlat(g, B, Byte)
  <2> HIDE DEF N, B
  <2> QED BY <1>1, FlatExists
<1> HIDE DEF B
<1>4. /\ f[0] = <<>> /\ \A k \in 1 .. N : f[k] = f[k - 1] \o vals[k]
      /\ g[0] = <<>> /\ \A k \in 1 .. N : g[k] = g[k - 1] \o B[k]
  BY <1>1, <1>2, <1>3, Zenon DEF IsFlat
<1>5. Joined(vals) = f[N] /\ Joined(B) = g[N]
  <2>1. Joined(vals) = f[Len(vals)]
    BY <1>2, JoinedIs
  <2>2. Joined(B) = g[Len(B)]
    BY <1>1, <1>3, JoinedIs
  <2> QED BY <2>1, <2>2, <1>1
<1> HIDE DEF N
<1> DEFINE S == {k \in 0 .. N : IsIPs(f[k]) /\ g[k] = Joined(Short4(f[k]))}
<1>6. 0 \in S
  <2>1. IsIPs(<<>>)
    BY EmptySeq DEF IsIPs
  <2>2. Short4(<<>>) = <<>>
    BY DEF Short4
  <2> QED BY <2>1, <2>2, <1>0, <1>4, JoinedEmpty
<1>7. ASSUME NEW k \in 0 .. N - 1, k \in S PROVE k + 1 \in S
  <2> DEFINE a == f[k]
             b == vals[k + 1]
  <2>1. k + 1 \in 1 .. N /\ (k + 1) - 1 = k /\ k + 1 \in 0 .. N
    BY <1>0
  <2>2. f[k + 1] = a \o b /\ g[k + 1] = g[k] \o Joined(Short4(b))
    BY <2>1, <1>1, <1>4, Zenon
  <2>3. IsIPs(a) /\ IsIPs(b) /\ g[k] = Joined(Short4(a))
    BY <1>7, <2>1 DEF N
  <2> HIDE DEF a, b
  <2>4. IsIPs(a \o b) /\ Short4(a \o b) = Short4(a) \o Short4(b)
    BY <2>3, Short4Cat, Zenon
  <2>5. Joined(Short4(a) \o Short4(b)) = Joined(Short4(a)) \o Joined(Short4(b))
    <3>1. Short4(a) \in Seq(Seq(Byte)) /\ Short4(b) \in Seq(Seq(Byte))
      BY <2>3, <1>s
    <3> QED BY <3>1, JoinedCat
  <2> QED BY <2>1, <2>2, <2>3, <2>4, <2>5, Zenon
<1>8. 0 .. N \subseteq S
  <2> HIDE DEF S
  <2> QED BY <1>0, <1>6, <1>7, UpTo, Zenon
<1>9. N \in S
  BY <1>0, <1>8
<1> QED BY <1>5, <1>9 DEF B, N

\* GetIPs of whole addresses.
LEMMA IPsRead ==
  ASSUME NEW ips, IsIPs(ips), NEW key, NEW o, Get(o, key) = Joined(Short4(ips))
  PROVE  GetIPs(key, o) = Short4(ips)
<1> DEFINE T == Short4(ips)
           N == Len(ips)
           v == Joined(T)
           n == IPv4len
           w == Len(v) \div n
<1>1. N \in Nat
  BY DEF IsIPs
<1>2. T \in Seq(Seq(Byte)) /\ Len(T) = N /\ \A k \in 1 .. N : Len(T[k]) = n
  BY Short4IPs
<1>3. n \in Nat \ {0}
  BY AddressBytesAssumption
<1>4. T = [k \in 1 .. N |-> T[k]]
  BY <1>2
<1> HIDE DEF T, N, n
<1>5. Len(v) = N * n /\ \A k \in 1 .. N : SubSeq(v, (k - 1) * n + 1, k * n) = T[k]
  BY <1>1, <1>2, <1>3, JoinedUniform, Zenon
<1>6. w = N
  <2>1. Len(v) \in Nat /\ 0 \in 0 .. n - 1 /\ N \in Int /\ Len(v) = N * n + 0
    BY <1>1, <1>3, <1>5
  <2> HIDE DEF v
  <2> QED BY <2>1, <1>3, DivUnique
<1>7. ~(Len(v) > w * n)
  BY <1>1, <1>3, <1>5, <1>6
<1> HIDE DEF w, v
<1>8. GetIPs(key, o) = [k \in 1 .. w |-> SubSeq(v, (k - 1) * n + 1, k * n)]
  BY <1>7 DEF GetIPs, T, v, w, n
<1> QED BY <1>4, <1>5, <1>6, <1>8 DEF T

\* The getter of their type gives back the values whose bytes an option holds.
LEMMA ReadBack ==
  ASSUME NEW V, \A x \in V : IsValue(x),
         NEW s \in Seq(V), s # <<>>, \A x \in Range(s) : x.type = s[1].type,
         ~InLongForm(s[1]), NEW key, NEW o, Get(o, key) = DataOf(s)
  PROVE  ReadsBack(key, o, s)
<1> DEFINE L == Len(s)
           T == s[1].type
           first == s[1].val
           v == DataOf(s)
           B == [k \in 1 .. L |-> MarshalValue(s[k])]
           vals == Values(s)
<1>1. L \in Nat /\ L >= 1 /\ 1 \in 1 .. L /\ DOMAIN s = 1 .. L
  <2>1. L \in Nat /\ L # 0 /\ DOMAIN s = 1 .. L
    OBVIOUS
  <2> QED BY <2>1
<1>2. \A k \in 1 .. L : IsValue(s[k]) /\ s[k].type = T
  <2> SUFFICES ASSUME NEW k \in 1 .. L PROVE IsValue(s[k]) /\ s[k].type = T
    OBVIOUS
  <2>1. s[k] \in V /\ s[k] \in Range(s)
    BY <1>1 DEF Range
  <2> QED BY <2>1
<1>3. B \in Seq(Seq(Byte)) /\ Len(B) = L /\ \A k \in 1 .. L : B[k] = MarshalValue(s[k])
  <2> HIDE DEF L
  <2>1. B \in [1 .. L -> Seq(Byte)]
    BY <1>2, ValueBytes
  <2> QED BY <2>1, <1>1, ArrayIsSeq
<1>4. v = Joined(B) /\ Get(o, key) = v
  BY DEF DataOf
<1>5. vals = [k \in 1 .. L |-> s[k].val] /\ vals[1] = first
  BY <1>1 DEF Values
<1> HIDE DEF B, L, v, vals, T
<1>6. v \in Seq(Byte)
  BY <1>3, <1>4, JoinedType
<1>7. L = 1 => v = B[1]
  <2> SUFFICES ASSUME L = 1 PROVE v = B[1]
    OBVIOUS
  <2>1. B[1] \in Seq(Byte) /\ B = <<B[1]>>
    BY <1>1, <1>3
  <2> QED BY <2>1, <1>4, JoinedOne
<1>8. ASSUME NEW n \in Nat, \A k \in 1 .. L : Len(B[k]) = n
      PROVE  Len(v) = L * n /\ SubSeq(v, 1, n) = B[1]
  <2>1. Len(v) = L * n /\ \A k \in 1 .. L : SubSeq(v, (k - 1) * n + 1, k * n) = B[k]
    BY <1>3, <1>4, <1>8, JoinedUniform, Zenon
  <2>2. (1 - 1) * n + 1 = 1 /\ 1 * n = n
    OBVIOUS
  <2> QED BY <2>1, <2>2, <1>1
<1>9. CASE T = "DHCPMessageType"
  <2>1. \A k \in 1 .. L : B[k] = <<s[k].val>> /\ Len(B[k]) = 1
    <3> SUFFICES ASSUME NEW k \in 1 .. L PROVE B[k] = <<s[k].val>> /\ Len(B[k]) = 1
      OBVIOUS
    <3>1. IsValue(s[k]) /\ s[k].type = T /\ B[k] = MarshalValue(s[k])
      BY <1>2, <1>3
    <3> DEFINE x == s[k]
    <3> HIDE DEF x
    <3>2. IsValue(x) /\ x.type = T
      BY <3>1 DEF x
    <3>3. LET m == MarshalValue(x) IN m = <<x.val>> /\ Len(m) = 1
      BY <3>2, <1>9, ValueBytes
    <3> QED BY <3>1, <3>3 DEF x
  <2>2. Len(v) = L * 1
    BY <2>1, <1>8, Zenon
  <2>3. Exactly(1, v) <=> L = 1
    BY <2>2, <1>1, <1>6, ExactlyIs
  <2>4. L = 1 => v[1] = first
    BY <2>1, <1>1, <1>7
  <2>5. GetDHCPMessageType(key, o) = IF L = 1 THEN vals[1] ELSE 0
    BY <2>3, <2>4, <1>4, <1>5 DEF GetDHCPMessageType
  <2> QED BY <2>5, <1>9 DEF ReadsBack, L, T, vals
<1>10. CASE T = "SubnetMask"
  <2>1. \A k \in 1 .. L : B[k] = s[k].val /\ Len(B[k]) = IPv4len
    <3> SUFFICES ASSUME NEW k \in 1 .. L PROVE B[k] = s[k].val /\ Len(B[k]) = IPv4len
      OBVIOUS
    <3>1. IsValue(s[k]) /\ s[k].type = T /\ B[k] = MarshalValue(s[k])
      BY <1>2, <1>3
    <3> DEFINE x == s[k]
    <3> HIDE DEF x
    <3>2. IsValue(x) /\ x.type = T
      BY <3>1 DEF x
    <3>3. LET m == MarshalValue(x) IN m = x.val /\ Len(m) = IPv4len
      BY <3>2, <1>10, ValueBytes
    <3> QED BY <3>1, <3>3 DEF x
  <2>2. Len(v) = L * IPv4len /\ IPv4len \in Nat \ {0}
    BY <2>1, <1>8, AddressBytesAssumption
  <2>3. Len(v) = IPv4len <=> L = 1
    <3>1. \A a \in Nat, n \in Nat \ {0} : a >= 1 => (a * n = n <=> a = 1)
      OBVIOUS
    <3> QED BY <3>1, <2>2, <1>1
  <2>4. Exactly(IPv4len, v) <=> L = 1
    BY <2>2, <2>3, <1>6, ExactlyIs
  <2>5. GetSubnetMask(key, o) = IF L = 1 THEN vals[1] ELSE Nil
    BY <2>1, <2>4, <1>1, <1>4, <1>5, <1>7 DEF GetSubnetMask
  <2> QED BY <2>5, <1>10 DEF ReadsBack, L, T, vals
<1>11. CASE T = "IP"
  <2>1. \A k \in 1 .. L : Len(B[k]) = IPv4len
    <3> SUFFICES ASSUME NEW k \in 1 .. L PROVE Len(B[k]) = IPv4len
      OBVIOUS
    <3>1. IsValue(s[k]) /\ s[k].type = T /\ B[k] = MarshalValue(s[k])
      BY <1>2, <1>3
    <3> DEFINE x == s[k]
    <3> HIDE DEF x
    <3>2. IsValue(x) /\ x.type = T
      BY <3>1 DEF x
    <3>3. LET m == MarshalValue(x) IN Len(m) = IPv4len
      BY <3>2, <1>11, ValueBytes
    <3> QED BY <3>1, <3>3 DEF x
  <2>2. Len(v) = L * IPv4len /\ IPv4len \in Nat \ {0} /\ SubSeq(v, 1, IPv4len) = B[1]
    BY <2>1, <1>8, AddressBytesAssumption, Zenon
  <2>3. ~(Len(v) < IPv4len)
    <3>1. \A a \in Nat, n \in Nat \ {0} : a >= 1 => ~(a * n < n)
      OBVIOUS
    <3> QED BY <3>1, <2>2, <1>1
  <2>4. Len(first) = IPv4len
    BY <1>11 DEF InLongForm, T
  <2>5. B[1] = To4(first)
    BY <2>4, <1>1, <1>2, <1>3, <1>11, ValueBytes
  <2>6. GetIP(key, o) = To4(vals[1])
    BY <2>2, <2>3, <2>5, <1>4, <1>5, Zenon DEF GetIP
  <2> QED BY <2>6, <1>11 DEF ReadsBack, T, vals
<1>12. CASE T = "IPs"
  <2>1. \A k \in 1 .. L : B[k] = Joined(Short4(s[k].val)) /\ IsIPs(s[k].val)
    <3> SUFFICES ASSUME NEW k \in 1 .. L
                 PROVE  B[k] = Joined(Short4(s[k].val)) /\ IsIPs(s[k].val)
      OBVIOUS
    <3>1. B[k] = Joined(Short4(s[k].val))
      BY <1>2, <1>3, <1>12, ValueBytes, Zenon
    <3>2. s[k].val \in Seq(Seq(Byte)) /\ \A ip \in Range(s[k].val) : IsIPv4(ip)
      BY <1>2, <1>12 DEF IsValue
    <3>3. IsIPs(s[k].val)
      BY <3>2 DEF IsIPs, Range
    <3> QED BY <3>1, <3>3
  <2>2. vals \in Seq(Seq(Seq(Byte))) /\ Len(vals) = L /\ \A k \in 1 .. L : IsIPs(vals[k])
    <3>1. vals \in [1 .. L -> Seq(Seq(Byte))]
      BY <2>1, <1>5 DEF IsIPs
    <3> QED BY <3>1, <2>1, <1>1, <1>5, ArrayIsSeq
  <2>3. B = [k \in 1 .. L |-> Joined(Short4(vals[k]))]
    <3>1. B = [k \in 1 .. L |-> B[k]]
      BY <1>3
    <3> QED BY <3>1, <2>1, <1>5
  <2> DEFINE all == Joined(vals)
  <2>4. IsIPs(all) /\ v = Joined(Short4(all))
    BY <2>2, <2>3, <1>4, FlatIPs, Zenon
  <2> HIDE DEF all
  <2>5. GetIPs(key, o) = Short4(all)
    BY <2>4, <1>4, IPsRead, Zenon
  <2> QED BY <2>5, <1>12 DEF ReadsBack, T, vals, Short4, all
<1>13. CASE T \in {"String", "OptionCodes"}
  <2>1. \A k \in 1 .. L : B[k] = s[k].val
    BY <1>2, <1>3, <1>13, ValueBytes
  <2>2. B = vals
    <3>1. B = [k \in 1 .. L |-> B[k]]
      BY <1>3
    <3> QED BY <3>1, <2>1, <1>5
  <2>3. GetString(key, o) = Joined(vals) /\ GetParameterRequestList(key, o) = Joined(vals)
    BY <2>2, <1>4 DEF GetString, GetParameterRequestList
  <2> QED BY <2>3, <1>13, Zenon DEF ReadsBack, T, vals
<1>14. CASE T = "Uint16"
  <2>1. \A k \in 1 .. L : Len(B[k]) = 2 /\ Uint(B[k]) = s[k].val
    BY <1>2, <1>3, <1>14, ValueBytes, Zenon
  <2>2. Len(v) = L * 2
    BY <2>1, <1>8, Zenon
  <2>3. /\ Len(v) = 2 => GetNumber(2, key, o) = [u |-> Uint(v), err |-> "nil"]
        /\ Len(v) > 2 => GetNumber(2, key, o).err # "nil"
    <3>1. 2 \in Nat \ {0}
      OBVIOUS
    <3> QED BY <3>1, <1>4, <1>6, NumberRead, Zenon
  <2>4. /\ L = 1 => Len(v) = 2 /\ Uint(v) = first
        /\ L # 1 => Len(v) > 2
    BY <2>1, <2>2, <1>1, <1>7
  <2>5. IF L = 1 THEN GetNumber(2, key, o) = [u |-> vals[1], err |-> "nil"]
        ELSE GetNumber(2, key, o).err # "nil"
    BY <2>3, <2>4, <1>5
  <2> QED BY <2>5, <1>14 DEF ReadsBack, L, T, vals, GetMaximumDHCPMessageSize
<1>15. CASE T = "Uint32"
  <2>1. \A k \in 1 .. L : Len(B[k]) = 4 /\ Uint(B[k]) = s[k].val
    BY <1>2, <1>3, <1>15, ValueBytes, Zenon
  <2>2. Len(v) = L * 4
    BY <2>1, <1>8, Zenon
  <2>3. /\ Len(v) = 4 => GetNumber(4, key, o) = [u |-> Uint(v), err |-> "nil"]
        /\ Len(v) > 4 => GetNumber(4, key, o).err # "nil"
    <3>1. 4 \in Nat \ {0}
      OBVIOUS
    <3> QED BY <3>1, <1>4, <1>6, NumberRead, Zenon
  <2>4. /\ L = 1 => Len(v) = 4 /\ Uint(v) = first
        /\ L # 1 => Len(v) > 4
    BY <2>1, <2>2, <1>1, <1>7
  <2>5. IF L = 1 THEN GetNumber(4, key, o) = [u |-> vals[1], err |-> "nil"]
        ELSE GetNumber(4, key, o).err # "nil"
    BY <2>3, <2>4, <1>5
  <2> QED BY <2>5, <1>15 DEF ReadsBack, L, T, vals, GetIPAddressLeaseTime
<1>16. CASE T = "nil"
  <2>1. \A k \in 1 .. L : Len(B[k]) = 0
    <3> SUFFICES ASSUME NEW k \in 1 .. L PROVE Len(B[k]) = 0
      OBVIOUS
    <3>1. IsValue(s[k]) /\ s[k].type = T /\ B[k] = MarshalValue(s[k])
      BY <1>2, <1>3
    <3> DEFINE x == s[k]
    <3> HIDE DEF x
    <3>2. IsValue(x) /\ x.type = T
      BY <3>1 DEF x
    <3>3. LET m == MarshalValue(x) IN Len(m) = 0
      BY <3>2, <1>16, ValueBytes
    <3> QED BY <3>1, <3>3 DEF x
  <2>2. Len(v) = L * 0
    BY <2>1, <1>8
  <2>3. v = <<>>
    BY <2>2, <1>1, <1>6
  <2> QED BY <2>3, <1>4, <1>16 DEF ReadsBack, T, Nil
<1>17. T \in ValueTypes
  BY <1>1, <1>2 DEF IsValue
<1> QED BY <1>9, <1>10, <1>11, <1>12, <1>13, <1>14, <1>15, <1>16, <1>17 DEF ValueTypes

\* The zero Packet is a packet.
LEMMA ZeroHeaderIs == IsHeader(ZeroHeader) /\ ZeroHeader.xid = Zeros(txidLen) /\ ZeroHeader.broadcast = FALSE
<1>1. txidLen \in Nat /\ MaxUint8 \in Nat /\ IPv4len \in Nat
  BY FormatAssumption, BytesAssumption, AddressBytesAssumption
<1>2. Zeros(txidLen) \in Seq(Byte) /\ Len(Zeros(txidLen)) = txidLen
  BY <1>1, ZerosType
<1>3. 0 \in Byte /\ 0 \in 0 .. Power(2) - 1 /\ <<>> \in Seq(Byte) /\ Len(<<>>) <= MaxUint8
  <2>1. Power(2) \in Nat \ {0}
    BY PowerIs
  <2> QED BY <2>1, <1>1, BaseType, EmptySeq
<1> DEFINE z == Zeros(txidLen)
<1> HIDE DEF z
<1>4. z \in Seq(Byte) /\ Len(z) = txidLen
  BY <1>2 DEF z
<1>5. ZeroHeader = [op |-> 0, htype |-> 0, hops |-> 0, xid |-> z, secs |-> 0,
                    broadcast |-> FALSE, ciaddr |-> <<>>, yiaddr |-> <<>>, siaddr |-> <<>>,
                    giaddr |-> <<>>, chaddr |-> <<>>, sname |-> <<>>, file |-> <<>>]
  BY DEF ZeroHeader, Nil, z
<1>6. IsHeader(ZeroHeader)
  BY <1>3, <1>4, <1>5 DEF IsHeader, Nil
<1> QED BY <1>5, <1>6 DEF z

\* No values have no bytes.
LEMMA NoData == DataOf(<<>>) = <<>>
<1>1. [k \in 1 .. Len(<<>>) |-> MarshalValue(<<>>[k])] = <<>>
  OBVIOUS
<1> QED BY <1>1, JoinedEmpty DEF DataOf

\* One value more.
LEMMA MoreData ==
  ASSUME NEW V, \A y \in V : IsValue(y), NEW s \in Seq(V), NEW x \in V
  PROVE  DataOf(Append(s, x)) = DataOf(s) \o MarshalValue(x)
<1> DEFINE n == Len(s)
           B == [k \in 1 .. n |-> MarshalValue(s[k])]
           m == MarshalValue(x)
           t == Append(s, x)
           C == [k \in 1 .. n + 1 |-> MarshalValue(t[k])]
<1>1. n \in Nat /\ Len(t) = n + 1 /\ t[n + 1] = x /\ \A k \in 1 .. n : t[k] = s[k] /\ s[k] \in V
  OBVIOUS
<1>2. m \in Seq(Byte) /\ \A k \in 1 .. n : MarshalValue(s[k]) \in Seq(Byte)
  BY <1>1, ValueBytes
<1> HIDE DEF n, m, t
<1>3. B \in [1 .. n -> Seq(Byte)]
  BY <1>2
<1>4. B \in Seq(Seq(Byte)) /\ Len(B) = n
  BY <1>1, <1>3, ArrayIsSeq
<1>5. C = Append(B, m)
  <2> DEFINE D == Append(B, m)
  <2> HIDE DEF B
  <2>1. /\ D \in Seq(Seq(Byte)) /\ Len(D) = n + 1 /\ D[n + 1] = m
        /\ \A k \in 1 .. n : D[k] = B[k]
    BY <1>2, <1>4, AppendProperties
  <2> HIDE DEF D
  <2>2. D = [k \in 1 .. n + 1 |-> D[k]]
    BY <2>1
  <2>3. \A k \in 1 .. n + 1 : MarshalValue(t[k]) = D[k]
    <3> SUFFICES ASSUME NEW k \in 1 .. n + 1 PROVE MarshalValue(t[k]) = D[k]
      OBVIOUS
    <3>1. CASE k = n + 1
      BY <3>1, <1>1, <2>1 DEF m
    <3>2. CASE k # n + 1
      <4>1. k \in 1 .. n
        BY <3>2, <1>1
      <4>2. t[k] = s[k] /\ D[k] = B[k] /\ B[k] = MarshalValue(s[k])
        BY <4>1, <1>1, <2>1 DEF B
      <4> QED BY <4>2
    <3> QED BY <3>1, <3>2
  <2> QED BY <2>2, <2>3, Zenon DEF D
<1> HIDE DEF B
<1>6. Joined(Append(B, m)) = Joined(B) \o m
  BY <1>2, <1>4, JoinedAppend
<1>7. DataOf(t) = Joined(C) /\ DataOf(s) = Joined(B)
  BY <1>1 DEF DataOf, B, n
<1> QED BY <1>5, <1>6, <1>7, Zenon DEF t, m
==============================================================================
