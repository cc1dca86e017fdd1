--------------------------- MODULE PacketCodecProofs ---------------------------
(* The codec of packets, for bytes, headers and options of every size.       *)
EXTENDS PacketCodec, PacketFormatProofs

------------------------------------------------------------------------------
(* The inductive invariant *)

\* The types, with those of the history variables.
TypeInv ==
  /\ TypeOK
  /\ added \in [Byte -> Seq(TypedValues)]
  /\ \A p \in orig : IsHeader(p.hdr) /\ IsOptions(p.opts)
  /\ wire \subseteq Seq(Byte)

\* The buffer of Marshal holds the header and the options that are written; a
\* loop over data of End or Pad never leaves it.
Writing(h, o, t, b) ==
  \E body \in Seq(Byte) : b = Header(h) \o body /\ (FixedData(t) \/ Written(o, body, t))

\* A whole packet: after the header, the bytes read as the options that have data.
Wrote(h, o, b) ==
  \E body \in Seq(Byte) : /\ b = Header(h) \o body
                          /\ Reads(Point(body, NoOptions), Point(EndOf(o), NonEmpty(o)))

\* MarshalBinary, between two rounds of Marshal and at its end.
MarshalInv ==
  /\ pc \in {"marshal", "marshalled"} => ~NoRoom(hdr) /\ orig = {[hdr |-> hdr, opts |-> opts]}
  /\ pc = "marshal" => DOMAIN todo \subseteq DOMAIN opts /\ Writing(hdr, opts, todo, buf)
  /\ pc = "marshalled" => Wrote(hdr, opts, buf)

\* UnmarshalBinary after the header, as long as it has not failed.
Parsing == {"unmarshal", "padding", "unmarshalled", "nil"}

\* What was marshalled is being read: the rest of the bytes is the rest of the
\* options, and only an End in the map of the sender makes it fail.
ParseInv ==
  \A p \in orig :
    /\ pc = "unmarshal" => Reads(Point(buf, opts), Point(EndOf(p.opts), NonEmpty(p.opts)))
    /\ pc \in {"padding", "unmarshalled", "nil"} => buf = <<>> /\ opts = NonEmpty(p.opts)
    /\ pc \in Parsing => ~lexErr /\ (FourBytes(p.hdr) => hdr = Normal(p.hdr))
    /\ pc \in Errors => End \in DOMAIN p.opts

\* Without an error of the Lexer, the header came from its own place, and what
\* is left of the bytes comes after it.
WireInv ==
  /\ pc = "nil" => ~lexErr
  /\ pc \in Parsing /\ ~lexErr => \A w \in wire :
       /\ hdr = Decoded(FieldsOf(w), stale)
       /\ Len(w) >= HeaderLen + Len(buf)
       /\ pc # "unmarshal" => Len(w) > HeaderLen

\* The map under construction has no code without data, nor Pad or End.
OptionsInv == pc \in Parsing => \A k \in DOMAIN opts : k \notin {Pad, End} /\ opts[k] # <<>>

\* An option holds the bytes of the values that were added under its code.
HoldsAdded(o) == \A key \in Byte : added[key] # <<>> => Get(o, key) = DataOf(added[key])
NothingAdded == \A key \in Byte : added[key] = <<>>

\* What was added is in the map that is built, written or was written.
AddedInv ==
  /\ pc = "new" => opts = NoOptions /\ NothingAdded
  /\ pc = "build" => \A key \in Byte : Get(opts, key) = DataOf(added[key])
  /\ pc \in {"marshal", "marshalled"} => HoldsAdded(opts)
  /\ pc \in Parsing => /\ \A p \in orig : HoldsAdded(p.opts)
                       /\ orig = {} => NothingAdded

Inv == TypeInv /\ MarshalInv /\ ParseInv /\ WireInv /\ OptionsInv /\ AddedInv

------------------------------------------------------------------------------
(* The steps *)

\* The initial state.
LEMMA InitInv == Init => Inv
<1> SUFFICES ASSUME Init PROVE Inv
  OBVIOUS
<1> USE DEF Init
<1>1. TypeInv
  <2>1. IsHeader(hdr) /\ IsOptions(opts) /\ IsOptions(todo) /\ buf \in Seq(Byte)
    BY ZeroHeaderIs, NoOptionsIs, EmptySeq
  <2>2. added \in [Byte -> Seq(TypedValues)]
    BY EmptySeq
  <2> QED BY <2>1, <2>2, Zenon DEF TypeInv, TypeOK
<1>2. MarshalInv /\ ParseInv /\ WireInv /\ OptionsInv
  BY DEF MarshalInv, ParseInv, WireInv, OptionsInv, Parsing
<1>3. AddedInv
  BY DEF AddedInv, NothingAdded, Parsing
<1> QED BY <1>1, <1>2, <1>3 DEF Inv

\* A header that was read from all of its bytes is at its own place in them.
LEMMA WholeHeader ==
  ASSUME NEW bytes \in Seq(Byte), NEW xid \in Seq(Byte), Len(xid) = txidLen
  PROVE  LET r == ReadFields(bytes, xid) IN
         /\ r.got \in [Names -> Seq(Byte)] /\ \A name \in Names : Len(r.got[name]) = Width[name]
         /\ r.lex.data \in Seq(Byte) /\ r.lex.err \in BOOLEAN
         /\ ~r.lex.err => /\ r.got = FieldsOf(bytes)
                          /\ r.lex.data \in Seq(Byte)
                          /\ Len(bytes) = HeaderLen + Len(r.lex.data)
<1> DEFINE r == ReadFields(bytes, xid)
<1>1. /\ r \in Readers
      /\ r.lex.err <=> Len(bytes) < HeaderLen
      /\ ~r.lex.err => /\ r.lex.data = SubSeq(bytes, HeaderLen + 1, Len(bytes))
                       /\ \A k \in 1 .. 15 : r.got[Fields[k]] = FieldAt(bytes, k)
  BY ReadFieldsIs
<1> HIDE DEF r
<1>2. /\ r.got \in [Names -> Seq(Byte)] /\ \A name \in Names : Len(r.got[name]) = Width[name]
      /\ r.lex.data \in Seq(Byte) /\ r.lex.err \in BOOLEAN
  <2>1. r \in Readers
    BY <1>1
  <2>2. /\ r \in [lex : [data : Seq(Byte), err : BOOLEAN], got : [Names -> Seq(Byte)]]
        /\ \A name \in Names : Len(r.got[name]) = Width[name]
    BY <2>1 DEF Readers
  <2>3. r.lex \in [data : Seq(Byte), err : BOOLEAN] /\ r.got \in [Names -> Seq(Byte)]
    BY <2>2
  <2> QED BY <2>2, <2>3
<1>3. ASSUME ~r.lex.err
      PROVE  r.got = FieldsOf(bytes) /\ Len(bytes) = HeaderLen + Len(r.lex.data)
  <2>1. \A name \in Names : r.got[name] = FieldsOf(bytes)[name]
    <3> SUFFICES ASSUME NEW name \in Names PROVE r.got[name] = FieldsOf(bytes)[name]
      OBVIOUS
    <3>1. PICK k \in 1 .. 15 : Fields[k] = name
      BY FieldsAre
    <3> QED BY <3>1, <1>1, <1>3, FieldsOfIs, Zenon
  <2>2. FieldsOf(bytes) = [name \in Names |-> FieldsOf(bytes)[name]]
    BY WidthIs DEF FieldsOf
  <2>3. r.got = FieldsOf(bytes)
    BY <2>1, <2>2, <1>2
  <2>4. HeaderLen \in Nat
    BY OffsetIs, FieldsAre DEF HeaderLen
  <2>5. HeaderLen \in 0 .. Len(bytes)
    BY <2>4, <1>1, <1>3
  <2>6. Len(SubSeq(bytes, HeaderLen + 1, Len(bytes))) = Len(bytes) - HeaderLen
    BY <2>5, CutAfter
  <2>7. Len(r.lex.data) = Len(bytes) - HeaderLen
    BY <2>6, <1>1, <1>3, Zenon
  <2> QED BY <2>3, <2>4, <2>7
<1> QED BY <1>2, <1>3 DEF r

\* A call of UnmarshalBinary, as far as the options.
LEMMA UnmarshalCall ==
  ASSUME TypeInv, NEW bytes \in Seq(Byte), NEW receiver, IsHeader(receiver.hdr),
         IsOptions(receiver.opts), NEW from, UnmarshalBinary(bytes, receiver, from)
  PROVE  /\ TypeOK' /\ WireInv' /\ OptionsInv'
         /\ pc' \in {"unmarshal", BadCookie} /\ wire' = {bytes} /\ orig' = from
<1> DEFINE r == ReadFields(bytes, receiver.hdr.xid)
           b == receiver.hdr.broadcast
<1>1. receiver.hdr.xid \in Seq(Byte) /\ Len(receiver.hdr.xid) = txidLen /\ b \in BOOLEAN
  BY HeaderFields
<1>2. /\ r.got \in [Names -> Seq(Byte)] /\ \A name \in Names : Len(r.got[name]) = Width[name]
      /\ r.lex.data \in Seq(Byte) /\ r.lex.err \in BOOLEAN
      /\ ~r.lex.err => /\ r.got = FieldsOf(bytes)
                       /\ Len(bytes) = HeaderLen + Len(r.lex.data)
  BY <1>1, WholeHeader
<1>3. /\ hdr' = Decoded(r.got, b) /\ lexErr' = r.lex.err /\ stale' = b
      /\ wire' = {bytes} /\ orig' = from /\ buf' = r.lex.data /\ todo' = todo
      /\ \/ pc' = "unmarshal" /\ opts' = NoOptions
         \/ pc' = BadCookie /\ opts' = receiver.opts
  BY DEF UnmarshalBinary, CallUnmarshal
<1> HIDE DEF r, b
<1>4. IsHeader(hdr')
  BY <1>1, <1>2, <1>3, DecodedType
<1>5. IsOptions(opts') /\ IsOptions(todo')
  BY <1>3, NoOptionsIs DEF TypeInv, TypeOK
<1>6. TypeOK'
  BY <1>1, <1>2, <1>3, <1>4, <1>5 DEF TypeOK, Done, Errors
<1>7. WireInv'
  <2>1. pc' # "nil"
    BY <1>3, Zenon DEF BadCookie
  <2>2. ASSUME pc' \in Parsing, ~lexErr', NEW w \in wire'
        PROVE  /\ hdr' = Decoded(FieldsOf(w), stale') /\ Len(w) >= HeaderLen + Len(buf')
               /\ pc' # "unmarshal" => Len(w) > HeaderLen
    <3>1. w = bytes /\ pc' = "unmarshal" /\ ~r.lex.err
      BY <2>2, <1>3, Zenon DEF Parsing, BadCookie
    <3>2. HeaderLen \in Nat /\ Len(bytes) \in Nat
      BY OffsetIs, FieldsAre DEF HeaderLen
    <3> QED BY <3>1, <3>2, <1>2, <1>3
  <2> QED BY <2>1, <2>2 DEF WireInv, Parsing
<1>8. OptionsInv'
  BY <1>3, NoOptionsIs, Zenon DEF OptionsInv, Parsing, BadCookie
<1> QED BY <1>3, <1>6, <1>7, <1>8

\* A user begins a packet, or turns to another one.
LEMMA BuildInv ==
  ASSUME Inv, NEW h \in Headers, BuildPacket(h)
  PROVE  Inv'
<1>0. /\ pc = "new" /\ pc' = "build" /\ hdr' = h
      /\ UNCHANGED <<opts, todo, buf, lexErr, added, orig, wire, stale>>
  BY DEF BuildPacket
<1>1. TypeInv'
  <2>1. IsHeader(h)
    BY CodecAssumption
  <2> QED BY <1>0, <2>1 DEF Inv, TypeInv, TypeOK
<1>2. MarshalInv' /\ WireInv' /\ OptionsInv'
  BY <1>0 DEF MarshalInv, WireInv, OptionsInv, Parsing
<1>3. ParseInv'
  BY <1>0 DEF ParseInv, Parsing, Errors, EOF, Invalid, BadCookie, Short
<1>4. \A key \in Byte : Get(opts', key) = DataOf(added'[key])
  <2>1. opts' = NoOptions /\ \A key \in Byte : added'[key] = <<>>
    BY <1>0 DEF Inv, AddedInv, NothingAdded
  <2> QED BY <2>1, NoData, NoOptionsIs
<1>5. AddedInv'
  BY <1>0, <1>4 DEF AddedInv, Parsing
<1> QED BY <1>1, <1>2, <1>3, <1>5 DEF Inv

\* The same for the next packet.
LEMMA ForgetInv ==
  ASSUME Inv, Forget
  PROVE  Inv'
<1>0. /\ pc' = "new" /\ opts' = NoOptions /\ todo' = NoOptions /\ buf' = <<>>
      /\ hdr' = ZeroHeader /\ lexErr' = FALSE /\ added' = [key \in Byte |-> <<>>]
      /\ orig' = {} /\ wire' = {} /\ stale' = FALSE
  BY DEF Forget
<1>1. TypeInv'
  <2>1. IsHeader(hdr') /\ IsOptions(opts') /\ IsOptions(todo') /\ buf' \in Seq(Byte)
    BY <1>0, ZeroHeaderIs, NoOptionsIs, EmptySeq
  <2>2. added' \in [Byte -> Seq(TypedValues)]
    BY <1>0, EmptySeq
  <2> QED BY <1>0, <2>1, <2>2, Zenon DEF TypeInv, TypeOK
<1>2. MarshalInv' /\ ParseInv' /\ WireInv' /\ OptionsInv'
  BY <1>0 DEF MarshalInv, ParseInv, WireInv, OptionsInv, Parsing
<1>3. AddedInv'
  BY <1>0 DEF AddedInv, NothingAdded, Parsing
<1> QED BY <1>1, <1>2, <1>3 DEF Inv

\* A value is added.
LEMMA AddInv ==
  ASSUME Inv, NEW key \in Byte, NEW x \in TypedValues, AddOption(key, x)
  PROVE  Inv'
<1> DEFINE m == MarshalValue(x)
<1>0. /\ pc = "build" /\ pc' = "build" /\ opts' = AddRaw(opts, key, m)
      /\ added' = [added EXCEPT ![key] = Append(@, x)]
      /\ UNCHANGED <<todo, buf, hdr, lexErr, orig, wire, stale>>
  BY DEF AddOption, Add
<1>1. m \in Seq(Byte)
  BY CodecAssumption, ValueBytes
<1>2. IsOptions(opts) /\ added \in [Byte -> Seq(TypedValues)]
  BY DEF Inv, TypeInv, TypeOK
<1> HIDE DEF m
<1>3. /\ IsOptions(opts') /\ Get(opts', key) = Get(opts, key) \o m
      /\ \A k : k # key => Get(opts', k) = Get(opts, k)
  <2>1. LET a == AddRaw(opts, key, m) IN
        /\ IsOptions(a) /\ Get(a, key) = Get(opts, key) \o m
        /\ \A k : k # key => Get(a, k) = Get(opts, k)
    BY <1>1, <1>2, AddRawIs, Zenon
  <2> QED BY <1>0, <2>1
<1>4. added[key] \in Seq(TypedValues) /\ Append(added[key], x) \in Seq(TypedValues)
  BY <1>2, AppendProperties
<1>5. added' \in [Byte -> Seq(TypedValues)]
  BY <1>0, <1>2, <1>4
<1>6. TypeInv'
  BY <1>0, <1>3, <1>5 DEF Inv, TypeInv, TypeOK
<1>7. MarshalInv' /\ WireInv' /\ OptionsInv'
  BY <1>0 DEF MarshalInv, WireInv, OptionsInv, Parsing
<1>8. ParseInv'
  BY <1>0 DEF ParseInv, Parsing, Errors, EOF, Invalid, BadCookie, Short
<1>9. ASSUME NEW k \in Byte PROVE Get(opts', k) = DataOf(added'[k])
  <2>0. Get(opts, k) = DataOf(added[k])
    BY <1>0 DEF Inv, AddedInv
  <2>1. CASE k = key
    <3>1. added'[k] = Append(added[key], x)
      BY <2>1, <1>0, <1>2
    <3>2. DataOf(Append(added[key], x)) = DataOf(added[key]) \o m
      BY <1>4, CodecAssumption, MoreData DEF m
    <3> QED BY <2>0, <2>1, <3>1, <3>2, <1>3
  <2>2. CASE k # key
    <3>1. added'[k] = added[k]
      BY <2>2, <1>0, <1>2
    <3> QED BY <2>0, <2>2, <3>1, <1>3
  <2> QED BY <2>1, <2>2
<1>10. AddedInv'
  BY <1>0, <1>9 DEF AddedInv, Parsing
<1> QED BY <1>6, <1>7, <1>8, <1>10 DEF Inv

\* Options without data are no different to Get.
LEMMA GetNonEmpty ==
  ASSUME NEW o, NEW k
  PROVE  Get(NonEmpty(o), k) = Get(o, k)
BY DEF Get, NonEmpty, Nil

\* MarshalBinary writes the header.
LEMMA MarshalBinaryInv ==
  ASSUME Inv, MarshalBinary
  PROVE  Inv'
<1>0. /\ pc \in {"build", "nil"} /\ opts' = opts
      /\ orig' = {[hdr |-> hdr, opts |-> opts]} /\ wire' = {}
      /\ UNCHANGED <<hdr, lexErr, added, stale>>
      /\ \/ pc' = "panic" /\ UNCHANGED <<todo, buf>>
         \/ ~NoRoom(hdr) /\ pc' = "marshal" /\ todo' = opts /\ buf' = Header(hdr)
  BY DEF MarshalBinary, CallMarshal
<1>1. IsHeader(hdr) /\ IsOptions(opts)
  BY DEF Inv, TypeInv, TypeOK
<1>2. Header(hdr) \in Seq(Byte)
  BY <1>1, HeaderIs
<1>3. TypeInv'
  <2>1. \A p \in orig' : IsHeader(p.hdr) /\ IsOptions(p.opts)
    BY <1>0, <1>1
  <2>2. TypeOK'
    <3>1. CASE pc' = "panic"
      BY <3>1, <1>0 DEF Inv, TypeInv, TypeOK, Done
    <3>2. CASE pc' = "marshal"
      BY <3>2, <1>0, <1>1, <1>2 DEF Inv, TypeInv, TypeOK
    <3> QED BY <1>0, <3>1, <3>2
  <2> QED BY <1>0, <2>1, <2>2 DEF Inv, TypeInv
<1>4. MarshalInv'
  <2>1. CASE pc' = "panic"
    BY <2>1 DEF MarshalInv
  <2>2. CASE pc' = "marshal"
    <3>1. Header(hdr) = Header(hdr) \o <<>> /\ <<>> \in Seq(Byte)
      BY <1>2, ConcatEmptySeq, EmptySeq
    <3>2. Written(opts, <<>>, opts)
      BY <1>1, WrittenStart
    <3>3. Writing(hdr, opts, opts, Header(hdr))
      BY <3>1, <3>2, Zenon DEF Writing
    <3> QED BY <2>2, <3>3, <1>0 DEF MarshalInv
  <2> QED BY <2>1, <2>2, <1>0
<1>5. ParseInv'
  BY <1>0, Zenon DEF ParseInv, Parsing, Errors, EOF, Invalid, BadCookie, Short
<1>6. WireInv' /\ OptionsInv'
  BY <1>0 DEF WireInv, OptionsInv, Parsing
<1>7. HoldsAdded(opts)
  <2>1. CASE pc = "build"
    BY <2>1 DEF Inv, AddedInv, HoldsAdded
  <2>2. CASE pc = "nil"
    <3>1. CASE orig = {}
      BY <2>2, <3>1 DEF Inv, AddedInv, HoldsAdded, NothingAdded, Parsing
    <3>2. CASE orig # {}
      <4>1. PICK p \in orig : TRUE
        BY <3>2
      <4>2. opts = NonEmpty(p.opts) /\ HoldsAdded(p.opts)
        BY <2>2 DEF Inv, ParseInv, AddedInv, Parsing
      <4> QED BY <4>2, GetNonEmpty DEF HoldsAdded
    <3> QED BY <3>1, <3>2
  <2> QED BY <2>1, <2>2, <1>0
<1>8. AddedInv'
  <2>1. HoldsAdded(opts)'
    BY <1>0, <1>7 DEF HoldsAdded
  <2> QED BY <1>0, <2>1 DEF AddedInv, Parsing
<1> QED BY <1>3, <1>4, <1>5, <1>6, <1>8 DEF Inv

\* ParsePacket of what was marshalled reads the header that was written.
LEMMA ParseMarshalledInv ==
  ASSUME Inv, pc = "marshalled", UnmarshalBinary(buf, ZeroPacket, orig), UNCHANGED added
  PROVE  Inv'
<1> DEFINE r == ReadFields(buf, ZeroPacket.hdr.xid)
           z == Zeros(txidLen)
<1>0. IsHeader(hdr) /\ IsOptions(opts) /\ buf \in Seq(Byte)
  BY DEF Inv, TypeInv, TypeOK
<1>1. ~NoRoom(hdr) /\ orig = {[hdr |-> hdr, opts |-> opts]} /\ Wrote(hdr, opts, buf)
  BY DEF Inv, MarshalInv
<1>2. PICK body \in Seq(Byte) : /\ buf = Header(hdr) \o body
                                /\ Reads(Point(body, NoOptions), Point(EndOf(opts), NonEmpty(opts)))
  BY <1>1 DEF Wrote
<1>3. /\ ZeroPacket.hdr = ZeroHeader /\ ZeroPacket.hdr.xid = z /\ z \in Seq(Byte) /\ Len(z) = txidLen
      /\ ZeroPacket.hdr.broadcast = FALSE /\ IsHeader(ZeroPacket.hdr) /\ IsOptions(ZeroPacket.opts)
  BY ZeroHeaderIs, NoOptionsIs, HeaderFields DEF ZeroPacket
<1> HIDE DEF z
<1>4. /\ r.lex.err = FALSE /\ r.lex.data = body
      /\ \A name \in Names : r.got[name] = Encoded(hdr)[name]
  <2>1. IsHeader(hdr) /\ z \in Seq(Byte) /\ Len(z) = txidLen
    BY <1>0, <1>3
  <2>2. IsRead(ReadFields(Header(hdr) \o body, z), hdr, body)
    BY <2>1, ReadsHeader
  <2>3. IsRead(r, hdr, body)
    BY <2>2, <1>2, <1>3
  <2> HIDE DEF r
  <2> QED BY <2>3 DEF IsRead
<1>5. r.got.cookie = magicCookie
  BY <1>4 DEF Names, Encoded
<1>6. /\ hdr' = Decoded(r.got, FALSE) /\ lexErr' = FALSE /\ pc' = "unmarshal"
      /\ opts' = NoOptions /\ buf' = body
  BY <1>3, <1>4, <1>5, Zenon DEF UnmarshalBinary, CallUnmarshal
<1> HIDE DEF r
<1>7. FourBytes(hdr) => hdr' = Normal(hdr)
  BY <1>0, <1>1, <1>4, <1>6, DecodedEncoded, Zenon
<1>8. TypeOK' /\ WireInv' /\ OptionsInv' /\ wire' = {buf} /\ orig' = orig
  BY <1>0, <1>3, UnmarshalCall DEF Inv
<1>9. TypeInv'
  BY <1>0, <1>8 DEF Inv, TypeInv
<1>10. MarshalInv'
  BY <1>6 DEF MarshalInv
<1>11. ParseInv'
  <2> SUFFICES ASSUME NEW p \in orig
               PROVE  /\ Reads(Point(body, NoOptions), Point(EndOf(p.opts), NonEmpty(p.opts)))
                      /\ FourBytes(p.hdr) => hdr' = Normal(p.hdr)
    BY <1>6, <1>8, Zenon DEF ParseInv, Parsing, Errors, EOF, Invalid, BadCookie, Short
  <2>1. p.hdr = hdr /\ p.opts = opts
    BY <1>1
  <2> QED BY <2>1, <1>2, <1>7
<1>12. AddedInv'
  <2>1. HoldsAdded(opts)
    BY DEF Inv, AddedInv
  <2>2. \A p \in orig : HoldsAdded(p.opts)
    BY <2>1, <1>1
  <2>3. \A p \in orig' : HoldsAdded(p.opts)'
    BY <2>2, <1>8 DEF HoldsAdded
  <2>4. orig' # {}
    BY <1>1, <1>8, Zenon
  <2> QED BY <2>3, <2>4, <1>6 DEF AddedInv
<1> QED BY <1>8, <1>9, <1>10, <1>11, <1>12 DEF Inv

\* UnmarshalBinary of bytes of any origin, into a Packet new or used.
LEMMA ParseWireInv ==
  ASSUME Inv, NEW bytes \in Seq(Byte), NEW receiver, IsHeader(receiver.hdr),
         IsOptions(receiver.opts), UnmarshalBinary(bytes, receiver, {}),
         added' \in [Byte -> Seq(TypedValues)], \A key \in Byte : added'[key] = <<>>
  PROVE  Inv'
<1>1. /\ TypeOK' /\ WireInv' /\ OptionsInv'
      /\ pc' \in {"unmarshal", BadCookie} /\ wire' = {bytes} /\ orig' = {}
  BY UnmarshalCall DEF Inv
<1>2. TypeInv'
  BY <1>1 DEF TypeInv
<1>3. MarshalInv' /\ ParseInv'
  BY <1>1, Zenon DEF MarshalInv, ParseInv, BadCookie
<1>4. AddedInv'
  BY <1>1, Zenon DEF AddedInv, NothingAdded, BadCookie
<1> QED BY <1>1, <1>2, <1>3, <1>4 DEF Inv

\* ParsePacket, and UnmarshalBinary into a Packet that was used before.
LEMMA ParseInvStep ==
  ASSUME Inv, ParsePacket \/ Reuse
  PROVE  Inv'
<1>0. Wire \subseteq Seq(Byte) /\ WireAgain \subseteq Seq(Byte)
  BY CodecAssumption
<1>1. CASE pc = "marshalled" /\ UnmarshalBinary(buf, ZeroPacket, orig) /\ UNCHANGED added
  BY <1>1, ParseMarshalledInv
<1>2. ASSUME pc = "new", NEW bytes \in Wire, UnmarshalBinary(bytes, ZeroPacket, {}), UNCHANGED added
      PROVE  Inv'
  <2>1. IsHeader(ZeroPacket.hdr) /\ IsOptions(ZeroPacket.opts) /\ bytes \in Seq(Byte)
    BY <1>0, ZeroHeaderIs, NoOptionsIs DEF ZeroPacket
  <2>2. added' \in [Byte -> Seq(TypedValues)] /\ \A key \in Byte : added'[key] = <<>>
    BY <1>2 DEF Inv, TypeInv, AddedInv, NothingAdded
  <2> QED BY <1>2, <2>1, <2>2, ParseWireInv
<1>3. ASSUME NEW bytes \in WireAgain, UnmarshalBinary(bytes, [hdr |-> hdr, opts |-> opts], {}),
             added' = [key \in Byte |-> <<>>]
      PROVE  Inv'
  <2> DEFINE receiver == [hdr |-> hdr, opts |-> opts]
  <2>1. IsHeader(receiver.hdr) /\ IsOptions(receiver.opts) /\ bytes \in Seq(Byte)
    BY <1>0 DEF Inv, TypeInv, TypeOK
  <2>2. added' \in [Byte -> Seq(TypedValues)] /\ \A key \in Byte : added'[key] = <<>>
    BY <1>3, EmptySeq
  <2> HIDE DEF receiver
  <2>3. UnmarshalBinary(bytes, receiver, {})
    BY <1>3 DEF receiver
  <2> QED BY <2>1, <2>2, <2>3, ParseWireInv
<1> QED BY <1>1, <1>2, <1>3 DEF ParsePacket, Reuse

\* What a step of Marshal leaves as it was.
LEMMA MarshalOthers ==
  ASSUME Inv, pc = "marshal", pc' \in {"marshal", "marshalled"}, opts' = opts,
         buf' \in Seq(Byte), IsOptions(todo'), UNCHANGED <<hdr, lexErr, added, orig, wire, stale>>
  PROVE  /\ TypeInv' /\ ParseInv' /\ WireInv' /\ OptionsInv' /\ AddedInv'
         /\ ~NoRoom(hdr') /\ orig' = {[hdr |-> hdr', opts |-> opts']}
<1>1. TypeInv'
  BY DEF Inv, TypeInv, TypeOK, Done
<1>2. ParseInv'
  BY Zenon DEF ParseInv, Parsing, Errors, EOF, Invalid, BadCookie, Short
<1>3. WireInv' /\ OptionsInv'
  BY DEF WireInv, OptionsInv, Parsing
<1>4. AddedInv'
  <2>1. HoldsAdded(opts)
    BY DEF Inv, AddedInv
  <2>2. HoldsAdded(opts)'
    BY <2>1 DEF HoldsAdded
  <2> QED BY <2>2 DEF AddedInv, Parsing
<1>5. ~NoRoom(hdr) /\ orig = {[hdr |-> hdr, opts |-> opts]}
  BY DEF Inv, MarshalInv
<1>6. ~NoRoom(hdr')
  BY <1>5
<1> QED BY <1>1, <1>2, <1>3, <1>4, <1>5, <1>6

\* Marshal goes on to the next code.
LEMMA NextCodeInv ==
  ASSUME Inv, NEW code \in DOMAIN todo, MarshalNext(code),
         UNCHANGED <<hdr, lexErr, added, orig, wire, stale>>
  PROVE  Inv'
<1>0. /\ pc = "marshal" /\ pc' = "marshal" /\ opts' = opts /\ buf' = buf
      /\ todo[code] = <<>> /\ todo' = [k \in DOMAIN todo \ {code} |-> todo[k]]
  BY DEF MarshalNext, Without
<1>1. IsOptions(todo) /\ buf \in Seq(Byte) /\ DOMAIN todo \subseteq DOMAIN opts
  BY <1>0 DEF Inv, TypeInv, TypeOK, MarshalInv
<1>2. DOMAIN todo' = DOMAIN todo \ {code} /\ \A k \in DOMAIN todo' : todo'[k] = todo[k]
  BY <1>0
<1>3. IsOptions(todo')
  BY <1>0, <1>1 DEF IsOptions
<1>4. PICK body \in Seq(Byte) : /\ buf = Header(hdr) \o body
                                /\ FixedData(todo) \/ Written(opts, body, todo)
  BY <1>0, Zenon DEF Inv, MarshalInv, Writing
<1>5. FixedData(todo) => FixedData(todo')
  BY <1>0, <1>2 DEF FixedData
<1>6. Written(opts, body, todo) => Written(opts, body, todo')
  BY <1>0, <1>2, WrittenNext
<1>7. Writing(hdr', opts', todo', buf')
  BY <1>0, <1>4, <1>5, <1>6, Zenon DEF Writing
<1>8. MarshalInv' /\ TypeInv' /\ ParseInv' /\ WireInv' /\ OptionsInv' /\ AddedInv'
  <2>1. /\ TypeInv' /\ ParseInv' /\ WireInv' /\ OptionsInv' /\ AddedInv'
        /\ ~NoRoom(hdr') /\ orig' = {[hdr |-> hdr', opts |-> opts']}
    BY <1>0, <1>1, <1>3, MarshalOthers
  <2> QED BY <2>1, <1>0, <1>1, <1>2, <1>7 DEF MarshalInv
<1> QED BY <1>8 DEF Inv

\* Marshal writes one chunk.
LEMMA ChunkInv ==
  ASSUME Inv, NEW code \in DOMAIN todo, MarshalChunk(code),
         UNCHANGED <<hdr, lexErr, added, orig, wire, stale>>
  PROVE  Inv'
<1> DEFINE data == todo[code]
           n == chunk(Len(data))
           h == <<code, n % Base>>
           d == SubSeq(data, 1, n)
           e == SubSeq(data, n + 1, Len(data))
           x == Chunk(code, d)
           H == Header(hdr)
<1>0. /\ pc = "marshal" /\ pc' = "marshal" /\ opts' = opts
      /\ data # <<>> /\ code \notin {End, Pad}
      /\ buf' = (buf \o h) \o d /\ todo' = [todo EXCEPT ![code] = e]
  BY DEF MarshalChunk
<1>1. /\ IsOptions(todo) /\ IsOptions(opts) /\ IsHeader(hdr) /\ buf \in Seq(Byte)
      /\ DOMAIN todo \subseteq DOMAIN opts
  BY <1>0 DEF Inv, TypeInv, TypeOK, MarshalInv
<1>2. data \in Seq(Byte) /\ code \in Byte \ {Pad, End}
  BY <1>0, <1>1 DEF IsOptions
<1> HIDE DEF data
<1>3. IsChunk(code, d) /\ h \o d = x /\ e \in Seq(Byte) /\ d \o e = data
  BY <1>0, <1>2, ChunkWritten, Zenon
<1>4. h \in Seq(Byte) /\ d \in Seq(Byte) /\ x \in Seq(Byte)
  <2>1. d \in Seq(Byte) /\ Len(d) \in Nat
    BY <1>3 DEF IsChunk
  <2>2. n % Base \in Byte
    <3>1. n \in Nat
      BY <1>2, BytesAssumption DEF chunk
    <3> QED BY <3>1, BaseType
  <2>3. h \in Seq(Byte)
    BY <2>2, <1>2
  <2> QED BY <2>1, <2>3, <1>3, ChunkType
<1> HIDE DEF h, d, e, x, n
<1>5. H \in Seq(Byte)
  BY <1>1, HeaderIs
<1>6. PICK body \in Seq(Byte) : /\ buf = H \o body
                                /\ FixedData(todo) \/ Written(opts, body, todo)
  BY <1>0, Zenon DEF Inv, MarshalInv, Writing
<1> HIDE DEF H
<1>7. body \o x \in Seq(Byte) /\ buf' = H \o (body \o x)
  <2>1. \A f, g, i \in Seq(Byte) : (f \o g) \o i = f \o (g \o i) /\ f \o g \in Seq(Byte)
    BY ConcatAssociative, ConcatProperties
  <2>2. buf' = buf \o (h \o d)
    BY <2>1, <1>0, <1>1, <1>4
  <2>3. (H \o body) \o x = H \o (body \o x)
    BY <2>1, <1>4, <1>5
  <2> QED BY <2>1, <2>2, <2>3, <1>3, <1>4, <1>6, Zenon
<1>8. DOMAIN todo' = DOMAIN todo /\ \A k \in DOMAIN todo : k # code => todo'[k] = todo[k]
  BY <1>0
<1>9. IsOptions(todo')
  BY <1>0, <1>1, <1>3 DEF IsOptions
<1>10. FixedData(todo) => FixedData(todo')
  BY <1>0, <1>8 DEF FixedData
<1>11. ASSUME Written(opts, body, todo) PROVE Written(opts, body \o x, todo')
  <2>1. d \o e = todo[code] /\ todo' = [todo EXCEPT ![code] = e] /\ e \in Seq(Byte)
    BY <1>0, <1>3 DEF data
  <2> QED BY <2>1, <1>1, <1>3, <1>11, WrittenChunk, Zenon DEF x
<1>12. Writing(hdr', opts', todo', buf')
  <2>1. buf' = Header(hdr') \o (body \o x)
    BY <1>7 DEF H
  <2> QED BY <2>1, <1>0, <1>6, <1>7, <1>10, <1>11, Zenon DEF Writing
<1>13. buf' \in Seq(Byte)
  BY <1>5, <1>7, ConcatProperties
<1>14. MarshalInv' /\ TypeInv' /\ ParseInv' /\ WireInv' /\ OptionsInv' /\ AddedInv'
  <2>1. /\ TypeInv' /\ ParseInv' /\ WireInv' /\ OptionsInv' /\ AddedInv'
        /\ ~NoRoom(hdr') /\ orig' = {[hdr |-> hdr', opts |-> opts']}
    BY <1>0, <1>9, <1>13, MarshalOthers
  <2> QED BY <2>1, <1>0, <1>1, <1>8, <1>12 DEF MarshalInv
<1> QED BY <1>14 DEF Inv

\* One byte more after the header.
LEMMA AppendAfter ==
  ASSUME NEW H \in Seq(Byte), NEW body \in Seq(Byte), NEW b \in Byte
  PROVE  /\ body \o <<b>> \in Seq(Byte) /\ Append(H \o body, b) = H \o (body \o <<b>>)
         /\ Append(H \o body, b) \in Seq(Byte)
<1>1. <<b>> \in Seq(Byte)
  OBVIOUS
<1>2. \A f, g \in Seq(Byte) : f \o g \in Seq(Byte)
  BY ConcatProperties
<1>3. \A f \in Seq(Byte) : Append(f, b) = f \o <<b>> /\ Append(f, b) \in Seq(Byte)
  BY AppendIsConcat, AppendProperties
<1>4. (H \o body) \o <<b>> = H \o (body \o <<b>>)
  BY <1>1, ConcatAssociative
<1> QED BY <1>1, <1>2, <1>3, <1>4, Zenon

\* Marshal writes a code without its data, over and over.
LEMMA FixedInv ==
  ASSUME Inv, NEW code \in DOMAIN todo, MarshalFixed(code),
         UNCHANGED <<hdr, lexErr, added, orig, wire, stale>>
  PROVE  Inv'
<1> DEFINE H == Header(hdr)
<1>0. /\ pc = "marshal" /\ pc' = "marshal" /\ opts' = opts /\ todo' = todo
      /\ todo[code] # <<>> /\ code \in {End, Pad}
      /\ buf' = Append(buf, code) \/ buf' = buf
  BY DEF MarshalFixed
<1>1. /\ IsOptions(todo) /\ IsHeader(hdr) /\ buf \in Seq(Byte) /\ DOMAIN todo \subseteq DOMAIN opts
  BY <1>0 DEF Inv, TypeInv, TypeOK, MarshalInv
<1>2. FixedData(todo') /\ code \in Byte
  BY <1>0, <1>1 DEF FixedData, IsOptions
<1>3. H \in Seq(Byte)
  BY <1>1, HeaderIs
<1>4. PICK body \in Seq(Byte) : buf = H \o body
  BY <1>0 DEF Inv, MarshalInv, Writing
<1> HIDE DEF H
<1>5. /\ body \o <<code>> \in Seq(Byte) /\ Append(buf, code) = H \o (body \o <<code>>)
      /\ Append(buf, code) \in Seq(Byte)
  BY <1>2, <1>3, <1>4, AppendAfter, Zenon
<1>6. Writing(hdr', opts', todo', buf') /\ buf' \in Seq(Byte)
  <2>1. CASE buf' = buf
    BY <2>1, <1>0, <1>1, <1>2, <1>4 DEF Writing, H
  <2>2. CASE buf' = Append(buf, code)
    BY <2>2, <1>0, <1>2, <1>5, Zenon DEF Writing, H
  <2> QED BY <2>1, <2>2, <1>0
<1>7. MarshalInv' /\ TypeInv' /\ ParseInv' /\ WireInv' /\ OptionsInv' /\ AddedInv'
  <2>1. IsOptions(todo')
    BY <1>0, <1>1
  <2>2. /\ TypeInv' /\ ParseInv' /\ WireInv' /\ OptionsInv' /\ AddedInv'
        /\ ~NoRoom(hdr') /\ orig' = {[hdr |-> hdr', opts |-> opts']}
    BY <2>1, <1>0, <1>6, MarshalOthers
  <2> QED BY <2>2, <1>0, <1>1, <1>6 DEF MarshalInv
<1> QED BY <1>7 DEF Inv

\* Marshal returns.
LEMMA MarshalEndInv ==
  ASSUME Inv, MarshalEnd, UNCHANGED <<hdr, lexErr, added, orig, wire, stale>>
  PROVE  Inv'
<1> DEFINE H == Header(hdr)
           e == EndOf(opts)
<1>0. /\ pc = "marshal" /\ pc' = "marshalled" /\ opts' = opts /\ todo' = todo /\ DOMAIN todo = {}
      /\ buf' = IF End \in DOMAIN opts THEN buf ELSE Append(buf, End)
  BY DEF MarshalEnd
<1>1. IsOptions(todo) /\ IsOptions(opts) /\ IsHeader(hdr) /\ buf \in Seq(Byte)
  BY DEF Inv, TypeInv, TypeOK
<1>2. H \in Seq(Byte) /\ e \in Seq(Byte)
  BY <1>1, HeaderIs, EndOfType
<1>3. PICK body \in Seq(Byte) : /\ buf = H \o body
                                /\ FixedData(todo) \/ Written(opts, body, todo)
  BY <1>0 DEF Inv, MarshalInv, Writing
<1> HIDE DEF H
<1>4. Written(opts, body, todo)
  BY <1>0, <1>3 DEF FixedData
<1>5. Reads(Point(body \o e, NoOptions), Point(e, NonEmpty(opts)))
  BY <1>0, <1>1, <1>4, WrittenEnd
<1>6. body \o e \in Seq(Byte) /\ buf' = H \o (body \o e) /\ buf' \in Seq(Byte)
  <2>1. CASE End \in DOMAIN opts
    <3>1. e = <<>> /\ buf' = buf
      BY <2>1, <1>0 DEF EndOf
    <3>2. body \o <<>> = body
      BY ConcatEmptySeq
    <3> QED BY <3>1, <3>2, <1>1, <1>3
  <2>2. CASE End \notin DOMAIN opts
    <3>1. e = <<End>> /\ buf' = Append(buf, End)
      BY <2>2, <1>0 DEF EndOf
    <3>2. End \in Byte
      BY BytesAssumption DEF End, Byte
    <3>3. /\ body \o <<End>> \in Seq(Byte) /\ Append(buf, End) = H \o (body \o <<End>>)
          /\ Append(buf, End) \in Seq(Byte)
      BY <3>2, <1>2, <1>3, AppendAfter, Zenon
    <3> HIDE DEF e
    <3> QED BY <3>1, <3>3
  <2> QED BY <2>1, <2>2
<1>7. Wrote(hdr', opts', buf')
  <2>1. buf' = Header(hdr') \o (body \o e)
    BY <1>6 DEF H
  <2>2. Reads(Point(body \o e, NoOptions), Point(EndOf(opts'), NonEmpty(opts')))
    BY <1>0, <1>5
  <2> HIDE DEF e
  <2> QED BY <2>1, <2>2, <1>6, Zenon DEF Wrote
<1>8. MarshalInv' /\ TypeInv' /\ ParseInv' /\ WireInv' /\ OptionsInv' /\ AddedInv'
  <2>1. IsOptions(todo')
    BY <1>0, <1>1
  <2>2. /\ TypeInv' /\ ParseInv' /\ WireInv' /\ OptionsInv' /\ AddedInv'
        /\ ~NoRoom(hdr') /\ orig' = {[hdr |-> hdr', opts |-> opts']}
    BY <2>1, <1>0, <1>6, MarshalOthers
  <2> QED BY <2>2, <1>0, <1>7 DEF MarshalInv
<1> QED BY <1>8 DEF Inv

\* What a step of Unmarshal keeps, whatever the bytes are.
LEMMA UnmarshalOthers ==
  ASSUME Inv, pc \in {"unmarshal", "padding"}, todo' = todo,
         UNCHANGED <<hdr, lexErr, added, orig, wire, stale>>,
         pc' \in {"unmarshal", "padding", "unmarshalled", EOF, Invalid},
         pc' = "unmarshal" => pc = "unmarshal",
         pc = "unmarshal" => pc' \in {"unmarshal", EOF} \/ Len(buf) > 0,
         IsOptions(opts'), \A k \in DOMAIN opts' : k \notin {Pad, End} /\ opts'[k] # <<>>,
         buf' \in Seq(Byte), Len(buf') <= Len(buf)
  PROVE  TypeInv' /\ MarshalInv' /\ WireInv' /\ OptionsInv' /\ AddedInv'
<1>1. TypeInv'
  BY DEF Inv, TypeInv, TypeOK, Done, Errors
<1>2. MarshalInv'
  BY DEF MarshalInv, EOF, Invalid
<1>3. WireInv'
  <2>1. pc' # "nil"
    BY DEF EOF, Invalid
  <2>2. ASSUME pc' \in Parsing, ~lexErr', NEW w \in wire'
        PROVE  /\ hdr' = Decoded(FieldsOf(w), stale') /\ Len(w) >= HeaderLen + Len(buf')
               /\ pc' # "unmarshal" => Len(w) > HeaderLen
    <3>1. /\ hdr = Decoded(FieldsOf(w), stale) /\ Len(w) >= HeaderLen + Len(buf)
          /\ pc # "unmarshal" => Len(w) > HeaderLen
      BY <2>2 DEF Inv, WireInv, Parsing
    <3>2. HeaderLen \in Nat /\ Len(w) \in Nat /\ Len(buf) \in Nat /\ Len(buf') \in Nat
      <4>1. HeaderLen \in Nat
        BY OffsetIs, FieldsAre DEF HeaderLen
      <4>2. w \in Seq(Byte) /\ buf \in Seq(Byte) /\ buf' \in Seq(Byte)
        BY <2>2 DEF Inv, TypeInv, TypeOK
      <4> QED BY <4>1, <4>2
    <3>3. Len(w) >= HeaderLen + Len(buf')
      <4>1. Len(buf') <= Len(buf) /\ Len(w) >= HeaderLen + Len(buf)
        BY <3>1
      <4> HIDE DEF HeaderLen
      <4> QED BY <4>1, <3>2
    <3>4. ASSUME pc' # "unmarshal" PROVE Len(w) > HeaderLen
      <4>1. pc' # EOF
        BY <2>2 DEF Parsing, EOF
      <4> QED BY <3>1, <3>2, <3>4, <4>1
    <3> QED BY <3>1, <3>3, <3>4
  <2> QED BY <2>1, <2>2 DEF WireInv, Parsing
<1>4. OptionsInv'
  BY DEF OptionsInv
<1>5. AddedInv'
  <2>1. /\ \A p \in orig : HoldsAdded(p.opts)
        /\ orig = {} => NothingAdded
    BY DEF Inv, AddedInv, Parsing
  <2>2. /\ \A p \in orig' : HoldsAdded(p.opts)'
        /\ orig' = {} => NothingAdded'
    BY <2>1 DEF HoldsAdded, NothingAdded
  <2> QED BY <2>2 DEF AddedInv, EOF, Invalid
<1> QED BY <1>1, <1>2, <1>3, <1>4, <1>5

\* Where Unmarshal is in what Marshal wrote: at its end, or at a chunk.
LEMMA AtPoint ==
  ASSUME Inv, pc = "unmarshal", NEW p \in orig
  PROVE  \/ opts = NonEmpty(p.opts) /\ buf = <<>> /\ End \in DOMAIN p.opts
         \/ opts = NonEmpty(p.opts) /\ buf = <<End>>
         \/ /\ buf # <<>> /\ Len(buf) >= 2 /\ Head(buf) \notin {Pad, End}
            /\ buf[2] \in Nat /\ buf[2] > 0 /\ Len(buf) >= 2 + buf[2]
            /\ Reads(Point(SubSeq(buf, 2 + buf[2] + 1, Len(buf)),
                           AddRaw(opts, buf[1], SubSeq(buf, 3, 2 + buf[2]))),
                     Point(EndOf(p.opts), NonEmpty(p.opts)))
<1> DEFINE z == Point(EndOf(p.opts), NonEmpty(p.opts))
<1>1. Reads(Point(buf, opts), z) /\ buf \in Seq(Byte)
  BY DEF Inv, ParseInv, TypeInv, TypeOK
<1>2. CASE Point(buf, opts) = z
  <2>1. buf = EndOf(p.opts) /\ opts = NonEmpty(p.opts)
    BY <1>2 DEF Point
  <2> QED BY <2>1 DEF EndOf
<1>3. CASE Point(buf, opts) # z
  <2> HIDE DEF z
  <2>1. /\ buf # <<>> /\ Len(buf) >= 2 /\ Head(buf) \notin {Pad, End}
        /\ buf[2] \in Nat /\ buf[2] > 0 /\ Len(buf) >= 2 + buf[2]
        /\ Reads(Point(SubSeq(buf, 2 + buf[2] + 1, Len(buf)),
                       AddRaw(opts, buf[1], SubSeq(buf, 3, 2 + buf[2]))), z)
    BY <1>1, <1>3, ReadsStep
  <2> QED BY <2>1 DEF z
<1> QED BY <1>2, <1>3

\* The rest of the bytes.
LEMMA RestIs ==
  ASSUME buf \in Seq(Byte), NEW n \in 0 .. Len(buf)
  PROVE  Rest(n) \in Seq(Byte) /\ Len(Rest(n)) = Len(buf) - n /\ Len(Rest(n)) <= Len(buf)
<1>1. Len(buf) \in Nat /\ n \in Nat
  OBVIOUS
<1>2. Rest(n) \in Seq(Byte) /\ Len(Rest(n)) = Len(buf) - n
  BY CutAfter DEF Rest
<1> QED BY <1>1, <1>2

\* Unmarshal passes over padding or an option without data.
LEMMA PassInv ==
  ASSUME Inv, UnmarshalPad \/ UnmarshalEmpty, UNCHANGED <<hdr, lexErr, added, orig, wire, stale>>
  PROVE  Inv'
<1> DEFINE n == IF Head(buf) = Pad THEN 1 ELSE 2
<1>1. /\ pc = "unmarshal" /\ pc' = "unmarshal" /\ todo' = todo /\ opts' = opts
      /\ buf # <<>> /\ \/ Head(buf) = Pad /\ buf' = Rest(1)
                       \/ Len(buf) >= 2 /\ Head(buf) \notin {Pad, End} /\ buf[2] = 0 /\ buf' = Rest(2)
  BY DEF UnmarshalPad, UnmarshalEmpty, Goto, IsOption
<1>2. buf \in Seq(Byte) /\ Len(buf) \in Nat /\ Len(buf) >= 1
  <2>1. buf \in Seq(Byte)
    BY DEF Inv, TypeInv, TypeOK
  <2> QED BY <2>1, <1>1
<1>3. n \in 0 .. Len(buf) /\ buf' = Rest(n)
  BY <1>1, <1>2
<1> HIDE DEF n
<1>4. buf' \in Seq(Byte) /\ Len(buf') <= Len(buf)
  BY <1>2, <1>3, RestIs
<1>5. TypeInv' /\ MarshalInv' /\ WireInv' /\ OptionsInv' /\ AddedInv'
  <2>1. IsOptions(opts') /\ \A k \in DOMAIN opts' : k \notin {Pad, End} /\ opts'[k] # <<>>
    BY <1>1 DEF Inv, TypeInv, TypeOK, OptionsInv, Parsing
  <2> QED BY <2>1, <1>1, <1>4, UnmarshalOthers
<1>6. orig = {}
  <2> SUFFICES ASSUME NEW p \in orig PROVE FALSE
    OBVIOUS
  <2>1. \/ buf = <<>> \/ buf = <<End>>
        \/ Head(buf) \notin {Pad, End} /\ buf[2] \in Nat /\ buf[2] > 0
    BY <1>1, AtPoint
  <2>2. buf # <<End>>
    <3> SUFFICES ASSUME buf = <<End>> PROVE FALSE
      OBVIOUS
    <3>1. Head(buf) = End /\ Len(buf) = 1 /\ End # Pad
      BY BytesAssumption DEF End, Pad
    <3> QED BY <3>1, <1>1
  <2> QED BY <2>1, <2>2, <1>1
<1>7. ParseInv'
  BY <1>6 DEF ParseInv
<1> QED BY <1>5, <1>7 DEF Inv

\* Unmarshal takes one chunk into the map.
LEMMA OptionInv ==
  ASSUME Inv, UnmarshalOption, UNCHANGED <<hdr, lexErr, added, orig, wire, stale>>
  PROVE  Inv'
<1> DEFINE n == buf[2]
           d == SubSeq(buf, 3, 2 + n)
<1>1. /\ pc = "unmarshal" /\ pc' = "unmarshal" /\ todo' = todo
      /\ Len(buf) >= 2 /\ Head(buf) \notin {Pad, End} /\ n > 0 /\ Len(buf) >= 2 + n
      /\ opts' = AddRaw(opts, buf[1], d) /\ buf' = Rest(2 + n)
  BY DEF UnmarshalOption, Goto, IsOption
<1>2. buf \in Seq(Byte) /\ Len(buf) \in Nat /\ IsOptions(opts)
  BY DEF Inv, TypeInv, TypeOK
<1>3. buf[1] \in Byte /\ n \in Byte /\ Head(buf) = buf[1]
  <2>1. 1 \in 1 .. Len(buf) /\ 2 \in 1 .. Len(buf) /\ buf # <<>>
    BY <1>1, <1>2
  <2> QED BY <2>1, <1>2, ElementOfSeq
<1>4. n \in Nat
  BY <1>3, BaseType
<1> HIDE DEF n
<1>5. 2 + n \in 0 .. Len(buf) /\ 2 \in 0 .. Len(buf) /\ n \in 0 .. Len(buf) - 2
  BY <1>1, <1>2, <1>4
<1>6. buf' \in Seq(Byte) /\ Len(buf') <= Len(buf)
  BY <1>1, <1>2, <1>5, RestIs
<1>7. d \in Seq(Byte) /\ Len(d) = n
  <2> DEFINE r == SubSeq(buf, 2 + 1, Len(buf))
  <2>1. r \in Seq(Byte) /\ Len(r) = Len(buf) - 2
    BY <1>2, <1>5, CutAfter, Zenon
  <2>2. SubSeq(r, 1, n) = SubSeq(buf, 2 + 1, 2 + n)
    BY <1>2, <1>5, PartsOfRest
  <2> HIDE DEF r
  <2>3. n \in 0 .. Len(r)
    BY <2>1, <1>5
  <2>4. SubSeq(r, 1, n) \in Seq(Byte) /\ Len(SubSeq(r, 1, n)) = n
    BY <2>1, <2>3, CutAfter
  <2>5. 2 + 1 = 3
    OBVIOUS
  <2> QED BY <2>2, <2>4, <2>5
<1> HIDE DEF d
<1>8. /\ IsOptions(opts') /\ DOMAIN opts' = DOMAIN opts \cup {buf[1]}
      /\ Get(opts', buf[1]) = Get(opts, buf[1]) \o d
      /\ \A k \in DOMAIN opts \ {buf[1]} : opts'[k] = opts[k]
  <2>1. LET a == AddRaw(opts, buf[1], d) IN
        /\ IsOptions(a) /\ DOMAIN a = DOMAIN opts \cup {buf[1]}
        /\ Get(a, buf[1]) = Get(opts, buf[1]) \o d
        /\ \A k \in DOMAIN opts \ {buf[1]} : a[k] = opts[k]
    BY <1>2, <1>3, <1>7, AddRawIs, Zenon
  <2> QED BY <1>1, <2>1
<1>9. ASSUME NEW k \in DOMAIN opts' PROVE k \notin {Pad, End} /\ opts'[k] # <<>>
  <2>1. CASE k = buf[1]
    <3>1. opts'[k] = Get(opts, buf[1]) \o d
      BY <2>1, <1>8 DEF Get
    <3>2. Get(opts, buf[1]) \in Seq(Byte)
      BY <1>2, GetType
    <3> DEFINE g == Get(opts, buf[1])
    <3> HIDE DEF g
    <3>3. g \in Seq(Byte)
      BY <3>2 DEF g
    <3>4. Len(g \o d) = Len(g) + Len(d) /\ Len(g) \in Nat
      <4>1. \A a, b \in Seq(Byte) : Len(a \o b) = Len(a) + Len(b) /\ Len(a) \in Nat
        BY ConcatProperties, LenProperties
      <4> QED BY <4>1, <3>3, <1>7
    <3>5. Len(g \o d) # 0
      BY <3>4, <1>1, <1>4, <1>7
    <3>6. g \o d # <<>>
      BY <3>5
    <3> QED BY <2>1, <3>1, <3>6, <1>1, <1>3 DEF g
  <2>2. CASE k # buf[1]
    BY <2>2, <1>1, <1>8 DEF Inv, OptionsInv, Parsing
  <2> QED BY <2>1, <2>2
<1>10. TypeInv' /\ MarshalInv' /\ WireInv' /\ OptionsInv' /\ AddedInv'
  BY <1>1, <1>6, <1>8, <1>9, UnmarshalOthers
<1>11. ParseInv'
  <2> SUFFICES ASSUME NEW p \in orig
               PROVE  /\ Reads(Point(buf', opts'), Point(EndOf(p.opts), NonEmpty(p.opts)))
                      /\ ~lexErr' /\ (FourBytes(p.hdr) => hdr' = Normal(p.hdr))
    BY <1>1 DEF ParseInv, Parsing, Errors, EOF, Invalid, BadCookie, Short
  <2>1. ~lexErr /\ (FourBytes(p.hdr) => hdr = Normal(p.hdr))
    BY <1>1 DEF Inv, ParseInv, Parsing
  <2>2. buf # <<>> /\ buf # <<End>>
    BY <1>1
  <2>3. Reads(Point(SubSeq(buf, 2 + n + 1, Len(buf)), AddRaw(opts, buf[1], d)),
              Point(EndOf(p.opts), NonEmpty(p.opts)))
    BY <2>2, <1>1, AtPoint DEF n, d
  <2>4. Reads(Point(buf', opts'), Point(EndOf(p.opts), NonEmpty(p.opts)))
    BY <2>3, <1>1 DEF Rest
  <2> QED BY <2>1, <2>4
<1> QED BY <1>10, <1>11 DEF Inv

\* Unmarshal comes to End.
LEMMA EndInv ==
  ASSUME Inv, UnmarshalEnd, UNCHANGED <<hdr, lexErr, added, orig, wire, stale>>
  PROVE  Inv'
<1>1. /\ pc = "unmarshal" /\ pc' = "padding" /\ todo' = todo /\ opts' = opts
      /\ buf # <<>> /\ Head(buf) = End /\ buf' = Rest(1)
  BY DEF UnmarshalEnd, Goto
<1>2. buf \in Seq(Byte) /\ Len(buf) \in Nat /\ Len(buf) > 0 /\ 1 \in 0 .. Len(buf)
  <2>1. buf \in Seq(Byte)
    BY DEF Inv, TypeInv, TypeOK
  <2> QED BY <2>1, <1>1
<1>3. buf' \in Seq(Byte) /\ Len(buf') <= Len(buf) /\ Len(buf') = Len(buf) - 1
  BY <1>1, <1>2, RestIs
<1>4. TypeInv' /\ MarshalInv' /\ WireInv' /\ OptionsInv' /\ AddedInv'
  <2>1. IsOptions(opts') /\ \A k \in DOMAIN opts' : k \notin {Pad, End} /\ opts'[k] # <<>>
    BY <1>1 DEF Inv, TypeInv, TypeOK, OptionsInv, Parsing
  <2> QED BY <2>1, <1>1, <1>2, <1>3, UnmarshalOthers
<1>5. ParseInv'
  <2> SUFFICES ASSUME NEW p \in orig
               PROVE  /\ buf' = <<>> /\ opts' = NonEmpty(p.opts)
                      /\ ~lexErr' /\ (FourBytes(p.hdr) => hdr' = Normal(p.hdr))
    BY <1>1 DEF ParseInv, Parsing, Errors, EOF, Invalid, BadCookie, Short
  <2>1. ~lexErr /\ (FourBytes(p.hdr) => hdr = Normal(p.hdr))
    BY <1>1 DEF Inv, ParseInv, Parsing
  <2>2. opts = NonEmpty(p.opts) /\ buf = <<End>>
    BY <1>1, AtPoint
  <2>3. Len(buf) = 1
    BY <2>2
  <2>4. buf' = <<>>
    BY <2>3, <1>3
  <2> QED BY <2>1, <2>2, <2>4, <1>1
<1> QED BY <1>4, <1>5 DEF Inv

\* The bytes end too early.
LEMMA CutInv ==
  ASSUME Inv, UnmarshalCut, UNCHANGED <<hdr, lexErr, added, orig, wire, stale>>
  PROVE  Inv'
<1>1. /\ pc = "unmarshal" /\ pc' = EOF /\ todo' = todo /\ opts' = opts /\ buf' = buf
      /\ \/ buf = <<>>
         \/ Len(buf) = 1 /\ Head(buf) \notin {Pad, End}
         \/ Len(buf) >= 2 /\ Head(buf) \notin {Pad, End} /\ Len(buf) < 2 + buf[2]
  BY DEF UnmarshalCut, Goto, IsOption
<1>2. buf' \in Seq(Byte) /\ Len(buf') <= Len(buf)
  <2>1. buf \in Seq(Byte) /\ Len(buf) \in Nat
    BY DEF Inv, TypeInv, TypeOK
  <2> QED BY <2>1, <1>1
<1>3. TypeInv' /\ MarshalInv' /\ WireInv' /\ OptionsInv' /\ AddedInv'
  <2>1. IsOptions(opts') /\ \A k \in DOMAIN opts' : k \notin {Pad, End} /\ opts'[k] # <<>>
    BY <1>1 DEF Inv, TypeInv, TypeOK, OptionsInv, Parsing
  <2> QED BY <2>1, <1>1, <1>2, UnmarshalOthers DEF EOF
<1>4. ParseInv'
  <2> SUFFICES ASSUME NEW p \in orig PROVE End \in DOMAIN p.opts
    BY <1>1 DEF ParseInv, Parsing, EOF
  <2>1. \/ buf = <<>> /\ End \in DOMAIN p.opts
        \/ buf = <<End>>
        \/ /\ buf # <<>> /\ Len(buf) >= 2 /\ buf[2] \in Nat /\ Len(buf) >= 2 + buf[2]
    BY <1>1, AtPoint
  <2>2. ASSUME buf = <<End>> PROVE FALSE
    <3>1. Head(buf) = End /\ Len(buf) = 1 /\ buf # <<>>
      BY <2>2
    <3> QED BY <3>1, <1>1
  <2>3. Len(buf) \in Nat
    BY DEF Inv, TypeInv, TypeOK
  <2> QED BY <2>1, <2>2, <2>3, <1>1
<1> QED BY <1>3, <1>4 DEF Inv

\* What follows End.
LEMMA PaddingInv ==
  ASSUME Inv, UnmarshalPadding, UNCHANGED <<hdr, lexErr, added, orig, wire, stale>>
  PROVE  Inv'
<1>1. /\ pc = "padding" /\ todo' = todo /\ opts' = opts
      /\ \/ buf = <<>> /\ pc' = "unmarshalled" /\ buf' = buf
         \/ buf # <<>> /\ pc' \in {"padding", Invalid} /\ buf' = Rest(1)
  BY DEF UnmarshalPadding, Goto
<1>2. buf \in Seq(Byte) /\ Len(buf) \in Nat
  BY DEF Inv, TypeInv, TypeOK
<1>3. buf' \in Seq(Byte) /\ Len(buf') <= Len(buf)
  <2>1. CASE buf = <<>>
    BY <2>1, <1>1, <1>2
  <2>2. CASE buf # <<>>
    <3>1. 1 \in 0 .. Len(buf)
      BY <2>2, <1>2
    <3> QED BY <3>1, <2>2, <1>1, <1>2, RestIs
  <2> QED BY <2>1, <2>2
<1>4. TypeInv' /\ MarshalInv' /\ WireInv' /\ OptionsInv' /\ AddedInv'
  <2>1. IsOptions(opts') /\ \A k \in DOMAIN opts' : k \notin {Pad, End} /\ opts'[k] # <<>>
    BY <1>1 DEF Inv, TypeInv, TypeOK, OptionsInv, Parsing
  <2> QED BY <2>1, <1>1, <1>3, UnmarshalOthers DEF Invalid
<1>5. ParseInv'
  <2> SUFFICES ASSUME NEW p \in orig
               PROVE  /\ pc' = "unmarshalled" /\ buf' = <<>> /\ opts' = NonEmpty(p.opts)
                      /\ ~lexErr' /\ (FourBytes(p.hdr) => hdr' = Normal(p.hdr))
    BY Zenon DEF ParseInv, Parsing, Errors, EOF, Invalid, BadCookie, Short
  <2>1. /\ buf = <<>> /\ opts = NonEmpty(p.opts)
        /\ ~lexErr /\ (FourBytes(p.hdr) => hdr = Normal(p.hdr))
    BY <1>1 DEF Inv, ParseInv, Parsing
  <2> QED BY <2>1, <1>1
<1> QED BY <1>4, <1>5 DEF Inv

\* UnmarshalBinary returns.
LEMMA ReturnInv ==
  ASSUME Inv, UnmarshalBinaryEnd
  PROVE  Inv'
<1>1. /\ pc = "unmarshalled"
      /\ pc' = IF FinError([data |-> buf, err |-> lexErr]) THEN Short ELSE "nil"
      /\ UNCHANGED <<opts, todo, buf, hdr, lexErr, added, orig, wire, stale>>
  BY DEF UnmarshalBinaryEnd
<1>2. FinError([data |-> buf, err |-> lexErr]) <=> lexErr \/ buf # <<>>
  BY DEF FinError
<1>3. TypeInv'
  BY <1>1 DEF Inv, TypeInv, TypeOK, Done, Errors
<1>4. MarshalInv'
  BY <1>1 DEF MarshalInv, Short
<1>5. ParseInv'
  <2> SUFFICES ASSUME NEW p \in orig
               PROVE  /\ pc' = "nil" /\ buf' = <<>> /\ opts' = NonEmpty(p.opts)
                      /\ ~lexErr' /\ (FourBytes(p.hdr) => hdr' = Normal(p.hdr))
    BY <1>1 DEF ParseInv, Parsing, Errors, EOF, Invalid, BadCookie, Short
  <2>1. /\ buf = <<>> /\ opts = NonEmpty(p.opts)
        /\ ~lexErr /\ (FourBytes(p.hdr) => hdr = Normal(p.hdr))
    BY <1>1 DEF Inv, ParseInv, Parsing
  <2> QED BY <2>1, <1>1, <1>2
<1>6. WireInv'
  <2>1. pc' = "nil" => ~lexErr'
    BY <1>1, <1>2 DEF Short
  <2>2. ~lexErr => \A w \in wire : /\ hdr = Decoded(FieldsOf(w), stale)
                                   /\ Len(w) >= HeaderLen + Len(buf) /\ Len(w) > HeaderLen
    BY <1>1 DEF Inv, WireInv, Parsing
  <2> QED BY <2>1, <2>2, <1>1 DEF WireInv
<1>7. OptionsInv'
  BY <1>1 DEF Inv, OptionsInv, Parsing, Short
<1>8. AddedInv'
  <2>1. /\ \A p \in orig : HoldsAdded(p.opts)
        /\ orig = {} => NothingAdded
    BY <1>1 DEF Inv, AddedInv, Parsing
  <2>2. /\ \A p \in orig' : HoldsAdded(p.opts)'
        /\ orig' = {} => NothingAdded'
    BY <2>1, <1>1 DEF HoldsAdded, NothingAdded
  <2> QED BY <2>2, <1>1 DEF AddedInv, Short
<1> QED BY <1>3, <1>4, <1>5, <1>6, <1>7, <1>8 DEF Inv

\* Every step keeps the invariant.
LEMMA NextInv == Inv /\ [Next]_vars => Inv'
<1> SUFFICES ASSUME Inv, [Next]_vars PROVE Inv'
  OBVIOUS
<1>1. CASE \E h \in Headers : BuildPacket(h)
  BY <1>1, BuildInv
<1>2. CASE \E key \in Byte, x \in TypedValues : AddOption(key, x)
  BY <1>2, AddInv
<1>3. CASE MarshalBinary
  BY <1>3, MarshalBinaryInv
<1>4. CASE ParsePacket \/ Reuse
  BY <1>4, ParseInvStep
<1>5. CASE Forget
  BY <1>5, ForgetInv
<1>6. CASE Loops
  <2>0. UNCHANGED <<hdr, lexErr, added, orig, wire, stale>>
    BY <1>6 DEF Loops
  <2>1. ASSUME NEW code \in DOMAIN todo, MarshalNext(code) \/ MarshalChunk(code) \/ MarshalFixed(code)
        PROVE  Inv'
    BY <2>0, <2>1, NextCodeInv, ChunkInv, FixedInv
  <2>2. CASE MarshalEnd
    BY <2>0, <2>2, MarshalEndInv
  <2>3. CASE UnmarshalPad \/ UnmarshalEmpty
    BY <2>0, <2>3, PassInv
  <2>4. CASE UnmarshalEnd
    BY <2>0, <2>4, EndInv
  <2>5. CASE UnmarshalOption
    BY <2>0, <2>5, OptionInv
  <2>6. CASE UnmarshalCut
    BY <2>0, <2>6, CutInv
  <2>7. CASE UnmarshalPadding
    BY <2>0, <2>7, PaddingInv
  <2> QED BY <1>6, <2>1, <2>2, <2>3, <2>4, <2>5, <2>6, <2>7 DEF Loops, Marshal, Unmarshal
<1>7. CASE UnmarshalBinaryEnd
  BY <1>7, ReturnInv
<1>8. CASE UNCHANGED vars
  <2>1. UNCHANGED <<pc, opts, todo, buf, hdr, lexErr, added, orig, wire, stale>>
    BY <1>8 DEF vars, optionsVars
  <2>2. TypeInv' /\ MarshalInv' /\ ParseInv'
    BY <2>1 DEF Inv, TypeInv, TypeOK, MarshalInv, ParseInv
  <2>3. WireInv' /\ OptionsInv'
    BY <2>1 DEF Inv, WireInv, OptionsInv
  <2>4. AddedInv'
    BY <2>1 DEF Inv, AddedInv, HoldsAdded, NothingAdded
  <2> QED BY <2>2, <2>3, <2>4 DEF Inv
<1> QED BY <1>1, <1>2, <1>3, <1>4, <1>5, <1>6, <1>7, <1>8 DEF Next

\* The invariant holds in every behaviour.
LEMMA Invariance == Spec => []Inv
BY InitInv, NextInv, PTL DEF Spec

------------------------------------------------------------------------------
(* The properties *)

\* Every variable keeps its type: options are lists of bytes by codes, and the
\* fields of a header that was read from any bytes are those of a Packet.
THEOREM TypeCorrect == Spec => []TypeOK
<1>1. Inv => TypeOK
  BY DEF Inv, TypeInv
<1> QED BY <1>1, Invariance, PTL

\* ParsePacket gives back the packet that MarshalBinary wrote, up to what the
\* wire cannot tell, for headers and options of every size.
THEOREM PacketsComeBack == Spec => []RoundTrip
<1>1. Inv => RoundTrip
  <2> SUFFICES ASSUME Inv, NEW p \in orig, Ordinary(p.opts), FourBytes(p.hdr)
               PROVE  /\ pc \notin Errors
                      /\ pc = "nil" => hdr = Normal(p.hdr) /\ opts = NonEmpty(p.opts)
    BY DEF RoundTrip
  <2>1. pc \notin Errors
    BY DEF Inv, ParseInv, Ordinary
  <2>2. pc = "nil" => hdr = Normal(p.hdr) /\ opts = NonEmpty(p.opts)
    BY DEF Inv, ParseInv, Parsing
  <2> QED BY <2>1, <2>2
<1> QED BY <1>1, Invariance, PTL

\* UnmarshalBinary accepts only bytes with a whole header, and takes each field
\* from its own place in them.
THEOREM AcceptedAreComplete == Spec => []AcceptedIsComplete
<1>1. Inv => AcceptedIsComplete
  BY DEF Inv, WireInv, AcceptedIsComplete, Parsing
<1> QED BY <1>1, Invariance, PTL

\* Both names of a written packet end with a zero within their fields.
THEOREM WrittenNamesEnd == Spec => []NamesEnd
<1>1. Inv => NamesEnd
  <2> SUFFICES ASSUME Inv, pc = "marshalled", NEW name \in {"sname", "file"}
               PROVE  0 \in Range(FieldsOf(buf)[name])
    BY DEF NamesEnd
  <2>1. IsHeader(hdr) /\ ~NoRoom(hdr) /\ Wrote(hdr, opts, buf)
    BY DEF Inv, TypeInv, TypeOK, MarshalInv
  <2>2. PICK body \in Seq(Byte) : buf = Header(hdr) \o body
    BY <2>1 DEF Wrote
  <2>3. PICK k \in 1 .. 15 : Fields[k] = name
    BY FieldsAre DEF Names
  <2>4. FieldsOf(buf)[name] = FieldAt(buf, k)
    BY <2>3, FieldsOfIs
  <2>5. FieldAt(buf, k) = Encoded(hdr)[name]
    BY <2>1, <2>2, <2>3, HeaderIs, Zenon
  <2>6. /\ hdr.sname \in Seq(Byte) /\ Len(hdr.sname) \in Nat
        /\ hdr.file \in Seq(Byte) /\ Len(hdr.file) \in Nat
        /\ snameLen \in Nat /\ fileLen \in Nat
    BY <2>1, HeaderFields, FormatAssumption, LenProperties
  <2>7. Len(hdr.sname) < snameLen /\ Len(hdr.file) < fileLen
    BY <2>1, <2>6 DEF NoRoom
  <2>8. 0 \in Range(Copied(snameLen, hdr.sname)) /\ 0 \in Range(Copied(fileLen, hdr.file))
    BY <2>6, <2>7, NameCopied
  <2>9. Encoded(hdr)["sname"] = Copied(snameLen, hdr.sname) /\ Encoded(hdr)["file"] = Copied(fileLen, hdr.file)
    BY DEF Encoded
  <2> QED BY <2>4, <2>5, <2>8, <2>9
<1> QED BY <1>1, Invariance, PTL

\* The map of an accepted packet has no code without data, nor Pad or End.
THEOREM OptionsAreReal == Spec => []OnlyRealOptions
<1>1. Inv => OnlyRealOptions
  BY DEF Inv, OptionsInv, OnlyRealOptions, Parsing
<1> QED BY <1>1, Invariance, PTL

\* The getters of dhcp4opts give back the values that were added, of every
\* type and size, before the packet is written and after it was parsed.
THEOREM AddedAreRead == Spec => []AddedIsRead
<1>1. Inv => AddedIsRead
  <2> SUFFICES ASSUME Inv, pc \in {"build", "nil"}, NEW key \in Byte, Alike(key),
                      ~InLongForm(added[key][1])
               PROVE  ReadsBack(key, opts, added[key])
    BY DEF AddedIsRead
  <2> DEFINE s == added[key]
  <2>1. /\ s \in Seq(TypedValues) /\ s # <<>> /\ ~InLongForm(s[1])
        /\ \A x \in Range(s) : x.type = s[1].type
    BY DEF Inv, TypeInv, Alike
  <2>2. Get(opts, key) = DataOf(s)
    <3>1. CASE pc = "build"
      BY <3>1 DEF Inv, AddedInv
    <3>2. CASE pc = "nil"
      <4>1. orig # {}
        BY <2>1, <3>2 DEF Inv, AddedInv, NothingAdded, Parsing
      <4>2. PICK p \in orig : TRUE
        BY <4>1
      <4>3. opts = NonEmpty(p.opts) /\ HoldsAdded(p.opts)
        BY <3>2 DEF Inv, ParseInv, AddedInv, Parsing
      <4> QED BY <4>3, <2>1, GetNonEmpty DEF HoldsAdded
    <3> QED BY <3>1, <3>2
  <2> HIDE DEF s
  <2>3. ReadsBack(key, opts, s)
    BY <2>1, <2>2, CodecAssumption, ReadBack
  <2> QED BY <2>3 DEF s
<1> QED BY <1>1, Invariance, PTL
==============================================================================
