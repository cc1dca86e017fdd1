----------------------------- MODULE PacketFormat -----------------------------
(***************************************************************************)
(* packet.go: the bytes of a packet's header, as MarshalBinary puts them   *)
(* together and UnmarshalBinary takes them apart.                          *)
(***************************************************************************)
EXTENDS OptionValues, FiniteSetsExt

CONSTANTS txidLen, chaddrLen, snameLen, fileLen,   \* 4, 16, 64, 128
          magicCookie

ASSUME FormatAssumption ==
  /\ {txidLen, chaddrLen, snameLen, fileLen} \subseteq Nat
  /\ chaddrLen <= MaxUint8
  /\ magicCookie \in Seq(Byte)

\* The type Packet without its Options.  A net.IP that is not nil is at least
\* four bytes long (writeIP panics otherwise), and the length of a hardware
\* address is a byte (its field has room for 16).
IsHeader(h) ==
  /\ h \in [op : Byte, htype : Byte, hops : Byte, xid : Seq(Byte), secs : 0 .. Power(2) - 1,
           broadcast : BOOLEAN, ciaddr : Seq(Byte), yiaddr : Seq(Byte), siaddr : Seq(Byte),
           giaddr : Seq(Byte), chaddr : Seq(Byte), sname : Seq(Byte), file : Seq(Byte)]
  /\ Len(h.xid) = txidLen /\ Len(h.chaddr) <= MaxUint8
  /\ \A ip \in {h.ciaddr, h.yiaddr, h.siaddr, h.giaddr} : ip = Nil \/ Len(ip) >= IPv4len

------------------------------------------------------------------------------
(* The layout of the header *)

Fields == <<"op", "htype", "hlen", "hops", "xid", "secs", "flags", "ciaddr",
            "yiaddr", "siaddr", "giaddr", "chaddr", "sname", "file", "cookie">>

Width == [op |-> 1, htype |-> 1, hlen |-> 1, hops |-> 1, xid |-> txidLen,
          secs |-> 2, flags |-> 2, ciaddr |-> IPv4len, yiaddr |-> IPv4len,
          siaddr |-> IPv4len, giaddr |-> IPv4len, chaddr |-> chaddrLen,
          sname |-> snameLen, file |-> fileLen, cookie |-> Len(magicCookie)]

flagBroadcast == (Base * Base) \div 2      \* the highest of 16 bits

\* The zero Packet, and what NewPacket makes of it.
ZeroHeader ==
  [op |-> 0, htype |-> 0, hops |-> 0, xid |-> Zeros(txidLen), secs |-> 0,
   broadcast |-> FALSE, ciaddr |-> Nil, yiaddr |-> Nil, siaddr |-> Nil,
   giaddr |-> Nil, chaddr |-> <<>>, sname |-> <<>>, file |-> <<>>]
NewPacket(op) == [ZeroHeader EXCEPT !.op = op, !.htype = 1]

writeIP(ip) == IF ip = Nil THEN Zeros(IPv4len) ELSE SubSeq(ip, 1, IPv4len)

\* The bytes of each field.  Both names are followed by a zero.
Encoded(h) ==
  [op |-> <<h.op>>, htype |-> <<h.htype>>, hlen |-> <<Len(h.chaddr) % Base>>,
   hops |-> <<h.hops>>, xid |-> h.xid, secs |-> PutUint(2, h.secs),
   flags |-> PutUint(2, IF h.broadcast THEN flagBroadcast ELSE 0),
   ciaddr |-> writeIP(h.ciaddr), yiaddr |-> writeIP(h.yiaddr),
   siaddr |-> writeIP(h.siaddr), giaddr |-> writeIP(h.giaddr),
   chaddr |-> Copied(chaddrLen, h.chaddr), sname |-> Copied(snameLen, h.sname),
   file |-> Copied(fileLen, h.file), cookie |-> magicCookie]

Header(h) == Joined([k \in DOMAIN Fields |-> Encoded(h)[Fields[k]]])

\* Mutant: the zero may be the first byte after the field.
NoRoomAfter(h) == Len(h.sname) > snameLen \/ Len(h.file) > fileLen

\* The store of the zero is out of range: MarshalBinary panics.
NoRoom(h) == Len(h.sname) >= snameLen \/ Len(h.file) >= fileLen

\* A name ends before its first zero, or with its field.
Name(field) ==
  LET zeros == {k \in DOMAIN field : field[k] = 0} IN
  IF zeros = {} THEN field ELSE SubSeq(field, 1, Min(zeros) - 1)

hlen(byte) == IF byte > chaddrLen THEN chaddrLen ELSE byte

\* The fields of a Packet whose Broadcast was b before, from their bytes.
Decoded(f, b) ==
  [op |-> f.op[1], htype |-> f.htype[1], hops |-> f.hops[1], xid |-> f.xid,
   secs |-> Uint(f.secs), broadcast |-> b \/ Uint(f.flags) >= flagBroadcast,
   ciaddr |-> f.ciaddr, yiaddr |-> f.yiaddr, siaddr |-> f.siaddr,
   giaddr |-> f.giaddr, chaddr |-> SubSeq(f.chaddr, 1, hlen(f.hlen[1])),
   sname |-> Name(f.sname), file |-> Name(f.file)]

\* The reads of UnmarshalBinary up to the magic cookie.  A read that fails
\* leaves the memory as it is: zeros, and TransactionID as it was.
ReadField(r, name) ==
  [lex |-> Consume(r.lex, Width[name]),
   got |-> [r.got EXCEPT ![name] = IF Has(r.lex, Width[name])
                                   THEN Read(r.lex, Width[name]) ELSE @]]

ReadFields(bytes, xid) ==
  LET start == [lex |-> NewLexer(bytes),
                got |-> [name \in DOMAIN Width |->
                           IF name = "xid" THEN xid ELSE Zeros(Width[name])]]
      read[k \in 0 .. Len(Fields)] ==
        IF k = 0 THEN start ELSE ReadField(read[k - 1], Fields[k])
  IN read[Len(Fields)]

------------------------------------------------------------------------------
(* What the bytes tell *)

\* The length of the first k fields.
Offset[k \in 0 .. Len(Fields)] == IF k = 0 THEN 0 ELSE Offset[k - 1] + Width[Fields[k]]
HeaderLen == Offset[Len(Fields)]
FieldAt(bytes, k) == SubSeq(bytes, Offset[k - 1] + 1, Offset[k])
FieldsOf(bytes) ==
  [name \in DOMAIN Width |-> FieldAt(bytes, CHOOSE k \in DOMAIN Fields : Fields[k] = name)]

IPFields == {"ciaddr", "yiaddr", "siaddr", "giaddr"}

FourBytes(h) == \A f \in IPFields : h[f] = Nil \/ Len(h[f]) = IPv4len

NonEmpty(o) == [k \in {k \in DOMAIN o : o[k] # <<>>} |-> o[k]]

\* What is left of a header on the wire: no difference between nil and
\* 0.0.0.0, nothing after a zero in a name, and chaddrLen bytes of a
\* hardware address.
Normal(h) ==
  [f \in DOMAIN h |->
     CASE f \in IPFields /\ h[f] = Nil -> Zeros(IPv4len)
       [] f \in {"sname", "file"} -> Name(h[f])
       [] f = "chaddr" /\ Len(h[f]) > chaddrLen -> SubSeq(h[f], 1, chaddrLen)
       [] OTHER -> h[f]]

InLongForm(x) == x.type = "IP" /\ Len(x.val) # IPv4len
==============================================================================
