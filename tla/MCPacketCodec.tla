----------------------------- MODULE MCPacketCodec -----------------------------
(* Bytes are 0 .. 3: codes 1 and 2 are options, 0 is Pad and 3 End, and data *)
(* of more than 3 bytes takes two chunks.  The boot file is longer than the  *)
(* cookie and the shortest options together, as in the code: a packet that   *)
(* lacks it still shows its cookie in the right place.                       *)
EXTENDS PacketCodec

SeqUpTo(S, n) == UNION {[1 .. k -> S] : k \in 0 .. n}

MCPrefix == <<0, 0, 3>>
MCCookie == <<2, 1>>

Tagged(type, vals) == [type : {type}, val : vals]

MCValues ==
  UNION {Tagged("DHCPMessageType", {1}), Tagged("SubnetMask", {<<3, 0>>}),
         Tagged("IP", {<<1, 2>>, To16(<<3, 2>>)}),
         Tagged("IPs", {<<<<1, 2>>, To16(<<0, 3>>)>>}),
         Tagged("String", {<<0, 3, 0>>, <<3, 0, 0, 3>>}),
         Tagged("OptionCodes", {<<1, 2, 3>>}),
         Tagged("Uint16", {7}), Tagged("Uint32", {200}), Tagged("nil", {0})}

Discover == [NewPacket(1) EXCEPT !.xid = <<2>>, !.chaddr = <<1, 3>>]

MCHeaders ==
  {Discover,
   [Discover EXCEPT !.broadcast = TRUE, !.secs = 6, !.ciaddr = <<1, 0>>, !.giaddr = To16(<<1, 1>>)],
   [Discover EXCEPT !.yiaddr = <<1, 2>>, !.siaddr = <<3, 3>>, !.chaddr = <<1, 2, 3>>, !.sname = <<2>>],
   [Discover EXCEPT !.chaddr = <<>>, !.file = <<1, 0, 2>>],
   [Discover EXCEPT !.sname = <<1, 1>>],
   [Discover EXCEPT !.file = <<1, 1, 1, 1>>]}

Sample == [Encoded(Discover) EXCEPT !.sname = <<3, 0>>, !.file = <<1, 2, 0, 1>>]
Flat(f) == Joined([k \in DOMAIN Fields |-> f[Fields[k]]])

\* Any options after one header; other headers before the shortest options;
\* and the bytes of a packet with a gap anywhere.
MCWire ==
  {Flat(Sample) \o rest : rest \in SeqUpTo(Byte, 6)}
  \cup {Flat([Sample EXCEPT !.hlen = <<n>>, !.flags = flags, !.sname = sname,
                            !.file = <<1, b, 1, c>>, !.cookie = cookie]) \o <<End>> :
          n \in Byte, flags \in {<<0, 3>>, <<2, 0>>, <<3, 3>>}, sname \in [1 .. 2 -> {0, 1}],
          b \in {0, 1}, c \in {0, 1}, cookie \in {MCCookie, <<1, 2>>}}
  \cup {LET w == Flat(Sample) \o <<End>> IN SubSeq(w, 1, m) \o SubSeq(w, n, Len(w)) :
          m \in 0 .. HeaderLen, n \in 2 .. HeaderLen + 2}

MCWireAgain == {Flat(Sample) \o <<End>>, Flat(Sample), <<1>>}
==============================================================================
