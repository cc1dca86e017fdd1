------------------------------ MODULE PacketCodec ------------------------------
(***************************************************************************)
(* packet.go: a packet is built, written by MarshalBinary, and read by     *)
(* ParsePacket or by UnmarshalBinary into a Packet that was used before.   *)
(* The header is written and read in one step; the options are written     *)
(* and read by the loops of module Options.                                *)
(***************************************************************************)
EXTENDS PacketFormat

CONSTANTS Headers,       \* headers of packets a user may build
          TypedValues,   \* typed values a user may add as options
          Wire,          \* bytes a user may parse
          WireAgain,     \* and into a Packet that was used before
          MaxAdds        \* bound: options added to one packet

ASSUME CodecAssumption ==
  /\ MaxAdds \in Nat
  /\ \A h \in Headers : IsHeader(h)
  /\ \A x \in TypedValues : IsValue(x)
  /\ Wire \cup WireAgain \subseteq Seq(Byte)

VARIABLES hdr,         \* the Packet without its Options
          lexErr,      \* the error of UnmarshalBinary's Lexer
          added,       \* history: the values added, by code
          orig,        \* history: the packet buf was marshalled from
          wire,        \* history: the bytes UnmarshalBinary was called with
          stale        \* history: Broadcast of the receiver of that call

vars == <<optionsVars, hdr, lexErr, added, orig, wire, stale>>

------------------------------------------------------------------------------
(* The calls *)

ZeroPacket == [hdr |-> ZeroHeader, opts |-> NoOptions]

Short == "FinError"
BadCookie == "malformed DHCP packet"
Errors == {EOF, Invalid, BadCookie, Short}
Done == {"marshalled", "nil", "panic"} \cup Errors

Init ==
  /\ pc = "new"
  /\ opts = NoOptions /\ todo = NoOptions
  /\ buf = <<>>
  /\ hdr = ZeroHeader
  /\ lexErr = FALSE
  /\ added = [key \in Byte |-> <<>>]
  /\ orig = {}
  /\ wire = {}
  /\ stale = FALSE

BuildPacket(h) ==
  /\ pc = "new"
  /\ pc' = "build"
  /\ hdr' = h
  /\ UNCHANGED <<opts, todo, buf, lexErr, added, orig, wire, stale>>

Adds == FoldFunction(LAMBDA s, n : Len(s) + n, 0, added)

AddOption(key, x) ==
  /\ pc = "build"
  /\ Adds < MaxAdds
  /\ opts' = Add(opts, key, x)
  /\ added' = [added EXCEPT ![key] = Append(@, x)]
  /\ UNCHANGED <<pc, todo, buf, hdr, lexErr, orig, wire, stale>>

\* MarshalBinary of a packet that was built or parsed, as far as the options.
MarshalBinary ==
  /\ pc \in {"build", "nil"}
  /\ IF NoRoom(hdr) THEN pc' = "panic" /\ UNCHANGED <<opts, todo, buf>>
     ELSE CallMarshal(Header(hdr))
  /\ orig' = {[hdr |-> hdr, opts |-> opts]}
  /\ wire' = {}
  /\ UNCHANGED <<hdr, lexErr, added, stale>>

\* UnmarshalBinary, as far as the options.
UnmarshalBinary(bytes, receiver, from) ==
  LET r == ReadFields(bytes, receiver.hdr.xid) IN
  /\ hdr' = Decoded(r.got, receiver.hdr.broadcast)
  /\ lexErr' = r.lex.err
  /\ IF r.got.cookie = magicCookie THEN CallUnmarshal(r.lex.data)
     ELSE /\ pc' = BadCookie
          /\ opts' = receiver.opts
          /\ buf' = r.lex.data
          /\ UNCHANGED todo
  /\ orig' = from
  /\ wire' = {bytes}
  /\ stale' = receiver.hdr.broadcast

\* Its last statement.  The loops of Options have left no data.
UnmarshalBinaryEnd ==
  /\ pc = "unmarshalled"
  /\ pc' = IF FinError([data |-> buf, err |-> lexErr]) THEN Short ELSE "nil"
  /\ UNCHANGED <<opts, todo, buf, hdr, lexErr, added, orig, wire, stale>>

ParsePacket ==
  \/ /\ pc = "marshalled"
     /\ UnmarshalBinary(buf, ZeroPacket, orig)
     /\ UNCHANGED added
  \/ /\ pc = "new"
     /\ \E bytes \in Wire : UnmarshalBinary(bytes, ZeroPacket, {})
     /\ UNCHANGED added

\* UnmarshalBinary into a Packet that was parsed, or failed to be, before.
\* (Bound: from bytes of Wire, and with Broadcast set.)
Reuse ==
  /\ pc \in {"nil"} \cup Errors
  /\ orig = {}
  /\ hdr.broadcast
  /\ \E bytes \in WireAgain : UnmarshalBinary(bytes, [hdr |-> hdr, opts |-> opts], {})
  /\ added' = [key \in Byte |-> <<>>]

\* The user turns to another packet.
Forget ==
  /\ pc \in Done
  /\ pc' = "new"
  /\ opts' = NoOptions /\ todo' = NoOptions
  /\ buf' = <<>>
  /\ hdr' = ZeroHeader
  /\ lexErr' = FALSE
  /\ added' = [key \in Byte |-> <<>>]
  /\ orig' = {} /\ wire' = {}
  /\ stale' = FALSE

Loops ==
  /\ Marshal \/ Unmarshal
  /\ UNCHANGED <<hdr, lexErr, added, orig, wire, stale>>

Next ==
  \/ \E h \in Headers : BuildPacket(h)
  \/ \E key \in Byte, x \in TypedValues : AddOption(key, x)
  \/ MarshalBinary
  \/ ParsePacket
  \/ Reuse
  \/ Forget
  \/ Loops
  \/ UnmarshalBinaryEnd

Spec == Init /\ [][Next]_vars

\* A call that has begun runs on.
FairSpec == Spec /\ WF_vars(Loops) /\ WF_vars(UnmarshalBinaryEnd)

------------------------------------------------------------------------------
(* Properties *)

TypeOK ==
  /\ pc \in Done \cup {"new", "build", "marshal", "unmarshal", "padding", "unmarshalled"}
  /\ IsOptions(opts) /\ IsOptions(todo)
  /\ buf \in Seq(Byte)
  /\ IsHeader(hdr)
  /\ {lexErr, stale} \subseteq BOOLEAN

\* Codes that have a length and data on the wire.
Ordinary(o) == DOMAIN o \cap {Pad, End} = {}

\* ParsePacket accepts what MarshalBinary wrote and gives back the packet, its
\* header up to what the wire cannot tell and its options with data, however
\* long and of whatever bytes; a packet that itself was parsed before, from
\* bytes of any origin, comes back the same.
RoundTrip ==
  \A p \in orig : Ordinary(p.opts) /\ FourBytes(p.hdr) =>
    /\ pc \notin Errors
    /\ pc = "nil" => hdr = Normal(p.hdr) /\ opts = NonEmpty(p.opts)

\* UnmarshalBinary accepts only bytes with a whole header, and each field
\* comes from its own place in them: the reads that fail, after which shorter
\* ones succeed again at the wrong place, never end in an accepted packet.
\* Broadcast is the exception, as it is never cleared: it may also come from
\* the packet that was in the receiver before.
AcceptedIsComplete ==
  pc = "nil" => \A bytes \in wire :
    /\ Len(bytes) > HeaderLen
    /\ hdr = Decoded(FieldsOf(bytes), stale)

\* Both names of a written packet end with a zero within their fields, as
\* MarshalBinary rather panics than leave it out.
NamesEnd ==
  pc = "marshalled" => \A name \in {"sname", "file"} : 0 \in Range(FieldsOf(buf)[name])

\* Unmarshal puts no code in the map without data, nor Pad or End: what
\* Unmarshal accepted, Marshal can write.
OnlyRealOptions ==
  pc = "nil" => \A k \in DOMAIN opts : k \notin {Pad, End} /\ opts[k] # <<>>

\* The values added under one code, all of one type.
Alike(key) ==
  /\ added[key] # <<>>
  /\ key \notin {Pad, End}
  /\ \A x \in Range(added[key]) : x.type = added[key][1].type

\* The getters of dhcp4opts give back the values that were added, before the
\* packet is written and after it was parsed, however the wire splits them.
AddedIsRead ==
  pc \in {"build", "nil"} => \A key \in Byte :
    Alike(key) /\ ~InLongForm(added[key][1]) => ReadsBack(key, opts, added[key])

\* An address added as dhcp4opts.IP is read back, in whichever form a net.IP
\* may have.
LongFormIsRead ==
  pc \in {"build", "nil"} => \A key \in Byte :
    Alike(key) /\ InLongForm(added[key][1]) => ReadsBack(key, opts, added[key])

\* An option of zero length is there for Get after the wire as it was before.
EmptyOptionKept ==
  pc = "nil" => \A p \in orig : Ordinary(p.opts) => DOMAIN opts = DOMAIN p.opts

\* Every call of UnmarshalBinary returns, and every call of MarshalBinary
\* whose options hold no data for End and Pad.
FixedData(o) == \E k \in DOMAIN o \cap {End, Pad} : o[k] # <<>>
Running == pc \notin Done \cup {"new", "build"}
Terminates == Running /\ ~FixedData(todo) ~> ~Running
==============================================================================
