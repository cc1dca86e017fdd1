-------------------------------- MODULE Options --------------------------------
(***************************************************************************)
(* options.go: the options of a packet, and Marshal and Unmarshal, which   *)
(* turn them into bytes and back.  Each step is one round of one of their  *)
(* loops.  Module PacketCodec makes the calls.                             *)
(***************************************************************************)
EXTENDS AddressBytes

CONSTANT BufCap        \* bound: a Marshal that does not end is followed so far

ASSUME OptionsAssumption == BufCap \in Nat

Pad == 0
End == MaxUint8

\* The type Options: a map from codes to bytes.
IsOptions(o) == DOMAIN o \subseteq Byte /\ o \in [DOMAIN o -> Seq(Byte)]
NoOptions == [k \in {} |-> <<>>]

VARIABLES pc,          \* which loop is running, or how the last call ended
          opts,        \* the receiver
          todo,        \* Marshal: what is left to be written
          buf          \* the Lexer's bytes: written so far, or left to be read

optionsVars == <<pc, opts, todo, buf>>

EOF == "ErrUnexpectedEOF"
Invalid == "ErrInvalidOptions"

AddRaw(o, key, value) ==
  [k \in DOMAIN o \cup {key} |->
     IF k # key THEN o[k]
     ELSE (IF key \in DOMAIN o THEN o[key] ELSE <<>>) \o value]

\* nil for a code that is not there, and also, as nil is the empty slice here,
\* for one without data.
Get(o, key) == IF key \in DOMAIN o THEN o[key] ELSE Nil

------------------------------------------------------------------------------
(* Marshal *)

\* The buffer already holds what the caller wrote before.
CallMarshal(written) ==
  /\ pc' = "marshal"
  /\ todo' = opts
  /\ buf' = written
  /\ UNCHANGED opts

\* sortedKeys: the least code goes first.
IsNext(code) == code \in DOMAIN todo /\ \A k \in DOMAIN todo : code <= k

Without(code) == [k \in DOMAIN todo \ {code} |-> todo[k]]

\* All data of this code is written, if there was any: on to the next code.
MarshalNext(code) ==
  /\ pc = "marshal"
  /\ IsNext(code)
  /\ todo[code] = <<>>
  /\ todo' = Without(code)
  /\ UNCHANGED <<pc, opts, buf>>

\* Mutant: chunks of 256 bytes, one more than the length byte can tell.
chunkTooLong(len) == IF len > MaxUint8 + 1 THEN MaxUint8 + 1 ELSE len

\* The number of bytes after one code.
chunk(len) == IF len > MaxUint8 THEN MaxUint8 ELSE len

MarshalChunk(code) ==
  LET data == todo[code]
      n == chunk(Len(data)) IN
  /\ pc = "marshal"
  /\ IsNext(code)
  /\ data # <<>>
  /\ code \notin {End, Pad}
  /\ buf' = buf \o <<code, n % Base>> \o SubSeq(data, 1, n)
  /\ todo' = [todo EXCEPT ![code] = SubSeq(data, n + 1, Len(data))]
  /\ UNCHANGED <<pc, opts>>

\* End and Pad go without length and data, and the data stays what it is.
MarshalFixed(code) ==
  /\ pc = "marshal"
  /\ IsNext(code)
  /\ todo[code] # <<>>
  /\ code \in {End, Pad}
  /\ buf' = IF Len(buf) < BufCap THEN Append(buf, code) ELSE buf
  /\ UNCHANGED <<pc, opts, todo>>

MarshalEnd ==
  /\ pc = "marshal"
  /\ DOMAIN todo = {}
  /\ pc' = "marshalled"
  /\ buf' = IF End \in DOMAIN opts THEN buf ELSE Append(buf, End)
  /\ UNCHANGED <<opts, todo>>

Marshal ==
  \/ \E code \in DOMAIN todo :
       MarshalNext(code) \/ MarshalChunk(code) \/ MarshalFixed(code)
  \/ MarshalEnd

------------------------------------------------------------------------------
(* Unmarshal *)

CallUnmarshal(bytes) ==
  /\ pc' = "unmarshal"
  /\ opts' = NoOptions
  /\ buf' = bytes
  /\ UNCHANGED todo

Rest(n) == SubSeq(buf, n + 1, Len(buf))

Goto(label) == pc' = label /\ UNCHANGED todo

\* Mutant: padding between options is not consumed.
UnmarshalPadStuck ==
  /\ pc = "unmarshal"
  /\ buf # <<>> /\ Head(buf) = Pad
  /\ Goto("unmarshal")
  /\ UNCHANGED <<buf, opts>>

UnmarshalPad ==
  /\ pc = "unmarshal"
  /\ buf # <<>> /\ Head(buf) = Pad
  /\ Goto("unmarshal")
  /\ buf' = Rest(1)
  /\ UNCHANGED opts

UnmarshalEnd ==
  /\ pc = "unmarshal"
  /\ buf # <<>> /\ Head(buf) = End
  /\ Goto("padding")
  /\ buf' = Rest(1)
  /\ UNCHANGED opts

\* A code that is an option's and its length, which are not cut off.
IsOption == Len(buf) >= 2 /\ Head(buf) \notin {Pad, End}

\* Mutant: it enters the map.
UnmarshalEmptyAdds ==
  /\ pc = "unmarshal"
  /\ IsOption /\ buf[2] = 0
  /\ Goto("unmarshal")
  /\ buf' = Rest(2)
  /\ opts' = AddRaw(opts, buf[1], <<>>)

\* An option without data is passed over and does not enter the map.
UnmarshalEmpty ==
  /\ pc = "unmarshal"
  /\ IsOption /\ buf[2] = 0
  /\ Goto("unmarshal")
  /\ buf' = Rest(2)
  /\ UNCHANGED opts

\* RFC 3396: data of a code that comes again is appended.
UnmarshalOption ==
  /\ pc = "unmarshal"
  /\ IsOption /\ buf[2] > 0 /\ Len(buf) >= 2 + buf[2]
  /\ Goto("unmarshal")
  /\ opts' = AddRaw(opts, buf[1], SubSeq(buf, 3, 2 + buf[2]))
  /\ buf' = Rest(2 + buf[2])

\* The bytes end before End, after a code or within the data.
UnmarshalCut ==
  /\ pc = "unmarshal"
  /\ \/ buf = <<>>
     \/ Len(buf) = 1 /\ Head(buf) \notin {Pad, End}
     \/ IsOption /\ Len(buf) < 2 + buf[2]
  /\ Goto(EOF)
  /\ UNCHANGED <<buf, opts>>

\* What follows End must be padding.
UnmarshalPadding ==
  /\ pc = "padding"
  /\ \/ buf = <<>> /\ Goto("unmarshalled") /\ UNCHANGED buf
     \/ buf # <<>> /\ Goto(IF Head(buf) = Pad THEN "padding" ELSE Invalid)
                   /\ buf' = Rest(1)
  /\ UNCHANGED opts

Unmarshal ==
  \/ UnmarshalPad \/ UnmarshalEnd \/ UnmarshalEmpty \/ UnmarshalOption
  \/ UnmarshalCut \/ UnmarshalPadding
==============================================================================
