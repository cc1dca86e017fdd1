----------------------------- MODULE ClientProofs -----------------------------
(* What holds of the client for every retry count, channel capacity, packet  *)
(* and set of clients.                                                       *)
EXTENDS Client, TLAPS

------------------------------------------------------------------------------
(* The steps of the client: every step is one client's, keeps the types,   *)
(* and leaves the other clients alone.                                     *)

\* The placeholder for no packet is a packet.
LEMMA NoPacketType == NoPacket \in Packet
<1>1. <<>> \in [1 .. 0 -> Byte]
  OBVIOUS
<1>2. <<>> \in HardwareAddr
  BY <1>1, PacketsAssumption DEF HardwareAddr
<1>3. [k \in 1 .. TxidLen |-> 0] \in TransactionID
  BY PacketsAssumption DEF TransactionID
<1>4. ZeroIP \in Addr
  BY AddrSpaceAssumption DEF ZeroIP, Addr
<1> QED BY <1>2, <1>3, <1>4 DEF NoPacket, Packet, Typ

\* The packets the client builds are packets.
LEMMA BuiltPackets ==
  ASSUME NEW c \in Client
  PROVE  /\ DiscoverPacket(c) \in Packet
         /\ \A offer \in Packet : RequestPacket(c, offer) \in Packet
<1>1. HwAddr[c] \in [1 .. HwLen -> Byte] /\ HwLen \in TxidLen .. ChaddrLen
  BY HwAssumption
<1>2. HwAddr[c] \in HardwareAddr
  BY <1>1, PacketsAssumption DEF HardwareAddr
<1>3. macToID(HwAddr[c]) \in TransactionID
  <2>1. \A k \in 1 .. TxidLen : HwLen + 1 - k \in 1 .. HwLen
    BY <1>1, PacketsAssumption
  <2> QED BY <1>1, <2>1 DEF macToID, TransactionID
<1>4. ZeroIP \in Addr
  BY AddrSpaceAssumption DEF ZeroIP, Addr
<1>5. DiscoverPacket(c) \in Packet
  BY <1>2, <1>3, <1>4 DEF DiscoverPacket, Packet, Typ, DHCPMessageType
<1>6. ASSUME NEW offer \in Packet
      PROVE  RequestPacket(c, offer) \in Packet
  BY <1>2, <1>4 DEF RequestPacket, Packet, Typ, DHCPMessageType
<1> QED BY <1>5, <1>6

\* A step concerns client c alone.
Only(c) ==
  \A d \in Client \ {c} :
    /\ pc'[d] = pc[d] /\ call'[d] = call[d] /\ req'[d] = req[d]
    /\ result'[d] = result[d] /\ ctx'[d] = ctx[d] /\ gpc'[d] = gpc[d]
    /\ tctx'[d] = tctx[d] /\ tries'[d] = tries[d] /\ got'[d] = got[d]
    /\ held'[d] = held[d] /\ out'[d] = out[d] /\ errCh'[d] = errCh[d]
    /\ inbox'[d] = inbox[d] /\ closed'[d] = closed[d]
    /\ sends'[d] = sends[d] /\ accepted'[d] = accepted[d]
    /\ arrived'[d] = arrived[d]

\* The steps of the specification, by who takes them: an exchange of client c
\* begins; the caller receives or returns; the goroutine is at the head of one
\* of its loops, reads, or is past reading; clock, user and network.
Starts(c) == \E name \in Calls, p \in Packet : SimpleSendAndRead(c, name, p)

CallerStep(c) == RecvAndGoOn(c) \/ RecvResult(c) \/ RecvClosed(c) \/ Return(c)

SendStep(c) ==
  \/ WriteTo(c) \/ WriteError(c) \/ OutOfTries(c)
  \/ CheckLive(c) \/ CheckDone(c) \/ CheckTimeout(c) \/ CheckCanceled(c)

ReadStep(c) == ReadTimeout(c) \/ ReadError(c) \/ ReadDiscard(c) \/ ReadAccept(c)

EndStep(c) == BlockedSend(c) \/ BlockedDone(c) \/ Finish(c)

OutsideStep(c) ==
  \/ TimerFires(c) \/ UserCtxDone(c) \/ Close(c)
  \/ \E p \in Arrivals : Arrive(c, p)

Step(c) ==
  CallerStep(c) \/ SendStep(c) \/ ReadStep(c) \/ EndStep(c) \/ OutsideStep(c)

------------------------------------------------------------------------------

\* Taking the first element of a sequence, ...
LEMMA HeadTail ==
  ASSUME NEW T, NEW s \in Seq(T), s # <<>>
  PROVE  Head(s) \in T /\ Tail(s) \in Seq(T) /\ Len(Tail(s)) <= Len(s)
OBVIOUS

\* ... adding one at its end, ...
LEMMA Appended ==
  ASSUME NEW T, NEW s \in Seq(T), NEW x \in T
  PROVE  /\ Append(s, x) \in Seq(T) /\ Append(s, x) # <<>>
         /\ Len(Append(s, x)) = Len(s) + 1
<1>1. Append(s, x) \in Seq(T) /\ Len(Append(s, x)) = Len(s) + 1
  OBVIOUS
<1>2. Len(s) \in Nat /\ Len(<<>>) = 0
  OBVIOUS
<1>3. Len(Append(s, x)) # Len(<<>>)
  BY <1>1, <1>2
<1> QED BY <1>1, <1>3, Zenon

\* ... and taking its elements for those of a larger set.
LEMMA SeqMonotone ==
  ASSUME NEW T, NEW U, T \subseteq U, NEW s \in Seq(T)
  PROVE  s \in Seq(U)
<1>1. \A k \in 1 .. Len(s) : s[k] \in U
  OBVIOUS
<1> QED BY <1>1

\* A packet is added to out only where there is room for it.
LEMMA AppendType ==
  ASSUME TypeOK, NEW c \in Client, NEW p \in Packet, Len(out[c]) < OutCap,
         out' = Set(out, c, Append(out[c], p))
  PROVE  /\ out' \in [Client -> Seq(Packet)]
         /\ \A d \in Client : Len(out'[d]) <= OutCap
<1>1. /\ Append(out[c], p) \in Seq(Packet)
      /\ Len(Append(out[c], p)) <= OutCap
  <2>1. out[c] \in Seq(Packet) /\ Len(out[c]) \in Nat
    BY DEF TypeOK
  <2> QED BY <2>1, Appended, ClientAssumption
<1> QED BY <1>1 DEF TypeOK, Set

\* Taking the first packet from out.
LEMMA TailType ==
  ASSUME TypeOK, NEW c \in Client, out[c] # <<>>,
         out' = Set(out, c, Tail(out[c]))
  PROVE  /\ Head(out[c]) \in Packet
         /\ out' \in [Client -> Seq(Packet)]
         /\ \A d \in Client : Len(out'[d]) <= OutCap
<1>1. out[c] \in Seq(Packet) /\ Len(out[c]) <= OutCap
  BY DEF TypeOK
<1>2. /\ Head(out[c]) \in Packet
      /\ Tail(out[c]) \in Seq(Packet)
      /\ Len(Tail(out[c])) <= Len(out[c])
  BY <1>1, HeadTail
<1>3. Len(Tail(out[c])) <= OutCap
  <2>1. Len(Tail(out[c])) \in Nat /\ Len(out[c]) \in Nat
    BY <1>1, <1>2
  <2> QED BY <1>1, <1>2, <2>1, ClientAssumption
<1> QED BY <1>2, <1>3 DEF TypeOK, Set

\* Going round in retryFn.
LEMMA TryAgainType ==
  ASSUME TypeOK, NEW c \in Client, tryAgain(c)
  PROVE  gpc' \in [Client -> GoroutineState] /\ tries' \in [Client -> Nat]
<1>1. gpc' \in [Client -> GoroutineState]
  BY DEF TypeOK, tryAgain, Set, GoroutineState
<1>2. (IF Retry < 0 THEN 0 ELSE tries[c] + 1) \in Nat
  BY DEF TypeOK
<1> QED BY <1>1, <1>2 DEF TypeOK, tryAgain, Set

\* Every step of the specification is one of these.
LEMMA NextCases ==
  ASSUME TypeOK, Next
  PROVE  \E c \in Client : Starts(c) \/ Step(c)
<1>1. PICK c \in Client :
        \/ Call(c) \/ Caller(c) \/ Goroutine(c)
        \/ TimerFires(c) \/ UserCtxDone(c) \/ Close(c)
        \/ \E p \in Arrivals : Arrive(c, p)
  BY DEF Next
<1>2. result[c].pkt \in Packet
  BY DEF TypeOK, Result
<1>3. Call(c) => Starts(c)
  BY <1>2, BuiltPackets, ClientAssumption
  DEF Call, CallDiscoverOffer, CallRequest, CallRenew, CallSendAndReadOne,
      CallSimpleSendAndRead, Starts, Calls
<1>4. RequestGoesOn(c) => Starts(c)
  BY <1>2, BuiltPackets DEF RequestGoesOn, Starts, Calls
<1> QED BY <1>1, <1>3, <1>4 DEF Caller, Goroutine, Reader,
       Step, CallerStep, SendStep, ReadStep, EndStep, OutsideStep

\* Types hold initially.
LEMMA InitType == Init => TypeOK
<1> SUFFICES ASSUME Init PROVE TypeOK
  OBVIOUS
<1>0. <<>> \in Seq(Packet)
  OBVIOUS
<1>1. [err |-> "no packet", pkt |-> NoPacket] \in Result
  BY NoPacketType DEF Result, Err
<1>2. /\ pc \in [Client -> CallerState] /\ call \in [Client -> Calls]
      /\ req \in [Client -> Packet] /\ result \in [Client -> Result]
      /\ ctx \in [Client -> CtxState] /\ gpc \in [Client -> GoroutineState]
  BY <1>1, NoPacketType, Zenon DEF Init, CallerState, Calls, CtxState,
     GoroutineState
<1>3. /\ tctx \in [Client -> CtxState] /\ tries \in [Client -> Nat]
      /\ got \in [Client -> BOOLEAN] /\ held \in [Client -> Packet]
      /\ out \in [Client -> Seq(Packet)] /\ errCh \in [Client -> Err]
  BY <1>0, NoPacketType, Zenon DEF Init, CtxState, Err
<1>4. /\ inbox \in [Client -> Seq(Packet)] /\ closed \in [Client -> BOOLEAN]
      /\ accepted \in [Client -> BOOLEAN] /\ arrived \in [Client -> SUBSET Packet]
  BY <1>0, Zenon DEF Init
<1>5. sends \in [Client -> 0 .. MaxSends]
  <2>1. 0 \in 0 .. MaxSends
    BY ClientAssumption
  <2> QED BY <2>1, Zenon DEF Init
<1>6. \A c \in Client : Len(out[c]) <= OutCap
  <2>1. Len(<<>>) <= OutCap
    BY ClientAssumption
  <2> QED BY <2>1, Zenon DEF Init
<1> QED BY <1>2, <1>3, <1>4, <1>5, <1>6 DEF TypeOK

\* A call that begins keeps the types and touches no other client.
LEMMA StartType ==
  ASSUME TypeOK, NEW c \in Client, Starts(c)
  PROVE  TypeOK' /\ Only(c)
<1>0. PICK name \in Calls, p \in Packet : SimpleSendAndRead(c, name, p)
  BY DEF Starts
<1>1. Len(<<>>) <= OutCap /\ 0 \in 0 .. MaxSends /\ <<>> \in Seq(Packet)
  BY ClientAssumption
<1>2. /\ out' \in [Client -> Seq(Packet)]
      /\ \A d \in Client : out'[d] = IF d = c THEN <<>> ELSE out[d]
  BY <1>0, <1>1 DEF SimpleSendAndRead, Set, TypeOK
<1>3. \A d \in Client : Len(out'[d]) <= OutCap
  BY <1>1, <1>2, Zenon DEF TypeOK
<1>4. sends' \in [Client -> 0 .. MaxSends]
  BY <1>0, <1>1 DEF TypeOK, SimpleSendAndRead, Set
<1>5. TypeOK'
  BY <1>0, <1>2, <1>3, <1>4, NoPacketType, Zenon
  DEF TypeOK, SimpleSendAndRead, Set, CallerState, GoroutineState, CtxState, Err, socket
<1>6. Only(c)
  BY <1>0 DEF TypeOK, Only, SimpleSendAndRead, Set, socket
<1> QED BY <1>5, <1>6

\* The caller's steps: types.
LEMMA CallerStepType ==
  ASSUME TypeOK, NEW c \in Client, CallerStep(c)
  PROVE  TypeOK'
<1> USE DEF CallerState, GoroutineState, CtxState, Err
<1>1. CASE RecvAndGoOn(c)
  <2>1. out' \in [Client -> Seq(Packet)] /\ \A d \in Client : Len(out'[d]) <= OutCap
    BY <1>1, TailType DEF RecvAndGoOn
  <2> QED BY <1>1, <2>1, Zenon DEF TypeOK, RecvAndGoOn, caller, attempt, socket,
             history
<1>2. CASE RecvResult(c)
  <2>1. /\ Head(out[c]) \in Packet
        /\ out' \in [Client -> Seq(Packet)]
        /\ \A d \in Client : Len(out'[d]) <= OutCap
    BY <1>2, TailType DEF RecvResult
  <2>2. [err |-> "nil", pkt |-> Head(out[c])] \in Result
    BY <2>1 DEF Result
  <2>3. pc' \in [Client -> CallerState] /\ result' \in [Client -> Result]
    BY <1>2, <2>2, Zenon DEF TypeOK, Set, RecvResult
  <2>4. ctx' \in [Client -> CtxState] /\ tctx' \in [Client -> CtxState]
    BY <1>2, Zenon DEF TypeOK, Set, RecvResult, cancel
  <2> QED BY <1>2, <2>1, <2>3, <2>4, Zenon DEF TypeOK, RecvResult, socket, history
<1>3. CASE RecvClosed(c)
  <2>1. [err |-> IF errCh[c] = "nil" THEN "no packet" ELSE errCh[c],
         pkt |-> NoPacket] \in Result
    BY NoPacketType, Zenon DEF TypeOK, Result
  <2>2. pc' \in [Client -> CallerState] /\ result' \in [Client -> Result]
    BY <1>3, <2>1, Zenon DEF TypeOK, Set, RecvClosed
  <2>3. ctx' \in [Client -> CtxState] /\ tctx' \in [Client -> CtxState]
    BY <1>3, Zenon DEF TypeOK, Set, RecvClosed, cancel
  <2> QED BY <1>3, <2>2, <2>3, Zenon DEF TypeOK, RecvClosed, socket, history
<1>4. CASE Return(c)
  <2>1. pc' \in [Client -> CallerState]
    BY <1>4, Zenon DEF TypeOK, Set, Return
  <2> QED BY <1>4, <2>1, Zenon DEF TypeOK, Return, attempt, socket, history
<1> QED BY <1>1, <1>2, <1>3, <1>4 DEF CallerStep

\* Sending and checking the contexts: types.
LEMMA SendStepType ==
  ASSUME TypeOK, NEW c \in Client, SendStep(c)
  PROVE  TypeOK'
<1> USE DEF CallerState, GoroutineState, CtxState, Err
<1>1. CASE WriteTo(c)
  <2>1. sends' \in [Client -> 0 .. MaxSends]
    <3>1. (IF sends[c] < MaxSends THEN sends[c] + 1 ELSE sends[c]) \in 0 .. MaxSends
      <4>1. sends[c] \in 0 .. MaxSends
        BY Zenon DEF TypeOK
      <4> QED BY <4>1, ClientAssumption
    <3> QED BY <1>1, <3>1, Zenon DEF TypeOK, Set, WriteTo
  <2>2. /\ gpc' \in [Client -> GoroutineState]
        /\ tctx' \in [Client -> CtxState]
        /\ got' \in [Client -> BOOLEAN]
    BY <1>1, Zenon DEF TypeOK, Set, WriteTo
  <2> QED BY <1>1, <2>1, <2>2, Zenon DEF TypeOK, WriteTo, caller, socket
<1>2. CASE WriteError(c)
  <2>1. gpc' \in [Client -> GoroutineState] /\ errCh' \in [Client -> Err]
    BY <1>2, Zenon DEF TypeOK, Set, WriteError, leave
  <2> QED BY <1>2, <2>1, Zenon DEF TypeOK, WriteError, caller, attempt, socket,
             history
<1>3. CASE OutOfTries(c)
  <2>1. gpc' \in [Client -> GoroutineState] /\ errCh' \in [Client -> Err]
    BY <1>3, Zenon DEF TypeOK, Set, OutOfTries, leave
  <2> QED BY <1>3, <2>1, Zenon DEF TypeOK, OutOfTries, caller, attempt, socket,
             history
<1>4. CASE CheckLive(c)
  <2>1. gpc' \in [Client -> GoroutineState]
    BY <1>4, Zenon DEF TypeOK, Set, CheckLive
  <2> QED BY <1>4, <2>1, Zenon DEF TypeOK, CheckLive, caller, attempt, socket,
             history
<1>5. CASE CheckDone(c)
  <2>1. gpc' \in [Client -> GoroutineState] /\ errCh' \in [Client -> Err]
    BY <1>5, Zenon DEF TypeOK, Set, CheckDone, leave
  <2> QED BY <1>5, <2>1, Zenon DEF TypeOK, CheckDone, caller, attempt, socket,
             history
<1>6. CASE CheckTimeout(c)
  <2>1. gpc' \in [Client -> GoroutineState] /\ tries' \in [Client -> Nat]
    BY <1>6, TryAgainType DEF CheckTimeout
  <2> QED BY <1>6, <2>1, Zenon DEF TypeOK, CheckTimeout, caller, socket, history
<1>7. CASE CheckCanceled(c)
  <2>1. gpc' \in [Client -> GoroutineState] /\ errCh' \in [Client -> Err]
    BY <1>7, Zenon DEF TypeOK, Set, CheckCanceled, leave
  <2> QED BY <1>7, <2>1, Zenon DEF TypeOK, CheckCanceled, caller, attempt,
             socket, history
<1> QED BY <1>1, <1>2, <1>3, <1>4, <1>5, <1>6, <1>7 DEF SendStep

\* Reading: types.
LEMMA ReadStepType ==
  ASSUME TypeOK, NEW c \in Client, ReadStep(c)
  PROVE  TypeOK'
<1> USE DEF CallerState, GoroutineState, CtxState, Err
<1>1. CASE ReadTimeout(c)
  <2>1. gpc' \in [Client -> GoroutineState]
    BY <1>1, Zenon DEF TypeOK, Set, ReadTimeout
  <2> QED BY <1>1, <2>1, Zenon DEF TypeOK, ReadTimeout, caller, attempt, socket,
             history
<1>2. CASE ReadError(c)
  <2>1. gpc' \in [Client -> GoroutineState] /\ errCh' \in [Client -> Err]
    BY <1>2, Zenon DEF TypeOK, Set, ReadError, leave
  <2> QED BY <1>2, <2>1, Zenon DEF TypeOK, ReadError, caller, attempt, socket,
             history
<1>3. CASE ReadDiscard(c)
  <2>1. Tail(inbox[c]) \in Seq(Packet)
    BY <1>3, HeadTail, Zenon DEF ReadDiscard, TypeOK
  <2>2. inbox' \in [Client -> Seq(Packet)] /\ gpc' \in [Client -> GoroutineState]
    BY <1>3, <2>1, Zenon DEF TypeOK, Set, ReadDiscard
  <2> QED BY <1>3, <2>2, Zenon DEF TypeOK, ReadDiscard, caller, attempt, history
<1>4. CASE ReadAccept(c)
  <2>1. Tail(inbox[c]) \in Seq(Packet) /\ Head(inbox[c]) \in Packet
    BY <1>4, HeadTail, Zenon DEF ReadAccept, TypeOK
  <2>2. /\ inbox' \in [Client -> Seq(Packet)]
        /\ got' \in [Client -> BOOLEAN]
        /\ accepted' \in [Client -> BOOLEAN]
    BY <1>4, <2>1, Zenon DEF TypeOK, Set, ReadAccept
  <2>3. held' \in [Client -> Packet] /\ gpc' \in [Client -> GoroutineState]
    <3>1. held' = held \/ held' = Set(held, c, Head(inbox[c]))
      BY <1>4 DEF ReadAccept
    <3>2. \E v \in GoroutineState : gpc' = Set(gpc, c, v)
      BY <1>4 DEF ReadAccept
    <3>3. gpc' \in [Client -> GoroutineState]
      BY <3>2, Zenon DEF TypeOK, Set
    <3> QED BY <2>1, <3>1, <3>3, Zenon DEF TypeOK, Set
  <2>4. out' \in [Client -> Seq(Packet)] /\ \A d \in Client : Len(out'[d]) <= OutCap
    <3>1. CASE out' = out
      BY <3>1, Zenon DEF TypeOK
    <3>2. CASE Len(out[c]) < OutCap /\ out' = Set(out, c, Append(out[c], Head(inbox[c])))
      BY <3>2, <2>1, AppendType
    <3> QED BY <1>4, <3>1, <3>2 DEF ReadAccept
  <2> QED BY <1>4, <2>2, <2>3, <2>4, Zenon DEF TypeOK, ReadAccept, caller
<1> QED BY <1>1, <1>2, <1>3, <1>4 DEF ReadStep

\* The blocked send and the end of the goroutine: types.
LEMMA EndStepType ==
  ASSUME TypeOK, NEW c \in Client, EndStep(c)
  PROVE  TypeOK'
<1> USE DEF CallerState, GoroutineState, CtxState, Err
<1>1. CASE BlockedSend(c)
  <2>1. out' \in [Client -> Seq(Packet)] /\ \A d \in Client : Len(out'[d]) <= OutCap
    <3>1. held[c] \in Packet
      BY Zenon DEF TypeOK
    <3> QED BY <1>1, <3>1, AppendType DEF BlockedSend
  <2>2. gpc' \in [Client -> GoroutineState]
    BY <1>1, Zenon DEF TypeOK, Set, BlockedSend
  <2> QED BY <1>1, <2>1, <2>2, Zenon DEF TypeOK, BlockedSend, caller, attempt,
             socket, history
<1>2. CASE BlockedDone(c)
  <2>1. /\ gpc' \in [Client -> GoroutineState]
        /\ errCh' \in [Client -> Err]
        /\ tries' \in [Client -> Nat]
    <3>1. CASE leave(c, "Canceled") /\ UNCHANGED tries
      BY <3>1, Zenon DEF TypeOK, Set, leave
    <3>2. CASE tryAgain(c) /\ UNCHANGED errCh
      BY <3>2, TryAgainType, Zenon DEF TypeOK
    <3> QED BY <1>2, <3>1, <3>2, Zenon DEF BlockedDone
  <2> QED BY <1>2, <2>1, Zenon DEF TypeOK, BlockedDone, caller, socket, history
<1>3. CASE Finish(c)
  <2>1. \E v \in GoroutineState : gpc' = Set(gpc, c, v)
    BY <1>3 DEF Finish
  <2>2. gpc' \in [Client -> GoroutineState]
    BY <2>1, Zenon DEF TypeOK, Set
  <2> QED BY <1>3, <2>2, Zenon DEF TypeOK, Finish, caller, attempt, socket, history
<1> QED BY <1>1, <1>2, <1>3 DEF EndStep

\* Clock, user and network: types.
LEMMA OutsideStepType ==
  ASSUME TypeOK, NEW c \in Client, OutsideStep(c)
  PROVE  TypeOK'
<1> USE DEF CallerState, GoroutineState, CtxState, Err
<1>1. CASE TimerFires(c)
  <2>1. tctx' \in [Client -> CtxState]
    BY <1>1, Zenon DEF TypeOK, Set, TimerFires
  <2> QED BY <1>1, <2>1, Zenon DEF TypeOK, TimerFires, caller, socket, history
<1>2. CASE UserCtxDone(c)
  <2>1. PICK err \in {"Canceled", "DeadlineExceeded"} :
          /\ ctx' = Set(ctx, c, err)
          /\ tctx' = Set(tctx, c, IF tctx[c] = "live" THEN err ELSE tctx[c])
    BY <1>2 DEF UserCtxDone
  <2>2. ctx' \in [Client -> CtxState] /\ tctx' \in [Client -> CtxState]
    BY <2>1, Zenon DEF TypeOK, Set
  <2> QED BY <1>2, <2>2, Zenon DEF TypeOK, UserCtxDone, caller, socket, history
<1>3. CASE Close(c)
  <2>1. closed' \in [Client -> BOOLEAN]
    BY <1>3, Zenon DEF TypeOK, Set, Close
  <2> QED BY <1>3, <2>1, Zenon DEF TypeOK, Close, caller, attempt, history
<1>4. CASE \E p \in Arrivals : Arrive(c, p)
  <2>1. PICK p \in Arrivals : Arrive(c, p)
    BY <1>4
  <2>2. p \in Packet /\ Append(inbox[c], p) \in Seq(Packet)
    BY Appended, ClientAssumption, Zenon DEF TypeOK
  <2>3. inbox' \in [Client -> Seq(Packet)] /\ arrived' \in [Client -> SUBSET Packet]
    BY <2>1, <2>2, Zenon DEF TypeOK, Set, Arrive
  <2> QED BY <2>1, <2>3, Zenon DEF TypeOK, Arrive, caller, attempt, history

<1> QED BY <1>1, <1>2, <1>3, <1>4 DEF OutsideStep

\* A step of client c leaves the state of the others what it is.
LEMMA StepOnly ==
  ASSUME TypeOK, NEW c \in Client, Step(c)
  PROVE  Only(c)
<1> USE DEF TypeOK, Only, Set, caller, attempt, socket, history
<1>1. CASE CallerStep(c)
  <2>1. CASE RecvAndGoOn(c)
    BY <2>1 DEF RecvAndGoOn
  <2>2. CASE RecvResult(c)
    BY <2>2 DEF RecvResult, cancel
  <2>3. CASE RecvClosed(c)
    BY <2>3, Zenon DEF RecvClosed, cancel
  <2>4. CASE Return(c)
    BY <2>4 DEF Return
  <2> QED BY <1>1, <2>1, <2>2, <2>3, <2>4, Zenon DEF CallerStep
<1>2. CASE SendStep(c)
  <2>1. CASE WriteTo(c)
    BY <2>1 DEF WriteTo
  <2>2. CASE WriteError(c)
    BY <2>2 DEF WriteError, leave
  <2>3. CASE OutOfTries(c)
    BY <2>3 DEF OutOfTries, leave
  <2>4. CASE CheckLive(c)
    BY <2>4 DEF CheckLive
  <2>5. CASE CheckDone(c)
    BY <2>5 DEF CheckDone, leave
  <2>6. CASE CheckTimeout(c)
    BY <2>6 DEF CheckTimeout, tryAgain
  <2>7. CASE CheckCanceled(c)
    BY <2>7 DEF CheckCanceled, leave
  <2> QED BY <1>2, <2>1, <2>2, <2>3, <2>4, <2>5, <2>6, <2>7, Zenon DEF SendStep
<1>3. CASE ReadStep(c)
  <2>1. CASE ReadTimeout(c)
    BY <2>1 DEF ReadTimeout
  <2>2. CASE ReadError(c)
    BY <2>2 DEF ReadError, leave
  <2>3. CASE ReadDiscard(c)
    BY <2>3 DEF ReadDiscard
  <2>4. CASE ReadAccept(c)
    BY <2>4 DEF ReadAccept
  <2> QED BY <1>3, <2>1, <2>2, <2>3, <2>4, Zenon DEF ReadStep
<1>4. CASE EndStep(c)
  <2>1. CASE BlockedSend(c)
    BY <2>1 DEF BlockedSend
  <2>2. CASE BlockedDone(c)
    BY <2>2 DEF BlockedDone, leave, tryAgain
  <2>3. CASE Finish(c)
    BY <2>3 DEF Finish
  <2> QED BY <1>4, <2>1, <2>2, <2>3, Zenon DEF EndStep
<1>5. CASE OutsideStep(c)
  <2>1. CASE TimerFires(c)
    BY <2>1 DEF TimerFires
  <2>2. CASE UserCtxDone(c)
    BY <2>2 DEF UserCtxDone
  <2>3. CASE Close(c)
    BY <2>3 DEF Close
  <2>4. CASE \E p \in Arrivals : Arrive(c, p)
    BY <2>4 DEF Arrive
  <2> QED BY <1>5, <2>1, <2>2, <2>3, <2>4, Zenon DEF OutsideStep
<1> QED BY <1>1, <1>2, <1>3, <1>4, <1>5, Zenon DEF Step

\* Every step of the client keeps the types.
LEMMA StepType ==
  ASSUME TypeOK, NEW c \in Client, Step(c)
  PROVE  TypeOK'
BY CallerStepType, SendStepType, ReadStepType, EndStepType, OutsideStepType DEF Step

------------------------------------------------------------------------------
(* The inductive invariant, one part per subject.                          *)

Reading == {"check", "read", "block"}
Ended == {"closeOut", "closeErr", "done", "off"}

\* Calls that return the first packet they receive.
FirstPacket == {"RequestRequest", "Renew", "SendAndReadOne"}

\* The packets that answer the current exchange of c.
AnswersTo(c) == {p \in arrived[c] : p.typ # "invalid" /\ p.xid = req[c].xid}

\* Where the packets are that c has read, is about to read or to return.
PacketInv(c) ==
  /\ inbox[c] \in Seq(arrived[c])
  /\ out[c] \in Seq(AnswersTo(c))
  /\ gpc[c] = "block" => held[c] \in AnswersTo(c)
  /\ pc[c] = "join" /\ result[c].err = "nil" =>
       /\ result[c].pkt \in AnswersTo(c)
       /\ WantsOffer(c) => result[c].pkt.typ = "Offer"

\* The goroutine ends before the call does, and an error comes at its end.
ControlInv(c) ==
  /\ pc[c] = "idle" => gpc[c] = "off"
  /\ errCh[c] # "nil" => gpc[c] \in Ended
  /\ errCh[c] # "no packet"
  /\ pc[c] = "join" /\ result[c].err # "nil" =>
       gpc[c] \in {"closeErr", "done", "off"}

\* Until the call decides, its context is live unless a user made it.
ContextInv(c) ==
  call[c] # "SimpleSendAndRead" =>
    /\ ctx[c] # "DeadlineExceeded"
    /\ pc[c] = "recv" => /\ ctx[c] = "live"
                         /\ tctx[c] # "Canceled"
                         /\ errCh[c] # "Canceled"

\* What the goroutine knows of the responses it has read.
AcceptedInv(c) ==
  /\ gpc[c] \in Reading /\ got[c] => accepted[c]
  /\ ctx[c] # "DeadlineExceeded" =>
       /\ gpc[c] = "write" => ~accepted[c]
       /\ gpc[c] \in Reading /\ accepted[c] => got[c]
  /\ pc[c] = "recv" =>
       /\ gpc[c] \in Ended /\ errCh[c] = "nil" => accepted[c]
       /\ call[c] \in FirstPacket /\ accepted[c] => out[c] # <<>>

\* Transmissions are counted by retryFn's i.
CountInv(c) ==
  /\ Retry >= 0 /\ gpc[c] = "write" => sends[c] = tries[c] /\ tries[c] <= Retry
  /\ Retry >= 0 /\ gpc[c] \in Reading =>
       sends[c] = tries[c] + 1 /\ tries[c] < Retry
  /\ pc[c] = "recv" /\ errCh[c] = "DeadlineExceeded"
                    /\ call[c] # "SimpleSendAndRead" =>
       sends[c] = Retry /\ ~accepted[c]

\* What the call has decided to return.
DecidedInv(c) ==
  pc[c] = "join" /\ call[c] # "SimpleSendAndRead" =>
    /\ result[c].err = "DeadlineExceeded" => sends[c] = Retry /\ ~accepted[c]
    /\ result[c].err # "Canceled"
    /\ result[c].err = "no packet" => WantsOffer(c) /\ accepted[c]

ClientInv(c) ==
  /\ PacketInv(c) /\ ControlInv(c) /\ ContextInv(c)
  /\ AcceptedInv(c) /\ CountInv(c) /\ DecidedInv(c)

Inv == TypeOK /\ \A c \in Client : ClientInv(c)

------------------------------------------------------------------------------

\* Initially nothing has happened.
LEMMA InitInv == Init => Inv
<1> SUFFICES ASSUME Init PROVE Inv
  OBVIOUS
<1>1. ASSUME NEW c \in Client PROVE ClientInv(c)
  <2>1. /\ pc[c] = "idle" /\ gpc[c] = "off" /\ ctx[c] = "live"
        /\ errCh[c] = "nil" /\ out[c] = <<>> /\ inbox[c] = <<>>
    BY Zenon DEF Init
  <2> QED BY <2>1 DEF ClientInv, PacketInv, ControlInv, ContextInv,
              AcceptedInv, CountInv, DecidedInv, Reading
<1> QED BY <1>1, InitType DEF Inv

\* A call that begins resets all there is of the call before.
LEMMA StartInv ==
  ASSUME TypeOK, NEW c \in Client, ClientInv(c), Starts(c)
  PROVE  ClientInv(c)'
<1>1. /\ pc'[c] = "recv" /\ gpc'[c] = "write" /\ ctx'[c] = "live"
      /\ tctx'[c] = "live" /\ tries'[c] = 0 /\ got'[c] = FALSE
      /\ out'[c] = <<>> /\ errCh'[c] = "nil" /\ sends'[c] = 0
      /\ accepted'[c] = FALSE /\ inbox' = inbox /\ arrived' = arrived
  BY DEF Starts, TypeOK, SimpleSendAndRead, Set, socket
<1>2. PacketInv(c)'
  BY <1>1 DEF ClientInv, PacketInv
<1>3. CountInv(c)'
  BY <1>1, ClientAssumption DEF CountInv, Reading
<1> QED BY <1>1, <1>2, <1>3, Zenon DEF ClientInv, ControlInv, ContextInv,
            AcceptedInv, DecidedInv, Reading, Ended

\* The count of transmissions, across one of them, ...
LEMMA WriteCount ==
  ASSUME TypeOK, NEW c \in Client, CountInv(c), ControlInv(c), WriteTo(c)
  PROVE  CountInv(c)'
<1>1. /\ tries[c] \in Nat /\ Retry \in Int
      /\ MaxSends \in Nat /\ MaxSends > Retry
  BY ClientAssumption DEF TypeOK
<1>2. /\ gpc'[c] = "check"
      /\ sends'[c] = IF sends[c] < MaxSends THEN sends[c] + 1 ELSE sends[c]
  BY DEF WriteTo, TypeOK, Set
<1>3. Retry >= 0 => sends[c] = tries[c] /\ tries[c] < Retry
  <2>1. tries[c] < Retry \/ Retry < 0
    BY DEF WriteTo, mayTry
  <2>2. Retry >= 0 => sends[c] = tries[c]
    BY DEF WriteTo, CountInv
  <2> QED BY <1>1, <2>1, <2>2
<1>4. Retry >= 0 => sends'[c] = tries[c] + 1 /\ tries[c] < Retry
  BY <1>1, <1>2, <1>3
<1>5. errCh' = errCh /\ pc' = pc /\ call' = call /\ tries' = tries
  BY DEF WriteTo, caller
<1>6. errCh[c] = "nil"
  BY Zenon DEF WriteTo, ControlInv, Ended
<1> QED BY <1>2, <1>4, <1>5, <1>6 DEF CountInv, Reading

\* ... when there are no more to come, ...
LEMMA OutOfTriesCount ==
  ASSUME TypeOK, NEW c \in Client, CountInv(c), OutOfTries(c)
  PROVE  sends[c] = Retry
<1>1. tries[c] \in Nat /\ Retry \in Int
  BY ClientAssumption DEF TypeOK
<1>2. ~(tries[c] < Retry \/ Retry < 0)
  BY DEF OutOfTries, mayTry
<1>3. Retry >= 0 => sends[c] = tries[c] /\ tries[c] <= Retry
  BY DEF OutOfTries, CountInv
<1> QED BY <1>1, <1>2, <1>3

\* ... and when an attempt has timed out.
LEMMA TryAgainCount ==
  ASSUME TypeOK, NEW c \in Client, CountInv(c), gpc[c] \in Reading, tryAgain(c),
         UNCHANGED <<pc, call, errCh, sends, accepted>>
  PROVE  gpc'[c] = "write" /\ CountInv(c)'
<1>1. tries[c] \in Nat /\ Retry \in Int
  BY ClientAssumption DEF TypeOK
<1>2. /\ gpc'[c] = "write"
      /\ tries'[c] = IF Retry < 0 THEN 0 ELSE tries[c] + 1
  BY DEF tryAgain, Set, TypeOK
<1>3. Retry >= 0 => sends[c] = tries[c] + 1 /\ tries[c] < Retry
  BY DEF CountInv
<1>4. Retry >= 0 => sends[c] = tries'[c] /\ tries'[c] <= Retry
  BY <1>1, <1>2, <1>3
<1> QED BY <1>2, <1>4 DEF CountInv, Reading

\* A full channel is not empty.
LEMMA FullNotEmpty ==
  ASSUME NEW c \in Client, Len(out[c]) >= OutCap
  PROVE  out[c] # <<>>
<1>1. Len(<<>>) = 0 /\ ~(0 >= OutCap)
  BY ClientAssumption
<1> QED BY <1>1

\* The caller's steps: the invariant.
LEMMA CallerStepInv ==
  ASSUME TypeOK, NEW c \in Client, ClientInv(c), CallerStep(c)
  PROVE  ClientInv(c)'
<1> USE DEF ClientInv, PacketInv, ControlInv, ContextInv, AcceptedInv, CountInv,
            DecidedInv, Reading, Ended, FirstPacket, WantsOffer
<1>1. CASE RecvAndGoOn(c)
  <2>1. out'[c] = Tail(out[c])
    BY <1>1, Zenon DEF RecvAndGoOn, TypeOK, Set
  <2>2. out'[c] \in Seq(AnswersTo(c))
    BY <1>1, <2>1, HeadTail, Zenon DEF RecvAndGoOn
  <2> QED BY <1>1, <2>2, Zenon DEF RecvAndGoOn, AnswersTo, caller, attempt,
             socket, history
<1>2. CASE RecvResult(c)
  <2>1. /\ pc'[c] = "join" /\ out'[c] = Tail(out[c])
        /\ result'[c].err = "nil" /\ result'[c].pkt = Head(out[c])
    BY <1>2, Zenon DEF RecvResult, TypeOK, Set
  <2>2. ctx'[c] # "DeadlineExceeded" \/ ctx'[c] = ctx[c]
    BY <1>2, Zenon DEF RecvResult, cancel, TypeOK, Set
  <2>3. out'[c] \in Seq(AnswersTo(c)) /\ result'[c].pkt \in AnswersTo(c)
    BY <1>2, <2>1, HeadTail, Zenon DEF RecvResult
  <2>4. AnswersTo(c)' = AnswersTo(c)
    BY <1>2, Zenon DEF RecvResult, AnswersTo, socket
  <2> QED BY <1>2, <2>1, <2>2, <2>3, <2>4, Zenon DEF RecvResult, socket, history
<1>3. CASE RecvClosed(c)
  <2>1. /\ pc'[c] = "join"
        /\ result'[c].err = IF errCh[c] = "nil" THEN "no packet" ELSE errCh[c]
    BY <1>3, Zenon DEF RecvClosed, TypeOK, Set
  <2>2. ctx'[c] # "DeadlineExceeded" \/ ctx'[c] = ctx[c]
    BY <1>3, Zenon DEF RecvClosed, cancel, TypeOK, Set
  <2>3. call[c] \in Calls
    BY Zenon DEF TypeOK
  <2>4. DecidedInv(c)'
    BY <1>3, <2>1, <2>3, Zenon DEF RecvClosed, socket, history, Calls
  <2> QED BY <1>3, <2>1, <2>2, <2>4, Zenon DEF RecvClosed, AnswersTo, socket,
             history
<1>4. CASE Return(c)
  <2>1. pc'[c] = "idle"
    BY <1>4, Zenon DEF TypeOK, Set, Return
  <2> QED BY <1>4, <2>1, Zenon DEF Return, AnswersTo, attempt, socket, history
<1> QED BY <1>1, <1>2, <1>3, <1>4, Zenon DEF CallerStep

\* Sending and checking the contexts: the invariant.
LEMMA SendStepInv ==
  ASSUME TypeOK, NEW c \in Client, ClientInv(c), SendStep(c)
  PROVE  ClientInv(c)'
<1> USE DEF ClientInv, PacketInv, ControlInv, ContextInv, AcceptedInv, CountInv,
            DecidedInv, Reading, Ended, FirstPacket, WantsOffer
<1>1. CASE WriteTo(c)
  <2>1. gpc'[c] = "check" /\ tctx'[c] = ctx[c] /\ got'[c] = FALSE
    BY <1>1, Zenon DEF WriteTo, TypeOK, Set
  <2>2. CountInv(c)'
    BY <1>1, WriteCount, Zenon
  <2>3. errCh[c] = "nil"
    BY <1>1, Zenon DEF WriteTo
  <2> QED BY <1>1, <2>1, <2>2, <2>3, Zenon DEF WriteTo, AnswersTo, caller, socket
<1>2. CASE WriteError(c)
  <2>1. gpc'[c] = "closeOut" /\ errCh'[c] = "write"
    BY <1>2, Zenon DEF TypeOK, Set, WriteError, leave
  <2> QED BY <1>2, <2>1, Zenon DEF WriteError, AnswersTo, caller, attempt,
             socket, history
<1>3. CASE OutOfTries(c)
  <2>1. gpc'[c] = "closeOut" /\ errCh'[c] = "DeadlineExceeded"
    BY <1>3, Zenon DEF OutOfTries, leave, TypeOK, Set
  <2>2. sends[c] = Retry
    BY <1>3, OutOfTriesCount, Zenon
  <2> QED BY <1>3, <2>1, <2>2, Zenon DEF OutOfTries, AnswersTo, caller, attempt,
             socket, history
<1>4. CASE CheckLive(c)
  <2>1. gpc'[c] = "read"
    BY <1>4, Zenon DEF TypeOK, Set, CheckLive
  <2> QED BY <1>4, <2>1, Zenon DEF CheckLive, AnswersTo, caller, attempt, socket,
             history
<1>5. CASE CheckDone(c)
  <2>1. gpc'[c] = "closeOut" /\ errCh'[c] = "nil"
    BY <1>5, Zenon DEF TypeOK, Set, CheckDone, leave
  <2> QED BY <1>5, <2>1, Zenon DEF CheckDone, AnswersTo, caller, attempt, socket,
             history
<1>6. CASE CheckTimeout(c)
  <2>1. gpc'[c] = "write" /\ CountInv(c)'
    BY <1>6, TryAgainCount, Zenon DEF CheckTimeout, caller, history
  <2> QED BY <1>6, <2>1, Zenon DEF CheckTimeout, AnswersTo, caller, socket, history
<1>7. CASE CheckCanceled(c)
  <2>1. gpc'[c] = "closeOut" /\ errCh'[c] = "Canceled"
    BY <1>7, Zenon DEF TypeOK, Set, CheckCanceled, leave
  <2> QED BY <1>7, <2>1, Zenon DEF CheckCanceled, AnswersTo, caller, attempt,
             socket, history
<1> QED BY <1>1, <1>2, <1>3, <1>4, <1>5, <1>6, <1>7, Zenon DEF SendStep

\* Reading: the invariant.
LEMMA ReadStepInv ==
  ASSUME TypeOK, NEW c \in Client, ClientInv(c), ReadStep(c)
  PROVE  ClientInv(c)'
<1> USE DEF ClientInv, PacketInv, ControlInv, ContextInv, AcceptedInv, CountInv,
            DecidedInv, Reading, Ended, FirstPacket, WantsOffer
<1>1. CASE ReadTimeout(c)
  <2>1. gpc'[c] = "check"
    BY <1>1, Zenon DEF TypeOK, Set, ReadTimeout
  <2> QED BY <1>1, <2>1, Zenon DEF ReadTimeout, AnswersTo, caller, attempt,
             socket, history
<1>2. CASE ReadError(c)
  <2>1. gpc'[c] = "closeOut" /\ errCh'[c] = "read"
    BY <1>2, Zenon DEF TypeOK, Set, ReadError, leave
  <2> QED BY <1>2, <2>1, Zenon DEF ReadError, AnswersTo, caller, attempt, socket,
             history
<1>3. CASE ReadDiscard(c)
  <2>1. gpc'[c] \in {"check", "panic"} /\ inbox'[c] = Tail(inbox[c])
    BY <1>3, Zenon DEF ReadDiscard, TypeOK, Set
  <2>2. inbox'[c] \in Seq(arrived[c])
    BY <1>3, <2>1, HeadTail, Zenon DEF ReadDiscard
  <2> QED BY <1>3, <2>1, <2>2, Zenon DEF ReadDiscard, AnswersTo, caller, attempt,
             history
<1>4. CASE ReadAccept(c)
  <2>1. /\ got'[c] = TRUE /\ accepted'[c] = TRUE
        /\ inbox'[c] = Tail(inbox[c])
    BY <1>4, Zenon DEF ReadAccept, TypeOK, Set
  <2>2. inbox'[c] \in Seq(arrived[c]) /\ Head(inbox[c]) \in arrived[c]
    BY <1>4, <2>1, HeadTail, Zenon DEF ReadAccept
  <2>3. Head(inbox[c]) \in AnswersTo(c)
    BY <1>4, <2>2, Zenon DEF ReadAccept, matches, AnswersTo
  <2>4. AnswersTo(c)' = AnswersTo(c)
    BY <1>4, Zenon DEF ReadAccept, AnswersTo, caller
  <2>5. CASE /\ Len(out[c]) < OutCap
             /\ out' = Set(out, c, Append(out[c], Head(inbox[c])))
             /\ gpc' = Set(gpc, c, "check")
             /\ UNCHANGED held
    <3>1. gpc'[c] = "check" /\ out'[c] = Append(out[c], Head(inbox[c]))
      BY <2>5, Zenon DEF TypeOK, Set
    <3>2. out'[c] \in Seq(AnswersTo(c)) /\ out'[c] # <<>>
      BY <2>3, <3>1, Appended, Zenon
    <3> QED BY <1>4, <2>1, <2>2, <2>4, <3>1, <3>2, Zenon DEF ReadAccept, caller
  <2>6. CASE /\ Len(out[c]) >= OutCap
             /\ held' = Set(held, c, Head(inbox[c]))
             /\ gpc' = Set(gpc, c, "block")
             /\ UNCHANGED out
    <3>1. gpc'[c] = "block" /\ held'[c] = Head(inbox[c])
      BY <2>6, Zenon DEF TypeOK, Set
    <3>2. out[c] # <<>>
      BY <2>6, FullNotEmpty, Zenon
    <3> QED BY <1>4, <2>1, <2>2, <2>3, <2>4, <2>6, <3>1, <3>2,
               Zenon DEF ReadAccept, caller
  <2> QED BY <1>4, <2>5, <2>6, Zenon DEF ReadAccept
<1> QED BY <1>1, <1>2, <1>3, <1>4, Zenon DEF ReadStep

\* The blocked send and the end of the goroutine: the invariant.
LEMMA EndStepInv ==
  ASSUME TypeOK, NEW c \in Client, ClientInv(c), EndStep(c)
  PROVE  ClientInv(c)'
<1> USE DEF ClientInv, PacketInv, ControlInv, ContextInv, AcceptedInv, CountInv,
            DecidedInv, Reading, Ended, FirstPacket, WantsOffer
<1>1. CASE BlockedSend(c)
  <2>1. gpc'[c] = "check" /\ out'[c] = Append(out[c], held[c])
    BY <1>1, Zenon DEF BlockedSend, TypeOK, Set
  <2>2. out'[c] \in Seq(AnswersTo(c)) /\ out'[c] # <<>>
    BY <1>1, <2>1, Appended, Zenon DEF BlockedSend
  <2> QED BY <1>1, <2>1, <2>2, Zenon DEF BlockedSend, AnswersTo, caller, attempt,
             socket, history
<1>2. CASE BlockedDone(c)
  <2>1. CASE ctx[c] = "Canceled" /\ leave(c, "Canceled") /\ UNCHANGED tries
    <3>1. gpc'[c] = "closeOut" /\ errCh'[c] = "Canceled"
      BY <2>1, Zenon DEF leave, TypeOK, Set
    <3> QED BY <1>2, <2>1, <3>1, Zenon DEF BlockedDone, AnswersTo, caller,
               socket, history
  <2>2. CASE ctx[c] = "DeadlineExceeded" /\ tryAgain(c) /\ UNCHANGED errCh
    <3>1. gpc'[c] = "write" /\ CountInv(c)'
      BY <1>2, <2>2, TryAgainCount, Zenon DEF BlockedDone, caller, history
    <3> QED BY <1>2, <2>2, <3>1, Zenon DEF BlockedDone, AnswersTo, caller,
               socket, history
  <2> QED BY <1>2, <2>1, <2>2, Zenon DEF BlockedDone
<1>3. CASE Finish(c)
  <2>1. /\ gpc'[c] \in {"closeErr", "done", "off"}
        /\ gpc[c] \in {"closeOut", "closeErr", "done"}
    BY <1>3, Zenon DEF Finish, TypeOK, Set
  <2> QED BY <1>3, <2>1, Zenon DEF Finish, AnswersTo, caller, attempt, socket,
             history
<1> QED BY <1>1, <1>2, <1>3, Zenon DEF EndStep

\* Clock, user and network: the invariant.
LEMMA OutsideStepInv ==
  ASSUME TypeOK, NEW c \in Client, ClientInv(c), OutsideStep(c)
  PROVE  ClientInv(c)'
<1> USE DEF ClientInv, PacketInv, ControlInv, ContextInv, AcceptedInv, CountInv,
            DecidedInv, Reading, Ended, FirstPacket, WantsOffer
<1>1. CASE TimerFires(c)
  <2>1. tctx'[c] = "DeadlineExceeded"
    BY <1>1, Zenon DEF TypeOK, Set, TimerFires
  <2> QED BY <1>1, <2>1, Zenon DEF TimerFires, AnswersTo, caller, socket, history
<1>2. CASE UserCtxDone(c)
  <2>1. ctx'[c] \in {"Canceled", "DeadlineExceeded"}
    BY <1>2, Zenon DEF TypeOK, Set, UserCtxDone
  <2> QED BY <1>2, <2>1, Zenon DEF UserCtxDone, AnswersTo, caller, socket, history
<1>3. CASE Close(c)
  <2>1. AnswersTo(c)' = AnswersTo(c)
    BY <1>3, Zenon DEF Close, AnswersTo, caller
  <2>2. PacketInv(c)' /\ ControlInv(c)' /\ ContextInv(c)'
    BY <1>3, <2>1, Zenon DEF Close, caller, attempt, history
  <2>3. AcceptedInv(c)' /\ CountInv(c)' /\ DecidedInv(c)'
    BY <1>3, Zenon DEF Close, caller, attempt, history
  <2> QED BY <2>2, <2>3, Zenon
<1>4. CASE \E p \in Arrivals : Arrive(c, p)
  <2>1. PICK p \in Arrivals : Arrive(c, p)
    BY <1>4, Zenon
  <2>2. /\ inbox'[c] = Append(inbox[c], p)
        /\ arrived'[c] = arrived[c] \cup {p}
    BY <2>1, Zenon DEF Arrive, TypeOK, Set
  <2>3. inbox'[c] \in Seq(arrived[c] \cup {p})
    <3> DEFINE U == arrived[c] \cup {p}
    <3>1. inbox[c] \in Seq(U) /\ p \in U
      BY SeqMonotone, Zenon
    <3> HIDE DEF U
    <3>2. Append(inbox[c], p) \in Seq(U)
      BY <3>1, Appended, Zenon
    <3> QED BY <2>2, <3>2, Zenon DEF U
  <2>4. AnswersTo(c) \subseteq AnswersTo(c)'
    BY <2>1, <2>2, Zenon DEF Arrive, AnswersTo, caller
  <2>5. out[c] \in Seq(AnswersTo(c)')
    BY <2>4, SeqMonotone, Zenon
  <2>6. PacketInv(c)'
    <3>1. /\ gpc'[c] = gpc[c] /\ held'[c] = held[c] /\ out'[c] = out[c]
          /\ pc'[c] = pc[c] /\ result'[c] = result[c] /\ call'[c] = call[c]
      BY <2>1, Zenon DEF Arrive, caller, attempt
    <3> QED BY <2>2, <2>3, <2>4, <2>5, <3>1, Zenon
  <2>7. ControlInv(c)' /\ ContextInv(c)' /\ AcceptedInv(c)'
    BY <2>1, Zenon DEF Arrive, caller, attempt, history
  <2>8. CountInv(c)' /\ DecidedInv(c)'
    BY <2>1, Zenon DEF Arrive, caller, attempt, history
  <2> QED BY <2>6, <2>7, <2>8, Zenon
<1> QED BY <1>1, <1>2, <1>3, <1>4, Zenon DEF OutsideStep

\* What a step leaves alone keeps its part of the invariant.
LEMMA OthersInv ==
  ASSUME NEW c \in Client, Only(c), NEW d \in Client \ {c}, ClientInv(d)
  PROVE  ClientInv(d)'
<1>1. /\ pc'[d] = pc[d] /\ call'[d] = call[d] /\ req'[d] = req[d]
      /\ result'[d] = result[d] /\ ctx'[d] = ctx[d] /\ gpc'[d] = gpc[d]
      /\ tctx'[d] = tctx[d] /\ tries'[d] = tries[d] /\ got'[d] = got[d]
      /\ held'[d] = held[d] /\ out'[d] = out[d] /\ errCh'[d] = errCh[d]
      /\ inbox'[d] = inbox[d] /\ sends'[d] = sends[d]
      /\ accepted'[d] = accepted[d] /\ arrived'[d] = arrived[d]
  BY DEF Only
<1>2. AnswersTo(d)' = AnswersTo(d)
  BY <1>1 DEF AnswersTo
<1>3. PacketInv(d)' /\ ControlInv(d)' /\ ContextInv(d)'
  BY <1>1, <1>2, Zenon DEF ClientInv, PacketInv, ControlInv, ContextInv, WantsOffer
<1>4. AcceptedInv(d)' /\ CountInv(d)' /\ DecidedInv(d)'
  BY <1>1, Zenon DEF ClientInv, AcceptedInv, CountInv, DecidedInv, WantsOffer
<1> QED BY <1>3, <1>4 DEF ClientInv

\* Every step keeps the inductive invariant.
LEMMA NextInv == Inv /\ [Next]_vars => Inv'
<1> SUFFICES ASSUME Inv, [Next]_vars PROVE Inv'
  OBVIOUS
<1>1. CASE UNCHANGED vars
  <2>1. /\ caller' = caller /\ ctx' = ctx /\ gpc' = gpc /\ attempt' = attempt
        /\ out' = out /\ errCh' = errCh /\ socket' = socket /\ history' = history
    BY <1>1 DEF vars
  <2>2. TypeOK'
    BY <2>1 DEF Inv, TypeOK, caller, attempt, socket, history
  <2>3. ASSUME NEW c \in Client PROVE ClientInv(c)'
    <3>1. PacketInv(c)' /\ ControlInv(c)' /\ ContextInv(c)'
      BY <2>1, Zenon DEF Inv, ClientInv, PacketInv, ControlInv, ContextInv,
         WantsOffer,
                  AnswersTo, caller, attempt, socket, history
    <3>2. AcceptedInv(c)' /\ CountInv(c)' /\ DecidedInv(c)'
      BY <2>1, Zenon DEF Inv, ClientInv, AcceptedInv, CountInv, DecidedInv,
         WantsOffer,
                  caller, attempt, socket, history
    <3> QED BY <3>1, <3>2 DEF ClientInv
  <2> QED BY <2>2, <2>3 DEF Inv
<1>2. CASE Next
  <2>1. PICK c \in Client : Starts(c) \/ Step(c)
    BY <1>2, NextCases DEF Inv
  <2>2. TypeOK' /\ Only(c) /\ ClientInv(c)'
    BY <2>1, StartType, StartInv, StepType, StepOnly, CallerStepInv, SendStepInv,
       ReadStepInv, EndStepInv, OutsideStepInv DEF Inv, Step
  <2>3. \A d \in Client \ {c} : ClientInv(d)'
    BY <2>2, OthersInv DEF Inv
  <2> QED BY <2>2, <2>3 DEF Inv
<1> QED BY <1>1, <1>2

\* The inductive invariant holds always.
LEMMA Invariance == Spec => []Inv
BY InitInv, NextInv, PTL DEF Spec

------------------------------------------------------------------------------

\* Types are kept; in particular out never holds more than its capacity.
THEOREM TypeCorrect == Spec => []TypeOK
<1>1. Inv => TypeOK
  BY DEF Inv
<1> QED BY <1>1, Invariance, PTL

\* What a call returns, and all that is queued for it, has the transaction ID
\* of the packet sent, and DiscoverOffer returns an offer.
THEOREM ResponsesMatch == Spec => []ResponseMatchesRequest
<1>1. Inv => ResponseMatchesRequest
  <2> SUFFICES ASSUME Inv, NEW c \in Client
               PROVE  /\ pc[c] # "idle" =>
                           \A k \in DOMAIN out[c] : out[c][k].xid = req[c].xid
                      /\ pc[c] = "join" /\ result[c].err = "nil" =>
                           /\ result[c].pkt.xid = req[c].xid
                           /\ WantsOffer(c) => result[c].pkt.typ = "Offer"
    BY DEF ResponseMatchesRequest
  <2>1. PacketInv(c)
    BY DEF Inv, ClientInv
  <2>2. \A k \in DOMAIN out[c] : out[c][k] \in AnswersTo(c)
    BY <2>1 DEF PacketInv
  <2> QED BY <2>1, <2>2, Zenon DEF PacketInv, AnswersTo
<1> QED BY <1>1, Invariance, PTL

\* DeadlineExceeded means that the packet was sent Retry times and that no
\* response to it was read.
THEOREM TimeoutsAreSilence == Spec => []TimeoutMeansSilence
<1>1. Inv => TimeoutMeansSilence
  BY Zenon DEF Inv, ClientInv, DecidedInv, TimeoutMeansSilence
<1> QED BY <1>1, Invariance, PTL

\* No call fails by its own cancellation, and none but DiscoverOffer comes
\* back with neither packet nor error of the connection.
THEOREM EmptyHanded == Spec => []EmptyHandedExplained
<1>1. Inv => EmptyHandedExplained
  BY Zenon DEF Inv, ClientInv, DecidedInv, EmptyHandedExplained
<1> QED BY <1>1, Invariance, PTL

\* While no call is running nothing is taken from the connection.
THEOREM NothingRead == Spec => NothingReadBetweenCalls
<1> DEFINE Quiet == \A c \in Client :
       pc[c] = "idle" => Len(inbox'[c]) >= Len(inbox[c])
<1>1. Inv /\ [Next]_vars => [Quiet]_vars
  <2> SUFFICES ASSUME Inv, Next, NEW d \in Client, pc[d] = "idle"
               PROVE  Len(inbox'[d]) >= Len(inbox[d])
    OBVIOUS
  <2>1. inbox[d] \in Seq(Packet) /\ Len(inbox[d]) \in Nat
    BY DEF Inv, TypeOK
  <2>2. PICK c \in Client : Starts(c) \/ Step(c)
    BY NextCases DEF Inv
  <2>3. CASE c # d
    <3>1. inbox'[d] = inbox[d]
      BY <2>2, <2>3, StartType, StepOnly, Zenon DEF Inv, Only
    <3> QED BY <2>1, <3>1
  <2>4. CASE c = d /\ inbox' = inbox
    BY <2>1, <2>4
  <2>5. CASE c = d /\ \E p \in Arrivals : Arrive(c, p)
    <3>1. PICK p \in Arrivals : inbox'[d] = Append(inbox[d], p)
      BY <2>5 DEF Inv, TypeOK, Arrive, Set
    <3>2. p \in Packet
      BY ClientAssumption
    <3> QED BY <2>1, <3>1, <3>2, Appended
  <2>6. gpc[d] = "off"
    BY Zenon DEF Inv, ClientInv, ControlInv
  <2>7. c = d => inbox' = inbox \/ \E p \in Arrivals : Arrive(c, p)
    BY <2>2, <2>6, Zenon DEF Starts, Step, CallerStep, SendStep, ReadStep, EndStep,
       OutsideStep, SimpleSendAndRead, RecvAndGoOn, RecvResult, RecvClosed, Return,
       WriteTo, WriteError, OutOfTries, CheckLive, CheckDone, CheckTimeout,
       CheckCanceled, ReadTimeout, ReadError, ReadDiscard, ReadAccept,
       BlockedSend, BlockedDone, Finish, TimerFires, UserCtxDone, Close, socket
  <2> QED BY <2>3, <2>4, <2>5, <2>7
<1> QED BY <1>1, Invariance, PTL DEF Spec, NothingReadBetweenCalls

\* The packet is not sent again once a response to it has been read: the
\* sender is back at the head of retryFn's loop only without one.
THEOREM NoRetransmit == Spec => NoRetransmitAfterResponse
<1> DEFINE Kept == \A c \in Client :
       sends'[c] > sends[c] => ~accepted[c] \/ ctx[c] = "DeadlineExceeded"
<1>1. Inv /\ [Next]_vars => [Kept]_vars
  <2> SUFFICES ASSUME Inv, Next, NEW c \in Client, sends'[c] > sends[c]
               PROVE  ~accepted[c] \/ ctx[c] = "DeadlineExceeded"
    OBVIOUS
  <2>1. sends[c] \in Nat /\ ~(sends[c] > sends[c]) /\ ~(0 > sends[c])
    BY ClientAssumption DEF Inv, TypeOK
  <2>2. PICK d \in Client : Starts(d) \/ Step(d)
    BY NextCases DEF Inv
  <2>3. c = d
    BY <2>1, <2>2, StartType, StepOnly DEF Inv, Only
  <2>4. ~Starts(c)
    BY <2>1, Zenon DEF Inv, TypeOK, Starts, SimpleSendAndRead, Set
  <2>5. WriteTo(c) \/ sends' = sends
    BY <2>2, <2>3, <2>4, Zenon DEF Step, CallerStep, SendStep, ReadStep, EndStep,
       OutsideStep, RecvAndGoOn, RecvResult, RecvClosed, Return, WriteError,
       OutOfTries, CheckLive, CheckDone, CheckTimeout, CheckCanceled, ReadTimeout,
       ReadError, ReadDiscard, ReadAccept, BlockedSend, BlockedDone, Finish,
       TimerFires, UserCtxDone, Close, Arrive, history
  <2>6. gpc[c] = "write"
    BY <2>1, <2>5 DEF WriteTo
  <2> QED BY <2>6, Zenon DEF Inv, ClientInv, AcceptedInv
<1> QED BY <1>1, Invariance, PTL DEF Spec, NoRetransmitAfterResponse

\* The abstract exchange is about the same packets and errors.
LEMMA SamePackets ==
  /\ Abstract!NoPacket = NoPacket
  /\ Abstract!Err = Err
  /\ \A c : Abstract!DiscoverPacket(c) = DiscoverPacket(c)
  /\ \A c, p : Abstract!RequestPacket(c, p) = RequestPacket(c, p)
BY DEF Abstract!NoPacket, NoPacket, Abstract!Err, Err, Abstract!ZeroIP, ZeroIP,
       Abstract!macToID, macToID, Abstract!DiscoverPacket, DiscoverPacket,
       Abstract!RequestPacket, RequestPacket

\* The client implements the abstract exchange.  A call begins, decides and
\* returns as there; all else the client does, the callers do not see.
THEOREM ClientIsExchange == Spec => ImplementsExchange
<1>1. Init => Abstract!Init
  BY SamePackets DEF Init, Abstract!Init
<1>2. Inv /\ [Next]_vars => [Abstract!Next]_(Abstract!vars)
  <2> SUFFICES ASSUME Inv, Next, ~UNCHANGED Abstract!vars
               PROVE  Abstract!Next
    BY DEF vars, Abstract!vars, caller, socket
  <2>1. PICK c \in Client :
          \/ Call(c) \/ Caller(c) \/ Goroutine(c)
          \/ TimerFires(c) \/ UserCtxDone(c) \/ Close(c)
          \/ \E p \in Arrivals : Arrive(c, p)
    BY DEF Next
  <2>2. CASE CallDiscoverOffer(c) \/ CallRequest(c)
    <3>1. Abstract!CallDiscover(c)
      BY <2>2, SamePackets DEF CallDiscoverOffer, CallRequest, SimpleSendAndRead,
         Set, socket,
         Abstract!CallDiscover, Abstract!Begin
    <3> QED BY <3>1 DEF Abstract!Next
  <2>3. CASE CallRenew(c)
    <3>1. Abstract!CallRenew(c)
      BY <2>3, SamePackets DEF CallRenew, SimpleSendAndRead, Set, socket,
         Abstract!CallRenew, Abstract!Begin
    <3> QED BY <3>1 DEF Abstract!Next
  <2>4. CASE CallSendAndReadOne(c) \/ CallSimpleSendAndRead(c)
    <3>1. Abstract!CallUser(c)
      BY <2>4 DEF CallSendAndReadOne, CallSimpleSendAndRead, SimpleSendAndRead,
         Set, socket, Abstract!CallUser, Abstract!Begin
    <3> QED BY <3>1 DEF Abstract!Next
  <2>5. CASE RequestGoesOn(c)
    <3>1. Abstract!GoOn(c)
      BY <2>5, SamePackets DEF RequestGoesOn, SimpleSendAndRead, Set, socket,
         Abstract!GoOn, Abstract!Begin
    <3> QED BY <3>1 DEF Abstract!Next
  <2>6. CASE Return(c)
    <3>1. Abstract!Return(c)
      BY <2>6 DEF Return, Set, socket, Abstract!Return
    <3> QED BY <3>1 DEF Abstract!Next
  <2>7. CASE RecvResult(c)
    <3>1. Head(out[c]) \in AnswersTo(c)
      BY <2>7, HeadTail DEF RecvResult, Inv, ClientInv, PacketInv
    <3>2. Abstract!Succeed(c, Head(out[c]))
      BY <2>7, <3>1 DEF RecvResult, AnswersTo, Set, socket, WantsOffer,
         Abstract!Succeed, Abstract!Decide, Abstract!WantsOffer
    <3> QED BY <3>1, <3>2 DEF Abstract!Next, AnswersTo
  <2>8. CASE RecvClosed(c)
    <3> DEFINE err == IF errCh[c] = "nil" THEN "no packet" ELSE errCh[c]
    <3>1. err \in Err \ {"nil"}
      BY DEF Inv, TypeOK, Err
    <3>2. call[c] # "SimpleSendAndRead" => err # "Canceled"
      BY <2>8 DEF Inv, ClientInv, ContextInv, RecvClosed
    <3>3. call[c] # "SimpleSendAndRead" /\ err = "no packet" => WantsOffer(c)
      <4>1. err = "no packet" => accepted[c]
        BY <2>8 DEF Inv, ClientInv, AcceptedInv, ControlInv, RecvClosed, Ended
      <4>2. accepted[c] => call[c] \notin FirstPacket
        BY <2>8 DEF Inv, ClientInv, AcceptedInv, RecvClosed
      <4>3. call[c] \in Calls
        BY DEF Inv, TypeOK
      <4> QED BY <4>1, <4>2, <4>3 DEF Calls, FirstPacket, WantsOffer
    <3>4. Abstract!Decide(c, [err |-> err, pkt |-> NoPacket])
      BY <2>8 DEF RecvClosed, Set, socket, Abstract!Decide
    <3> HIDE DEF err
    <3>5. Abstract!Fail(c)
      BY <3>1, <3>2, <3>3, <3>4, SamePackets DEF Abstract!Fail,
         Abstract!WantsOffer, WantsOffer, Err
    <3> QED BY <3>5 DEF Abstract!Next
  <2>9. CASE \E p \in Arrivals : Arrive(c, p)
    <3>1. PICK p \in Arrivals : Arrive(c, p)
      BY <2>9
    <3>2. Abstract!Arrive(c, p)
      BY <3>1 DEF Arrive, Set, caller, Abstract!Arrive
    <3> QED BY <3>2 DEF Abstract!Next
  <2>10. CASE \/ RecvAndGoOn(c) \/ Goroutine(c)
              \/ TimerFires(c) \/ UserCtxDone(c) \/ Close(c)
    <3>1. caller' = caller /\ arrived' = arrived
      BY <2>10, Zenon DEF RecvAndGoOn, Goroutine, Reader, WriteTo, WriteError,
         OutOfTries, CheckLive, CheckDone, CheckTimeout, CheckCanceled,
         ReadTimeout, ReadError, ReadDiscard, ReadAccept, BlockedSend,
         BlockedDone, Finish, TimerFires, UserCtxDone, Close, socket
    <3> QED BY <3>1 DEF caller, Abstract!vars
  <2> QED BY <2>1, <2>2, <2>3, <2>4, <2>5, <2>6, <2>7, <2>8, <2>9, <2>10
          DEF Call, Caller
<1> QED BY <1>1, <1>2, Invariance, PTL DEF Spec, ImplementsExchange, Abstract!Spec
==============================================================================
