-------------------------------- MODULE Client --------------------------------
(***************************************************************************)
(* dhcp4client/client.go: the calls of a DHCP client.  A call runs on two  *)
(* goroutines: the caller, which starts an exchange and then receives from *)
(* the channel out, and the one SimpleSendAndRead spawns, which sends the  *)
(* packet, reads the connection and feeds out.  They share out, errCh, a   *)
(* context and a WaitGroup; the network and the clock interleave freely.   *)
(***************************************************************************)
EXTENDS ClientPackets, Sequences

CONSTANTS HasIface,    \* clients were made with an interface (not New(nil))
          Retry,       \* Client.retry; negative: forever
          OutCap,      \* 10: capacity of out
          InboxCap,    \* bound: packets waiting in a socket
          MaxSends,    \* bound: where the count of transmissions saturates
          UserPacket,  \* packets handed to SendAndReadOne, SimpleSendAndRead
          Arrivals     \* packets that may arrive

ASSUME ClientAssumption ==
  /\ HasIface \in BOOLEAN
  /\ Retry \in Int
  /\ OutCap \in Nat \ {0}
  /\ InboxCap \in Nat
  /\ MaxSends \in Nat /\ MaxSends > Retry
  /\ UserPacket \subseteq Packet
  /\ Arrivals \subseteq Packet

VARIABLES
  pc,        \* caller: "idle", "recv" (on out), "join" (cancelled, in wg.Wait)
  call,      \* which call is running
  req,       \* the packet of the current exchange
  result,    \* what the call returns
  ctx,       \* the exchange's context: "live" or its Err()
  gpc,       \* reader goroutine: see Goroutine below
  tctx,      \* timeoutCtx of the current attempt, like ctx
  tries,     \* retryFn's i
  got,       \* numPackets > 0
  held,      \* clientPkt, while the send on out blocks
  out,       \* contents of the channel out
  errCh,     \* contents of errCh; "nil" when empty
  inbox,     \* packets the connection has received and nobody has read
  closed,    \* the connection is closed
  sends,     \* history: transmissions in this exchange
  accepted,  \* history: a packet with the right ID was read in this exchange
  arrived    \* history: the packets that have ever reached the connection

caller == <<pc, call, req, result>>
attempt == <<tctx, tries, got, held>>
history == <<sends, accepted>>
socket == <<inbox, closed, arrived>>
vars == <<caller, ctx, gpc, attempt, out, errCh, socket, history>>

CallerState == {"idle", "recv", "join"}
GoroutineState == {"off", "write", "check", "read", "block",
                   "closeOut", "closeErr", "done", "panic"}
CtxState == {"live", "Canceled", "DeadlineExceeded"}

TypeOK ==
  /\ pc \in [Client -> CallerState]
  /\ call \in [Client -> Calls]
  /\ req \in [Client -> Packet]
  /\ result \in [Client -> Result]
  /\ ctx \in [Client -> CtxState]
  /\ gpc \in [Client -> GoroutineState]
  /\ tctx \in [Client -> CtxState]
  /\ tries \in [Client -> Nat]
  /\ got \in [Client -> BOOLEAN]
  /\ held \in [Client -> Packet]
  /\ out \in [Client -> Seq(Packet)]
  /\ \A c \in Client : Len(out[c]) <= OutCap
  /\ errCh \in [Client -> Err]
  /\ inbox \in [Client -> Seq(Packet)]
  /\ closed \in [Client -> BOOLEAN]
  /\ sends \in [Client -> 0 .. MaxSends]
  /\ accepted \in [Client -> BOOLEAN]
  /\ arrived \in [Client -> SUBSET Packet]

Init ==
  /\ pc = [c \in Client |-> "idle"]
  /\ call = [c \in Client |-> "DiscoverOffer"]
  /\ req = [c \in Client |-> NoPacket]
  /\ result = [c \in Client |-> [err |-> "no packet", pkt |-> NoPacket]]
  /\ ctx = [c \in Client |-> "live"]
  /\ gpc = [c \in Client |-> "off"]
  /\ tctx = [c \in Client |-> "live"]
  /\ tries = [c \in Client |-> 0]
  /\ got = [c \in Client |-> FALSE]
  /\ held = [c \in Client |-> NoPacket]
  /\ out = [c \in Client |-> <<>>]
  /\ errCh = [c \in Client |-> "nil"]
  /\ inbox = [c \in Client |-> <<>>]
  /\ closed = [c \in Client |-> FALSE]
  /\ sends = [c \in Client |-> 0]
  /\ accepted = [c \in Client |-> FALSE]
  /\ arrived = [c \in Client |-> {}]

Set(f, c, v) == [f EXCEPT ![c] = v]

------------------------------------------------------------------------------
(* The caller.                                                             *)

\* SimpleSendAndRead: fresh channels and context, and the goroutine starts.
\* The socket is not drained: what is in inbox stays there.
SimpleSendAndRead(c, name, p) ==
  /\ pc' = Set(pc, c, "recv")
  /\ call' = Set(call, c, name)
  /\ req' = Set(req, c, p)
  /\ ctx' = Set(ctx, c, "live")
  /\ gpc' = Set(gpc, c, "write")
  /\ tctx' = Set(tctx, c, "live")
  /\ tries' = Set(tries, c, 0)
  /\ got' = Set(got, c, FALSE)
  /\ held' = Set(held, c, NoPacket)
  /\ out' = Set(out, c, <<>>)
  /\ errCh' = Set(errCh, c, "nil")
  /\ sends' = Set(sends, c, 0)
  /\ accepted' = Set(accepted, c, FALSE)
  /\ UNCHANGED <<result, socket>>

CallDiscoverOffer(c) ==
  /\ pc[c] = "idle"
  /\ HasIface
  /\ SimpleSendAndRead(c, "DiscoverOffer", DiscoverPacket(c))

CallRequest(c) ==
  /\ pc[c] = "idle"
  /\ HasIface
  /\ SimpleSendAndRead(c, "RequestDiscover", DiscoverPacket(c))

\* Renew with the packet the last call returned, if it returned one.
CallRenew(c) ==
  /\ pc[c] = "idle"
  /\ HasIface
  /\ result[c].err = "nil"
  /\ SimpleSendAndRead(c, "Renew", RequestPacket(c, result[c].pkt))

CallSendAndReadOne(c) ==
  /\ pc[c] = "idle"
  /\ \E p \in UserPacket : SimpleSendAndRead(c, "SendAndReadOne", p)

\* A user of the library who, like the example in the doc comment, receives
\* until out is closed, finds none of the packets worth returning, and may
\* cancel the context or have given it a deadline.
CallSimpleSendAndRead(c) ==
  /\ pc[c] = "idle"
  /\ \E p \in UserPacket : SimpleSendAndRead(c, "SimpleSendAndRead", p)

\* Mutant: wait for the goroutine first, cancel afterwards.
cancelLater(c) == UNCHANGED <<ctx, tctx>>

\* A context keeps the error it was done with first; timeoutCtx is a child.
cancel(c) ==
  /\ ctx' = Set(ctx, c, IF ctx[c] = "live" THEN "Canceled" ELSE ctx[c])
  /\ tctx' = Set(tctx, c, IF tctx[c] = "live" THEN "Canceled" ELSE tctx[c])

WantsOffer(c) == call[c] \in {"DiscoverOffer", "RequestDiscover"}

\* DiscoverOffer passes over a packet which is not an offer; a user of
\* SimpleSendAndRead goes on to the next packet.
RecvAndGoOn(c) ==
  /\ pc[c] = "recv"
  /\ out[c] # <<>>
  /\ \/ WantsOffer(c) /\ Head(out[c]).typ # "Offer"
     \/ call[c] = "SimpleSendAndRead"
  /\ out' = Set(out, c, Tail(out[c]))
  /\ UNCHANGED <<caller, ctx, gpc, attempt, errCh, socket, history>>

\* The packet to return; the deferred function cancels and then waits.
RecvResult(c) ==
  /\ pc[c] = "recv"
  /\ out[c] # <<>>
  /\ WantsOffer(c) => Head(out[c]).typ = "Offer"
  /\ call[c] # "SimpleSendAndRead"
  /\ result' = Set(result, c, [err |-> "nil", pkt |-> Head(out[c])])
  /\ out' = Set(out, c, Tail(out[c]))
  /\ pc' = Set(pc, c, "join")
  /\ cancel(c)
  /\ UNCHANGED <<call, req, gpc, tries, got, held, errCh, socket, history>>

\* out is closed and empty; errCh yields its error, or is closed empty.
RecvClosed(c) ==
  /\ pc[c] = "recv"
  /\ out[c] = <<>>
  /\ \/ gpc[c] = "closeErr" /\ errCh[c] # "nil"
     \/ gpc[c] \in {"done", "off"}
  /\ result' = Set(result, c,
       [err |-> IF errCh[c] = "nil" THEN "no packet" ELSE errCh[c],
        pkt |-> NoPacket])
  /\ pc' = Set(pc, c, "join")
  /\ cancel(c)
  /\ UNCHANGED <<call, req, gpc, tries, got, held, out, errCh, socket, history>>

\* Mutant: the call returns without waiting for the goroutine.
ReturnEarly(c) ==
  /\ pc[c] = "join"
  /\ ~(call[c] = "RequestDiscover" /\ result[c].err = "nil")
  /\ pc' = Set(pc, c, "idle")
  /\ UNCHANGED <<call, req, result, ctx, gpc, attempt, out, errCh, socket, history>>

\* wg.Wait is over: the call returns, ...
Return(c) ==
  /\ pc[c] = "join"
  /\ gpc[c] = "off"
  /\ ~(call[c] = "RequestDiscover" /\ result[c].err = "nil")
  /\ pc' = Set(pc, c, "idle")
  /\ UNCHANGED <<call, req, result, ctx, gpc, attempt, out, errCh, socket, history>>

\* ... or Request goes on with the offer it got.
RequestGoesOn(c) ==
  /\ pc[c] = "join"
  /\ gpc[c] = "off"
  /\ call[c] = "RequestDiscover"
  /\ result[c].err = "nil"
  /\ SimpleSendAndRead(c, "RequestRequest", RequestPacket(c, result[c].pkt))

Caller(c) == RecvAndGoOn(c) \/ RecvResult(c) \/ RecvClosed(c) \/ Return(c) \/ RequestGoesOn(c)

------------------------------------------------------------------------------
(* The goroutine of SimpleSendAndRead.  gpc is where sendAndRead stands:   *)
(* "write" at the head of retryFn's loop, "check" at the head of the read  *)
(* loop, "read" in ReadFrom, "block" in the send on a full out, then       *)
(* "closeOut", "closeErr" and "done" before close(out), close(errOut) and  *)
(* wg.Done.                                                                *)

\* Mutant: one attempt too many.
mayTryTwiceMore(c) == tries[c] <= Retry \/ Retry < 0

mayTry(c) == tries[c] < Retry \/ Retry < 0

\* sendAndRead returns err, which goes to errCh (never full: capacity 1).
leave(c, err) ==
  /\ gpc' = Set(gpc, c, "closeOut")
  /\ errCh' = Set(errCh, c, err)

\* fn returns DeadlineExceeded and retryFn goes round.  (Its counter is not
\* read when Retry < 0, and is then left at 0.)
tryAgain(c) ==
  /\ gpc' = Set(gpc, c, "write")
  /\ tries' = Set(tries, c, IF Retry < 0 THEN 0 ELSE tries[c] + 1)

\* retryFn calls fn: the packet goes out, timeoutCtx is derived from ctx.
WriteTo(c) ==
  /\ gpc[c] = "write"
  /\ mayTry(c)
  /\ ~closed[c]
  /\ gpc' = Set(gpc, c, "check")
  /\ tctx' = Set(tctx, c, ctx[c])
  /\ got' = Set(got, c, FALSE)
  /\ sends' = Set(sends, c, IF sends[c] < MaxSends THEN sends[c] + 1 ELSE sends[c])
  /\ UNCHANGED <<caller, ctx, tries, held, out, errCh, socket, accepted>>

WriteError(c) ==
  /\ gpc[c] = "write"
  /\ mayTry(c)
  /\ leave(c, "write")
  /\ UNCHANGED <<caller, ctx, attempt, out, socket, history>>

OutOfTries(c) ==
  /\ gpc[c] = "write"
  /\ ~mayTry(c)
  /\ leave(c, "DeadlineExceeded")
  /\ UNCHANGED <<caller, ctx, attempt, out, socket, history>>

CheckLive(c) ==
  /\ gpc[c] = "check"
  /\ tctx[c] = "live"
  /\ gpc' = Set(gpc, c, "read")
  /\ UNCHANGED <<caller, ctx, attempt, out, errCh, socket, history>>

\* Mutant: a done context is success even if nothing was received.
CheckDoneEmpty(c) ==
  /\ gpc[c] = "check"
  /\ tctx[c] # "live"
  /\ leave(c, "nil")
  /\ UNCHANGED <<caller, ctx, attempt, out, socket, history>>

\* Something was received: done, without error.
CheckDone(c) ==
  /\ gpc[c] = "check"
  /\ tctx[c] # "live"
  /\ got[c]
  /\ leave(c, "nil")
  /\ UNCHANGED <<caller, ctx, attempt, out, socket, history>>

\* Mutant: the packets received before the timeout are forgotten.
CheckTimeoutAlways(c) ==
  /\ gpc[c] = "check"
  /\ tctx[c] = "DeadlineExceeded"
  /\ tryAgain(c)
  /\ UNCHANGED <<caller, ctx, tctx, got, held, out, errCh, socket, history>>

\* The attempt timed out.
CheckTimeout(c) ==
  /\ gpc[c] = "check"
  /\ tctx[c] = "DeadlineExceeded"
  /\ ~got[c]
  /\ tryAgain(c)
  /\ UNCHANGED <<caller, ctx, tctx, got, held, out, errCh, socket, history>>

CheckCanceled(c) ==
  /\ gpc[c] = "check"
  /\ tctx[c] = "Canceled"
  /\ ~got[c]
  /\ leave(c, "Canceled")
  /\ UNCHANGED <<caller, ctx, attempt, out, socket, history>>

\* 100 ms without a packet.
ReadTimeout(c) ==
  /\ gpc[c] = "read"
  /\ ~closed[c]
  /\ inbox[c] = <<>>
  /\ gpc' = Set(gpc, c, "check")
  /\ UNCHANGED <<caller, ctx, attempt, out, errCh, socket, history>>

ReadError(c) ==
  /\ gpc[c] = "read"
  /\ leave(c, "read")
  /\ UNCHANGED <<caller, ctx, attempt, out, socket, history>>

\* Mutant: any packet will do.
matchesAny(c, p) == p.typ # "invalid"

matches(c, p) == p.typ # "invalid" /\ p.xid = req[c].xid

\* Not DHCP, or another transaction ID: read on.  In the second case the
\* hardware address of the interface is looked at, without effect but for the
\* dereference of a nil interface.
ReadDiscard(c) ==
  /\ gpc[c] = "read"
  /\ ~closed[c]
  /\ inbox[c] # <<>>
  /\ ~matches(c, Head(inbox[c]))
  /\ inbox' = Set(inbox, c, Tail(inbox[c]))
  /\ gpc' = Set(gpc, c, IF Head(inbox[c]).typ # "invalid" /\ ~HasIface
                        THEN "panic" ELSE "check")
  /\ UNCHANGED <<caller, ctx, attempt, out, errCh, closed, arrived, history>>

\* Mutant: the channel takes any number of packets.
ReadAcceptUnbounded(c) ==
  /\ gpc[c] = "read"
  /\ ~closed[c]
  /\ inbox[c] # <<>>
  /\ matches(c, Head(inbox[c]))
  /\ inbox' = Set(inbox, c, Tail(inbox[c]))
  /\ got' = Set(got, c, TRUE)
  /\ accepted' = Set(accepted, c, TRUE)
  /\ gpc' = Set(gpc, c, "check")
  /\ out' = Set(out, c, Append(out[c], Head(inbox[c])))
  /\ UNCHANGED <<caller, ctx, tctx, tries, held, errCh, closed, arrived, sends>>

\* A response: sent on out at once if there is room.
ReadAccept(c) ==
  /\ gpc[c] = "read"
  /\ ~closed[c]
  /\ inbox[c] # <<>>
  /\ matches(c, Head(inbox[c]))
  /\ inbox' = Set(inbox, c, Tail(inbox[c]))
  /\ got' = Set(got, c, TRUE)
  /\ accepted' = Set(accepted, c, TRUE)
  /\ \/ /\ Len(out[c]) < OutCap
        /\ out' = Set(out, c, Append(out[c], Head(inbox[c])))
        /\ gpc' = Set(gpc, c, "check")
        /\ UNCHANGED held
     \/ /\ Len(out[c]) >= OutCap
        /\ held' = Set(held, c, Head(inbox[c]))
        /\ gpc' = Set(gpc, c, "block")
        /\ UNCHANGED out
  /\ UNCHANGED <<caller, ctx, tctx, tries, errCh, closed, arrived, sends>>

\* The blocked send: room on out, or the parent context is done and the
\* packet is dropped; either may be chosen when both hold.  A parent context
\* whose deadline has passed looks to retryFn like an attempt timed out.
BlockedSend(c) ==
  /\ gpc[c] = "block"
  /\ Len(out[c]) < OutCap
  /\ out' = Set(out, c, Append(out[c], held[c]))
  /\ gpc' = Set(gpc, c, "check")
  /\ UNCHANGED <<caller, ctx, attempt, errCh, socket, history>>

BlockedDone(c) ==
  /\ gpc[c] = "block"
  /\ \/ /\ ctx[c] = "Canceled"
        /\ leave(c, "Canceled")
        /\ UNCHANGED tries
     \/ /\ ctx[c] = "DeadlineExceeded"
        /\ tryAgain(c)
        /\ UNCHANGED errCh
  /\ UNCHANGED <<caller, ctx, tctx, got, held, out, socket, history>>

\* close(out), close(errOut), wg.Done
Finish(c) ==
  /\ \/ gpc[c] = "closeOut" /\ gpc' = Set(gpc, c, "closeErr")
     \/ gpc[c] = "closeErr" /\ gpc' = Set(gpc, c, "done")
     \/ gpc[c] = "done" /\ gpc' = Set(gpc, c, "off")
  /\ UNCHANGED <<caller, ctx, attempt, out, errCh, socket, history>>

\* Everything the goroutine does except the write.
Reader(c) ==
  \/ WriteError(c) \/ OutOfTries(c)
  \/ CheckLive(c) \/ CheckDone(c) \/ CheckTimeout(c) \/ CheckCanceled(c)
  \/ ReadTimeout(c) \/ ReadError(c) \/ ReadDiscard(c) \/ ReadAccept(c)
  \/ BlockedSend(c) \/ BlockedDone(c)
  \/ Finish(c)

Goroutine(c) == WriteTo(c) \/ Reader(c)

------------------------------------------------------------------------------
(* Clock, user and network.                                                *)

\* c.timeout has passed since the attempt began.
TimerFires(c) ==
  /\ gpc[c] \in {"check", "read", "block"}
  /\ tctx[c] = "live"
  /\ tctx' = Set(tctx, c, "DeadlineExceeded")
  /\ UNCHANGED <<caller, ctx, gpc, tries, got, held, out, errCh, socket, history>>

\* The context given to SimpleSendAndRead is cancelled or its deadline passes.
UserCtxDone(c) ==
  /\ pc[c] = "recv"
  /\ call[c] = "SimpleSendAndRead"
  /\ ctx[c] = "live"
  /\ \E err \in {"Canceled", "DeadlineExceeded"} :
       /\ ctx' = Set(ctx, c, err)
       /\ tctx' = Set(tctx, c, IF tctx[c] = "live" THEN err ELSE tctx[c])
  /\ UNCHANGED <<caller, gpc, tries, got, held, out, errCh, socket, history>>

\* Close, which may be called while a call is running.
Close(c) ==
  /\ ~closed[c]
  /\ closed' = Set(closed, c, TRUE)
  /\ UNCHANGED <<caller, ctx, gpc, attempt, out, errCh, inbox, arrived, history>>

\* A packet reaches the socket.  It may answer this exchange, an earlier one,
\* or nothing at all.
Arrive(c, p) ==
  /\ ~closed[c]
  /\ Len(inbox[c]) < InboxCap
  /\ inbox' = Set(inbox, c, Append(inbox[c], p))
  /\ arrived' = Set(arrived, c, arrived[c] \cup {p})
  /\ UNCHANGED <<caller, ctx, gpc, attempt, out, errCh, closed, history>>

Call(c) ==
  \/ CallDiscoverOffer(c) \/ CallRequest(c) \/ CallRenew(c)
  \/ CallSendAndReadOne(c) \/ CallSimpleSendAndRead(c)

Next ==
  \E c \in Client :
    \/ Call(c) \/ Caller(c) \/ Goroutine(c)
    \/ TimerFires(c) \/ UserCtxDone(c) \/ Close(c)
    \/ \E p \in Arrivals : Arrive(c, p)

Spec == Init /\ [][Next]_vars

\* Both goroutines are scheduled and the clock runs.  Nothing is assumed of
\* the network or of the user.
FairSpec ==
  /\ Spec
  /\ \A c \in Client : /\ WF_vars(Caller(c))
                       /\ WF_vars(Goroutine(c))
                       /\ WF_vars(TimerFires(c))

------------------------------------------------------------------------------
(* Properties *)

\* Nothing is read from the connection while no call is running: the goroutine
\* of a call that has returned cannot take the response to the next packet,
\* which is what the comment of SimpleSendAndRead warns of.
NothingReadBetweenCalls ==
  [][\A c \in Client : pc[c] = "idle" => Len(inbox'[c]) >= Len(inbox[c])]_vars

\* What a call is about to return, and everything queued for it, carries the
\* transaction ID of the packet that was sent; DiscoverOffer returns an offer.
ResponseMatchesRequest ==
  \A c \in Client :
    /\ pc[c] # "idle" => \A k \in DOMAIN out[c] : out[c][k].xid = req[c].xid
    /\ pc[c] = "join" /\ result[c].err = "nil" =>
         /\ result[c].pkt.xid = req[c].xid
         /\ WantsOffer(c) => result[c].pkt.typ = "Offer"

\* A call ends with DeadlineExceeded only after sending its packet Retry
\* times and reading no response to any of them.
TimeoutMeansSilence ==
  \A c \in Client :
    pc[c] = "join" /\ result[c].err = "DeadlineExceeded"
                   /\ call[c] # "SimpleSendAndRead" =>
      sends[c] = Retry /\ ~accepted[c]

\* The last return statements: SendAndReadOne never gets to "no packet
\* received", and DiscoverOffer's "didn't get a packet" means that responses
\* came, none of them an offer.  No call fails by its own cancellation.
EmptyHandedExplained ==
  \A c \in Client :
    pc[c] = "join" /\ call[c] # "SimpleSendAndRead" =>
      /\ result[c].err # "Canceled"
      /\ result[c].err = "no packet" => WantsOffer(c) /\ accepted[c]

\* The packet is not sent again once a response to it has been read, but for
\* a user whose own deadline passes while the send on a full out blocks.
NoRetransmitAfterResponse ==
  [][\A c \in Client :
       sends'[c] > sends[c] => ~accepted[c] \/ ctx[c] = "DeadlineExceeded"]_vars

\* Seen by its callers the client is the abstract exchange: goroutines,
\* channels, timers and retries show only as the choice of packet or error.
Abstract == INSTANCE Exchange
ImplementsExchange == Abstract!Spec

\* Every call returns: neither the full channel nor wg.Wait can hang it, with
\* packets arriving at any time, or none, and the connection failing or not.
EveryCallReturns == \A c \in Client : pc[c] # "idle" ~> pc[c] = "idle"

\* A client without an interface discards foreign packets like any other.
NoPanic == \A c \in Client : gpc[c] # "panic"

\* SendAndRead ends once its context is done.
DoneContextEnds == \A c \in Client : ctx[c] # "live" ~> gpc[c] = "off"
==============================================================================
