----------------------------- MODULE DatagramPort -----------------------------
(***************************************************************************)
(* What net.PacketConn promises of a UDP socket, for one reader: the       *)
(* datagrams for the socket's address wait in the order of their arrival,  *)
(* and a call of ReadFrom takes the first one or fails.  Nothing else      *)
(* arrives here, and nothing that waits is dropped or altered.             *)
(***************************************************************************)
EXTENDS Naturals, Sequences

CONSTANTS Datagrams, NoResult, ReadError

VARIABLES inbox,      \* the datagrams for the socket's address
          ret         \* the result of the last call, NoResult while it runs

portVars == <<inbox, ret>>

Init == inbox = <<>> /\ ret = NoResult

Arrive ==
  /\ Len(inbox') = Len(inbox) + 1
  /\ inbox'[Len(inbox')] \in Datagrams
  /\ inbox' = Append(inbox, inbox'[Len(inbox')])
  /\ UNCHANGED ret

Call == ret' = NoResult /\ UNCHANGED inbox

Receive ==
  /\ ret = NoResult
  /\ inbox # <<>>
  /\ ret' = Head(inbox)
  /\ inbox' = Tail(inbox)

Fail == ret = NoResult /\ ret' = ReadError /\ UNCHANGED inbox

Next == Arrive \/ Call \/ Receive \/ Fail

Spec == Init /\ [][Next]_portVars
==============================================================================
