--------------------------- MODULE OutboundQueue ---------------------------
(***************************************************************************)
(* What BgWebsocketSession::send promises the logger: the messages go out  *)
(* to the CPU one by one, in the order they were sent, none twice and none *)
(* skipped.  (It does not promise that they all go out.)                   *)
(***************************************************************************)
EXTENDS Integers, Sequences

CONSTANT Request

VARIABLES
    requested,  \* everything the logger asked to send
    sent        \* everything written to the connection

Init == requested = <<>> /\ sent = <<>>

Ask ==
    /\ \E r \in Request : requested' = Append(requested, r)
    /\ UNCHANGED sent

Transmit ==
    /\ Len(sent) < Len(requested)
    /\ sent' = Append(sent, requested[Len(sent) + 1])
    /\ UNCHANGED requested

Next == Ask \/ Transmit

Spec == Init /\ [][Next]_<<requested, sent>>
=============================================================================
