------------------------- MODULE WebsocketSession --------------------------
(***************************************************************************)
(* The websocket session with the H5000 CPU                                *)
(* (src/bg-websocket-session-class.cpp) and the part of the logger that    *)
(* makes the requests and takes the messages apart.                        *)
(*                                                                         *)
(* One thread runs the io_context: a handler runs to its end before the    *)
(* next completion is handled.  on_handshake is the exception made here:   *)
(* it calls send once per request, and each call is a step of its own, but *)
(* no other handler runs in between (phase "requesting").                  *)
(*                                                                         *)
(* Boost's resolver, stream and io_context, and the CPU behind them, are   *)
(* external: an asynchronous operation completes at any time after it was  *)
(* started, with or without an error code (BOOLEAN ec).                    *)
(***************************************************************************)
EXTENDS Integers, Sequences

CONSTANTS
    Batches,    \* the lists of data ids requested (9 in the code)
    TestFlags,  \* the values of -t to be checked
    Message     \* what ConstructJson makes of the messages the CPU sends

ASSUME BatchesAssumption == Batches \in Nat \ {0}
ASSUME TestFlagsAssumption == TestFlags \subseteq BOOLEAN

VARIABLES
    testFlag,   \* m_testFlag: the -t option
    phase,      \* the step of the connection cascade
    toRequest,  \* the requests on_handshake has yet to send
    queue,      \* m_queue
    writing,    \* messages whose async_write has not completed
    reading,    \* an async_read has not completed
    observed,   \* observations the last message gave to ProcessObservation
    failures,   \* the steps fail() has reported
    link,       \* external: the connection to the CPU
    sent,       \* external: messages the connection has taken
    exit        \* the exit code, or NotEnded

cascade == <<phase, toRequest>>
outgoing == <<queue, writing, sent>>
vars == <<testFlag, phase, toRequest, queue, writing, reading, observed,
          failures, link, sent, exit>>

Phase == {"resolving", "connecting", "handshaking", "requesting", "open", "failed"}

EXIT_SUCCESS == 0
NotEnded == -1

-----------------------------------------------------------------------------
(* The requests *)

Request == [kind : {"DataInfoReq", "DataReq"}, batch : 1 .. Batches]

\* RequestAllValues: information, then values, of every batch; in test mode
\* only the first of these.
RequestAllValues ==
    [i \in 1 .. IF testFlag THEN 1 ELSE 2 * Batches |->
        [kind  |-> IF i % 2 = 1 THEN "DataInfoReq" ELSE "DataReq",
         batch |-> (i + 1) \div 2]]

-----------------------------------------------------------------------------
(* The messages *)

IsMember(root, name) == name \in DOMAIN root

\* BgObservation takes an absent member `valid' for false.
IsValid(item) == IsMember(item, "valid") /\ item.valid

\* handleData: the valid items of an array.
HandleData(items) == SelectSeq(items, IsValid)

\* handleResponse: the observations it passes on to ProcessObservation.
HandleResponse(root) ==
    (IF IsMember(root, "Data") THEN HandleData(root.Data) ELSE <<>>)
        \o (IF IsMember(root, "Many") THEN HandleData(root.Many) ELSE <<>>)

-----------------------------------------------------------------------------
(* The handlers *)

Running == exit = NotEnded

\* The io_context is free to run a handler.
Handler == Running /\ phase # "requesting"

OnResolve(ec) ==
    /\ Handler /\ phase = "resolving"
    /\ phase' = IF ec THEN "failed" ELSE "connecting"
    /\ failures' = IF ec THEN failures \cup {"resolve"} ELSE failures
    /\ UNCHANGED <<testFlag, toRequest, outgoing, reading, observed, link, exit>>

\* Mutant of OnConnect: a failed connect begins the cascade again.
ConnectAgain(ec) ==
    /\ Handler /\ phase = "connecting"
    /\ phase' = IF ec THEN "resolving" ELSE "handshaking"
    /\ failures' = IF ec THEN failures \cup {"connect"} ELSE failures
    /\ link' = IF ec THEN link ELSE "up"
    /\ UNCHANGED <<testFlag, toRequest, outgoing, reading, observed, exit>>

OnConnect(ec) ==
    /\ Handler /\ phase = "connecting"
    /\ phase' = IF ec THEN "failed" ELSE "handshaking"
    /\ failures' = IF ec THEN failures \cup {"connect"} ELSE failures
    /\ link' = IF ec THEN link ELSE "up"
    /\ UNCHANGED <<testFlag, toRequest, outgoing, reading, observed, exit>>

OnHandshake(ec) ==
    /\ Handler /\ phase = "handshaking"
    /\ IF ec
       THEN /\ phase' = "failed"
            /\ failures' = failures \cup {"handshake"}
            /\ UNCHANGED toRequest
       ELSE /\ link = "up"
            /\ phase' = "requesting"
            /\ toRequest' = RequestAllValues
            /\ UNCHANGED failures
    /\ UNCHANGED <<testFlag, outgoing, reading, observed, link, exit>>

\* Mutant of Send: off by one in the test for an outstanding write.
SendTwice(m) ==
    /\ queue' = Append(queue, m)
    /\ writing' = IF Len(queue') > 2 THEN writing ELSE Append(writing, Head(queue'))

\* send: queue the message, and write it unless a write is outstanding.
Send(m) ==
    /\ queue' = Append(queue, m)
    /\ writing' = IF Len(queue') > 1 THEN writing ELSE Append(writing, Head(queue'))

\* on_handshake inside RequestAllValues: the next send.
RequestNext ==
    /\ Running /\ phase = "requesting"
    /\ toRequest # <<>>
    /\ Send(Head(toRequest))
    /\ toRequest' = Tail(toRequest)
    /\ UNCHANGED <<testFlag, phase, reading, observed, failures, link, sent, exit>>

\* The end of on_handshake: the first async_read.
StartReading ==
    /\ Running /\ phase = "requesting"
    /\ toRequest = <<>>
    /\ phase' = "open"
    /\ reading' = TRUE
    /\ UNCHANGED <<testFlag, toRequest, outgoing, observed, failures, link, exit>>

\* handleResponse of a message's text.  In test mode any message ends the
\* program.
HandleText(root) ==
    IF testFlag
    THEN exit' = EXIT_SUCCESS /\ UNCHANGED observed
    ELSE observed' = HandleResponse(root) /\ UNCHANGED exit

\* on_read with a message: handle it and read the next one.
OnMessage(root) ==
    /\ Handler /\ reading
    /\ HandleText(root)
    /\ UNCHANGED <<testFlag, cascade, outgoing, reading, failures, link>>

\* Mutant of OnReadError: the read is started again.
ReadAgain ==
    /\ Handler /\ reading
    /\ link = "down"
    /\ failures' = failures \cup {"read"}
    /\ UNCHANGED <<testFlag, cascade, outgoing, reading, observed, link, exit>>

\* on_read with an error: no further read.
OnReadError ==
    /\ Handler /\ reading
    /\ link = "down"
    /\ reading' = FALSE
    /\ failures' = failures \cup {"read"}
    /\ UNCHANGED <<testFlag, cascade, outgoing, observed, link, exit>>

\* Mutants of OnWrite: the next write is started before the completed message
\* is removed; the last message of the queue is taken for the completed one.
WriteBeforeErase ==
    /\ Handler /\ writing # <<>>
    /\ sent' = Append(sent, Head(writing))
    /\ queue' = Tail(queue)
    /\ writing' = Tail(writing) \o IF queue' # <<>> THEN <<Head(queue)>> ELSE <<>>
    /\ UNCHANGED <<testFlag, cascade, reading, observed, failures, link, exit>>

LeaveLast ==
    /\ Handler /\ writing # <<>>
    /\ sent' = Append(sent, Head(writing))
    /\ queue' = Tail(queue)
    /\ writing' = Tail(writing) \o IF Len(queue') > 1 THEN <<Head(queue')>> ELSE <<>>
    /\ UNCHANGED <<testFlag, cascade, reading, observed, failures, link, exit>>

\* on_write without an error: remove the message, start the next write.
OnWrite ==
    /\ Handler /\ writing # <<>>
    /\ sent' = Append(sent, Head(writing))
    /\ queue' = Tail(queue)
    /\ writing' = Tail(writing) \o IF queue' # <<>> THEN <<Head(queue')>> ELSE <<>>
    /\ UNCHANGED <<testFlag, cascade, reading, observed, failures, link, exit>>

\* on_write with an error: the message stays at the head of the queue, where
\* it holds up all others; no further write is ever started.
OnWriteError ==
    /\ Handler /\ writing # <<>>
    /\ link = "down"
    /\ writing' = Tail(writing)
    /\ failures' = failures \cup {"write"}
    /\ UNCHANGED <<testFlag, cascade, queue, sent, reading, observed, link, exit>>

\* ioc.run() returns when no operation is outstanding, and run() reports
\* success whatever has happened.
Return ==
    /\ Handler
    /\ phase \in {"open", "failed"}
    /\ ~reading /\ writing = <<>>
    /\ exit' = EXIT_SUCCESS
    /\ UNCHANGED <<testFlag, cascade, outgoing, reading, observed, failures, link>>

\* The CPU closes the connection, or it breaks.
LinkFails ==
    /\ Running /\ link = "up"
    /\ link' = "down"
    /\ UNCHANGED <<testFlag, cascade, outgoing, reading, observed, failures, exit>>

Init ==
    /\ testFlag \in TestFlags
    /\ phase = "resolving"
    /\ toRequest = <<>>
    /\ queue = <<>> /\ writing = <<>> /\ sent = <<>>
    /\ reading = FALSE
    /\ observed = <<>>
    /\ failures = {}
    /\ link = "none"
    /\ exit = NotEnded

Next ==
    \/ \E ec \in BOOLEAN : OnResolve(ec) \/ OnConnect(ec) \/ OnHandshake(ec)
    \/ RequestNext \/ StartReading
    \/ \E root \in Message : OnMessage(root)
    \/ OnReadError
    \/ OnWrite \/ OnWriteError
    \/ Return
    \/ LinkFails

Spec == Init /\ [][Next]_vars

(***************************************************************************)
(* What may be relied on to happen.  The thread runs every handler that is *)
(* ready.  Resolving ends (the resolver gives up), connecting and the      *)
(* handshake have time limits (5 s in on_resolve, the suggested websocket  *)
(* settings in on_connect), TCP gives up a write that is not acknowledged, *)
(* and a pending read fails once the connection is known to be gone.       *)
(* Nothing makes the CPU send a message, or a silent connection fail.      *)
(***************************************************************************)
Fairness ==
    /\ WF_vars(\E ec \in BOOLEAN : OnResolve(ec))
    /\ WF_vars(\E ec \in BOOLEAN : OnConnect(ec))
    /\ WF_vars(\E ec \in BOOLEAN : OnHandshake(ec))
    /\ WF_vars(RequestNext)
    /\ WF_vars(StartReading)
    /\ WF_vars(OnReadError)
    /\ WF_vars(OnWrite \/ OnWriteError)
    /\ WF_vars(Return)

FairSpec == Spec /\ Fairness

-----------------------------------------------------------------------------
(* Properties *)

TypeOK ==
    /\ testFlag \in TestFlags
    /\ phase \in Phase
    /\ toRequest \in Seq(Request)
    /\ queue \in Seq(Request)
    /\ writing \in Seq(Request)
    /\ reading \in BOOLEAN
    /\ observed \in {<<>>} \cup {HandleResponse(root) : root \in Message}
    /\ failures \subseteq {"resolve", "connect", "handshake", "read", "write"}
    /\ link \in {"none", "up", "down"}
    /\ sent \in Seq(Request)
    /\ exit \in {NotEnded, EXIT_SUCCESS}

(***************************************************************************)
(* At most one async_write is outstanding, whatever is queued while it is  *)
(* (Beast requires it; the test of m_queue.size() in send is to see to it).*)
(***************************************************************************)
OneWriteInFlight == Len(writing) <= 1

(***************************************************************************)
(* The bytes an outstanding async_write refers to belong to a message that *)
(* is still in m_queue, whose shared_ptr keeps them alive (send, on_write).*)
(***************************************************************************)
WriteBufferAlive ==
    \A i \in 1 .. Len(writing) : \E j \in 1 .. Len(queue) : writing[i] = queue[j]

(***************************************************************************)
(* The invariant of the proofs: nothing is queued or written before the    *)
(* handshake; from then on every request is sent, queued or still to be    *)
(* queued, once and in order; the outstanding write is of the queue's      *)
(* head.                                                                   *)
(***************************************************************************)
IInv ==
    /\ TypeOK
    /\ phase = "requesting" \/ toRequest = <<>>
    /\ IF phase \in {"requesting", "open"}
       THEN sent \o queue \o toRequest = RequestAllValues
       ELSE queue = <<>> /\ sent = <<>>
    /\ writing # <<>> => queue # <<>> /\ writing = <<queue[1]>>

\* What has been requested so far is what was sent and what is queued.
Outbound == INSTANCE OutboundQueue WITH requested <- sent \o queue

(***************************************************************************)
(* The session implements the queue it promises: requests reach the        *)
(* connection in order, none twice and none skipped, also when a write     *)
(* fails (send, on_write).                                                 *)
(***************************************************************************)
SentInOrder == Outbound!Spec

(***************************************************************************)
(* The program gets as far as an open session or ends, also when a step of *)
(* the cascade fails (on_resolve, on_connect, on_handshake).               *)
(***************************************************************************)
StartSettles == <>(phase = "open" \/ ~Running)

(***************************************************************************)
(* Once the connection is gone run() returns, "when the socket is closed"  *)
(* (h5000-logger-class.cpp:83), whatever reads and writes were outstanding.*)
(***************************************************************************)
ClosedEnds == link = "down" ~> ~Running

(***************************************************************************)
(* While the connection lasts every request is eventually made: on_write   *)
(* keeps the queue moving.                                                 *)
(***************************************************************************)
AllRequested ==
    phase = "open" ~> sent = RequestAllValues \/ link = "down" \/ ~Running
=============================================================================
