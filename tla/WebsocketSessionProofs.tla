----------------------- MODULE WebsocketSessionProofs ----------------------
(***************************************************************************)
(* What holds of the websocket session for any number of request batches,  *)
(* any messages and any failures, at any moment.                           *)
(***************************************************************************)
EXTENDS WebsocketSession, TLAPS

-----------------------------------------------------------------------------
(* Sequences *)

\* The head of one sequence may move to the end of the one before it: what
\* RequestNext does with toRequest and queue, and OnWrite with queue and sent.
LEMMA MoveHead ==
    ASSUME NEW S, NEW s \in Seq(S), NEW t \in Seq(S), t # <<>>
    PROVE  /\ Head(t) \in S /\ Tail(t) \in Seq(S)
           /\ Append(s, Head(t)) \in Seq(S)
           /\ Append(s, Head(t)) \o Tail(t) = s \o t
  <1>1. Head(t) \in S /\ Tail(t) \in Seq(S) /\ Append(s, Head(t)) \in Seq(S)
    OBVIOUS
  <1>2. Len(Append(s, Head(t)) \o Tail(t)) = Len(s \o t)
    OBVIOUS
  <1>3. \A i \in 1 .. Len(s \o t) : (Append(s, Head(t)) \o Tail(t))[i] = (s \o t)[i]
    OBVIOUS
  <1>4. Append(s, Head(t)) \o Tail(t) \in Seq(S) /\ s \o t \in Seq(S)
    BY <1>1
  <1> QED BY <1>1, <1>2, <1>3, <1>4

\* Appending to the second of three sequences, and concatenating to the left.
LEMMA AppendInside ==
    ASSUME NEW S, NEW s \in Seq(S), NEW t \in Seq(S), NEW e \in S
    PROVE  s \o Append(t, e) = Append(s \o t, e)
  <1>1. Len(s \o Append(t, e)) = Len(Append(s \o t, e))
    OBVIOUS
  <1>2. \A i \in 1 .. Len(s \o Append(t, e)) :
            (s \o Append(t, e))[i] = Append(s \o t, e)[i]
    OBVIOUS
  <1>3. s \o Append(t, e) \in Seq(S) /\ Append(s \o t, e) \in Seq(S)
    OBVIOUS
  <1> QED BY <1>1, <1>2, <1>3

\* The requests form a sequence.
LEMMA RequestsTyped ==
    ASSUME testFlag \in BOOLEAN
    PROVE  RequestAllValues \in Seq(Request)
  <1> DEFINE n == IF testFlag THEN 1 ELSE 2 * Batches
  <1>1. n \in Nat /\ (n = 1 \/ n = 2 * Batches) /\ Batches >= 1 /\ Batches \in Nat
    BY BatchesAssumption
  <1>2. ASSUME NEW i \in 1 .. n
        PROVE  [kind  |-> IF i % 2 = 1 THEN "DataInfoReq" ELSE "DataReq",
                batch |-> (i + 1) \div 2] \in Request
    <2>1. (i + 1) \div 2 \in 1 .. Batches
      BY <1>1, <1>2
    <2> QED BY <2>1 DEF Request
  <1>3. RequestAllValues \in [1 .. n -> Request]
    BY <1>2 DEF RequestAllValues
  <1> QED BY <1>1, <1>3

-----------------------------------------------------------------------------
(* The invariant *)

USE DEF Handler, Running, HandleText, cascade, outgoing

LEMMA InitInvariant == Init => IInv
  <1> SUFFICES ASSUME Init PROVE IInv
    OBVIOUS
  <1>1. /\ <<>> \in Seq(Request) /\ <<>> \in {<<>>} \cup {HandleResponse(root) : root \in Message}
        /\ {} \subseteq {"resolve", "connect", "handshake", "read", "write"}
    OBVIOUS
  <1>2. TypeOK
    BY <1>1 DEF Init, TypeOK, Phase
  <1> QED BY <1>2 DEF Init, IInv

\* Steps that leave the requests where they are.
LEMMA OtherSteps ==
    ASSUME IInv,
           \/ \E ec \in BOOLEAN : OnResolve(ec) \/ OnConnect(ec)
           \/ \E root \in Message : OnMessage(root)
           \/ OnReadError \/ Return \/ LinkFails
    PROVE  IInv'
  <1>1. TypeOK'
    BY DEF IInv, TypeOK, OnResolve, OnConnect, OnMessage, OnReadError, Return, LinkFails, Phase
  <1>2. UNCHANGED <<testFlag, toRequest, queue, writing, sent>>
    BY DEF OnResolve, OnConnect, OnMessage, OnReadError, Return, LinkFails
  <1>3. RequestAllValues' = RequestAllValues
    BY <1>2 DEF RequestAllValues
  <1>4. \/ phase' = phase
        \/ {phase, phase'} \cap {"requesting", "open"} = {}
    BY DEF OnResolve, OnConnect, OnMessage, OnReadError, Return, LinkFails
  <1> QED BY <1>1, <1>2, <1>3, <1>4 DEF IInv

LEMMA HandshakeStep ==
    ASSUME IInv, NEW ec \in BOOLEAN, OnHandshake(ec)
    PROVE  IInv'
  <1>1. RequestAllValues' = RequestAllValues
    BY DEF OnHandshake, RequestAllValues
  <1>2. RequestAllValues \in Seq(Request)
    BY RequestsTyped, TestFlagsAssumption DEF IInv, TypeOK
  <1>3. TypeOK'
    BY <1>2 DEF IInv, TypeOK, OnHandshake, Phase
  <1>4. queue = <<>> /\ sent = <<>> /\ toRequest = <<>> /\ writing = <<>>
    BY DEF IInv, OnHandshake
  <1>5. <<>> \o <<>> \o RequestAllValues = RequestAllValues
    BY <1>2
  <1> QED BY <1>1, <1>3, <1>4, <1>5 DEF IInv, OnHandshake

LEMMA RequestStep ==
    ASSUME IInv, RequestNext
    PROVE  IInv'
  <1> DEFINE h == Head(toRequest)
  <1>1. /\ sent \in Seq(Request) /\ queue \in Seq(Request) /\ toRequest \in Seq(Request)
        /\ writing \in Seq(Request)
        /\ sent \o queue \in Seq(Request)
    BY DEF IInv, TypeOK
  <1>2. /\ h \in Request /\ toRequest' \in Seq(Request)
        /\ Append(sent \o queue, h) \o toRequest' = (sent \o queue) \o toRequest
    <2>1. toRequest # <<>> /\ toRequest' = Tail(toRequest)
      BY DEF RequestNext
    <2> DEFINE q == sent \o queue
    <2>2. q \in Seq(Request) /\ toRequest \in Seq(Request)
      BY <1>1
    <2> HIDE DEF q
    <2>3. /\ Head(toRequest) \in Request /\ Tail(toRequest) \in Seq(Request)
          /\ Append(q, Head(toRequest)) \o Tail(toRequest) = q \o toRequest
      BY <2>1, <2>2, MoveHead
    <2> QED BY <2>1, <2>3 DEF q
  <1>3. sent' \o queue' = Append(sent \o queue, h)
    BY <1>1, <1>2, AppendInside DEF RequestNext, Send
  <1>4. queue' \in Seq(Request) /\ queue' # <<>> /\ (queue # <<>> => queue'[1] = queue[1])
    BY <1>1, <1>2 DEF RequestNext, Send
  <1>5. writing' # <<>> => writing' = <<queue'[1]>>
    <2>1. CASE queue = <<>>
      <3>1. writing = <<>> /\ queue' = <<h>>
        BY <2>1, <1>1, <1>2 DEF IInv, RequestNext, Send
      <3> QED BY <3>1, <1>2 DEF RequestNext, Send
    <2>2. CASE queue # <<>>
      <3>1. Len(queue') > 1
        BY <2>2, <1>1, <1>2 DEF RequestNext, Send
      <3>2. writing' = writing
        BY <3>1 DEF RequestNext, Send
      <3> QED BY <2>2, <3>2, <1>4 DEF IInv
    <2> QED BY <2>1, <2>2
  <1>6. writing' \in Seq(Request)
    <2>1. Head(queue') \in Request
      BY <1>4
    <2> QED BY <2>1, <1>1 DEF RequestNext, Send
  <1>7. TypeOK'
    BY <1>2, <1>4, <1>6 DEF IInv, TypeOK, RequestNext
  <1>8. RequestAllValues' = RequestAllValues
    BY DEF RequestNext, RequestAllValues
  <1> QED BY <1>2, <1>3, <1>4, <1>5, <1>7, <1>8 DEF IInv, RequestNext

LEMMA StartReadingStep ==
    ASSUME IInv, StartReading
    PROVE  IInv'
  <1>1. TypeOK'
    BY DEF IInv, TypeOK, StartReading, Phase
  <1>2. RequestAllValues' = RequestAllValues
    BY DEF StartReading, RequestAllValues
  <1> QED BY <1>1, <1>2 DEF IInv, StartReading

\* A write completes: it was of the head of the queue.
LEMMA WriteStep ==
    ASSUME IInv, OnWrite
    PROVE  /\ IInv'
           /\ queue # <<>> /\ sent' = Append(sent, Head(queue)) /\ queue' = Tail(queue)
           /\ sent' \o queue' = sent \o queue
  <1>1. /\ sent \in Seq(Request) /\ queue \in Seq(Request)
        /\ queue # <<>> /\ writing = <<queue[1]>>
    BY DEF IInv, TypeOK, OnWrite
  <1>2. Head(writing) = Head(queue) /\ Tail(writing) = <<>>
    BY <1>1
  <1>3. sent' = Append(sent, Head(queue)) /\ queue' = Tail(queue)
    BY <1>2 DEF OnWrite
  <1>4. sent' \in Seq(Request) /\ queue' \in Seq(Request) /\ sent' \o queue' = sent \o queue
    BY <1>1, <1>3, MoveHead
  <1>5. writing' = IF queue' # <<>> THEN <<queue'[1]>> ELSE <<>>
    <2>1. writing' = <<>> \o IF queue' # <<>> THEN <<Head(queue')>> ELSE <<>>
      BY <1>2 DEF OnWrite
    <2>2. CASE queue' = <<>>
      BY <2>1, <2>2
    <2>3. CASE queue' # <<>>
      <3>1. Head(queue') = queue'[1]
        BY <1>4, <2>3
      <3> QED BY <2>1, <2>3, <3>1
    <2> QED BY <2>2, <2>3
  <1>6. writing' \in Seq(Request)
    BY <1>4, <1>5
  <1>7. TypeOK'
    BY <1>4, <1>6 DEF IInv, TypeOK, OnWrite
  <1>8. RequestAllValues' = RequestAllValues
    BY DEF OnWrite, RequestAllValues
  <1>9. phase \in {"requesting", "open"}
    BY <1>1 DEF IInv
  <1> QED BY <1>1, <1>3, <1>4, <1>5, <1>7, <1>8, <1>9 DEF IInv, OnWrite

LEMMA WriteErrorStep ==
    ASSUME IInv, OnWriteError
    PROVE  IInv'
  <1>1. writing' = <<>>
    <2>1. writing = <<queue[1]>> /\ writing' = Tail(writing)
      BY DEF IInv, OnWriteError
    <2> QED BY <2>1
  <1>2. TypeOK'
    BY <1>1 DEF IInv, TypeOK, OnWriteError
  <1>3. RequestAllValues' = RequestAllValues
    BY DEF OnWriteError, RequestAllValues
  <1> QED BY <1>1, <1>2, <1>3 DEF IInv, OnWriteError

LEMMA StutterStep ==
    ASSUME IInv, UNCHANGED vars
    PROVE  IInv'
  BY DEF vars, IInv, TypeOK, RequestAllValues

LEMMA StepInvariant == ASSUME IInv, [Next]_vars PROVE IInv'
  <1>1. CASE UNCHANGED vars
    BY <1>1, StutterStep
  <1>2. CASE Next
    <2>1. ASSUME NEW ec \in BOOLEAN, OnResolve(ec) PROVE IInv'
      BY <2>1, OtherSteps
    <2>2. ASSUME NEW ec \in BOOLEAN, OnConnect(ec) PROVE IInv'
      BY <2>2, OtherSteps
    <2>3. ASSUME NEW ec \in BOOLEAN, OnHandshake(ec) PROVE IInv'
      BY <2>3, HandshakeStep
    <2>4. ASSUME NEW root \in Message, OnMessage(root) PROVE IInv'
      BY <2>4, OtherSteps
    <2>5. CASE OnReadError \/ Return \/ LinkFails
      BY <2>5, OtherSteps
    <2> QED BY <1>2, <2>1, <2>2, <2>3, <2>4, <2>5, RequestStep, StartReadingStep,
               WriteStep, WriteErrorStep DEF Next
  <1> QED BY <1>1, <1>2

(***************************************************************************)
(* At every moment every request is sent, queued or still to be queued,    *)
(* once and in order, and the write that is outstanding, if any, is of the *)
(* queue's first message (on_handshake, send, on_write).                   *)
(***************************************************************************)
THEOREM Invariant == Spec => []IInv
  BY InitInvariant, StepInvariant, PTL DEF Spec

LEMMA WritesInOrder == ASSUME IInv PROVE OneWriteInFlight /\ WriteBufferAlive
  <1>1. writing \in Seq(Request) /\ queue \in Seq(Request)
    BY DEF IInv, TypeOK
  <1>2. Len(writing) <= 1
    <2>1. CASE writing = <<>>
      BY <2>1
    <2>2. CASE writing = <<queue[1]>>
      BY <2>2
    <2> QED BY <2>1, <2>2 DEF IInv
  <1>3. WriteBufferAlive
    BY <1>1 DEF IInv, WriteBufferAlive
  <1> QED BY <1>2, <1>3 DEF OneWriteInFlight

(***************************************************************************)
(* Beast's rule of one async_write at a time is kept, for any number of    *)
(* requests (the test of m_queue.size() in send).                          *)
(***************************************************************************)
THEOREM WritesOneAtATime == Spec => []OneWriteInFlight
  BY WritesInOrder, Invariant, PTL

(***************************************************************************)
(* The message an outstanding write refers to is still owned by m_queue    *)
(* (send, and the order of erase and async_write in on_write).             *)
(***************************************************************************)
THEOREM WritesFromLiveBuffer == Spec => []WriteBufferAlive
  BY WritesInOrder, Invariant, PTL

-----------------------------------------------------------------------------
(* Refinement *)

LEMMA InitRefines == Init => Outbound!Init
  BY DEF Init, Outbound!Init

LEMMA NextRefines ==
    ASSUME IInv, [Next]_vars
    PROVE  [Outbound!Next]_<<sent \o queue, sent>>
  <1>1. CASE UNCHANGED <<sent, queue>>
    BY <1>1
  <1>2. CASE RequestNext
    <2>1. Head(toRequest) \in Request /\ sent' = sent /\ queue' = Append(queue, Head(toRequest))
      BY <1>2, MoveHead DEF IInv, TypeOK, RequestNext, Send
    <2>2. sent' \o queue' = Append(sent \o queue, Head(toRequest))
      <3>1. sent \in Seq(Request) /\ queue \in Seq(Request)
        BY DEF IInv, TypeOK
      <3>2. sent \o Append(queue, Head(toRequest)) = Append(sent \o queue, Head(toRequest))
        BY <2>1, <3>1, AppendInside
      <3> QED BY <2>1, <3>2
    <2> QED BY <2>1, <2>2 DEF Outbound!Next, Outbound!Ask
  <1>3. CASE OnWrite
    <2>1. /\ queue # <<>> /\ sent' = Append(sent, Head(queue))
          /\ sent' \o queue' = sent \o queue
          /\ queue \in Seq(Request) /\ sent \in Seq(Request)
      BY <1>3, WriteStep DEF IInv, TypeOK
    <2>2. Len(sent) < Len(sent \o queue) /\ (sent \o queue)[Len(sent) + 1] = Head(queue)
      BY <2>1
    <2> QED BY <2>1, <2>2 DEF Outbound!Next, Outbound!Transmit
  <1> QED BY <1>1, <1>2, <1>3 DEF Next, vars, OnResolve, OnConnect, OnHandshake,
             StartReading, OnMessage, OnReadError, OnWriteError, Return, LinkFails

(***************************************************************************)
(* The session implements the outbound queue: requests reach the           *)
(* connection in order, none twice and none skipped, whatever fails.       *)
(***************************************************************************)
THEOREM QueueIsImplemented == Spec => SentInOrder
  BY InitRefines, NextRefines, Invariant, PTL DEF Spec, SentInOrder, Outbound!Spec
=============================================================================
