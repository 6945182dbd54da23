--------------------------- MODULE TransportProofs --------------------------
(***************************************************************************)
(* Theorems about the client and the server around one broker, for any     *)
(* events, requests, ids and routes.                                       *)
(***************************************************************************)
EXTENDS Transport, FiniteSetTheorems, SequenceTheorems, TLAPS

\* A request the server works on was sent under an id, which its answers bear.
ServedIsSent == \A r \in Request : work[r] # "none" => sent[r] \in Id

\* A request that waits to be published is noted under its payload.
OutboxIsMapped ==
  \A i \in 1..Len(outbox) : requestMap[DataOf[outbox[i]]] \in Request

\* The inductive strengthening of the type invariant: without its second and
\* third conjunct an answer or a publication could lack an id.
TypeInv == TransportTypeOK /\ ServedIsSent /\ OutboxIsMapped

\* What the steps do to queues, as sequences over a set.
LEMMA QueueTypes ==
  ASSUME NEW S, NEW s \in Seq(S), NEW t \in Seq(S), NEW x \in S, NEW n \in Nat
  PROVE  /\ s \o t \in Seq(S)
         /\ Append(s, x) \in Seq(S)
         /\ s # <<>> => Head(s) \in S /\ Tail(s) \in Seq(S)
         /\ [k \in 1..n |-> x] \in Seq(S)
<1>1. s \o t \in Seq(S) /\ Append(s, x) \in Seq(S)
  OBVIOUS
<1>2. s # <<>> => Head(s) \in S /\ Tail(s) \in Seq(S)
  OBVIOUS
<1>3. [k \in 1..n |-> x] \in Seq(S)
  OBVIOUS
<1> QED BY <1>1, <1>2, <1>3

\* The members of an event are requests.
LEMMA MembersAreRequests == \A e \in Event : Members(e) \subseteq Request
  BY EventAssumption DEF Members

\* Finitely many streams are addressed, so the copies can be counted.
LEMMA SubscribedIsFinite ==
  ASSUME BrokerTypeOK, NEW p
  PROVE  Cardinality(Subscribed(p)) \in Nat
<1>1. Subscribed(p) \subseteq Request
  BY DEF Subscribed, Addressees, BrokerTypeOK
<1> QED BY <1>1, RequestsAreFinite, FS_Subset, FS_CardinalityType

\* A packet on the bus keeps the broker and the client well typed.
LEMMA EmitTypes ==
  ASSUME BrokerTypeOK, ClientTypeOK, NEW p \in Packet, Emit(p)
  PROVE  BrokerTypeOK' /\ ClientTypeOK'
<1>1. p.disposed \in BOOLEAN
  BY DEF Packet
<1>2. \A r \in Request : Append(stream[r], p) \in Seq(Packet)
  BY QueueTypes DEF BrokerTypeOK
<1>3. stream' \in [Request -> Seq(Packet)]
  BY <1>2 DEF Emit, EmitResponse, BrokerTypeOK
<1>4. status' \in [Request -> {"none", "open", "complete", "error"}]
  BY <1>1 DEF Emit, EmitResponse, BrokerTypeOK
<1>5. BrokerTypeOK'
  BY <1>1, <1>3, <1>4 DEF Emit, EmitResponse, BrokerTypeOK
<1>6. inbox' \in Seq(Packet)
  <2>1. [k \in 1..Cardinality(Subscribed(p)) |-> p] \in Seq(Packet)
    BY SubscribedIsFinite, QueueTypes
  <2> QED BY <2>1, QueueTypes DEF Emit, ReceiveResponse, ClientTypeOK
<1>7. ClientTypeOK'
  BY <1>6 DEF Emit, ReceiveResponse, ClientTypeOK
<1> QED BY <1>5, <1>7

\* The initial state is well typed.
LEMMA InitTypes == Init => TypeInv
<1> SUFFICES ASSUME Init PROVE TypeInv
  OBVIOUS
<1> USE DEF Init
<1>1. BrokerTypeOK
  <2>1. <<>> \in Seq(Packet)
    OBVIOUS
  <2> QED BY <2>1 DEF BrokerInit, BrokerTypeOK
<1>2. ClientTypeOK
  <2>1. <<>> \in Seq(Packet) /\ <<>> \in Seq(Tuple) /\ <<>> \in Seq(Request)
    OBVIOUS
  <2> QED BY <2>1 DEF ClientInit, ClientTypeOK
<1>3. ServerTypeOK
  <2>1. <<>> \in Seq(Packet) /\ <<>> \in Seq({"value", "void"})
    OBVIOUS
  <2> QED BY <2>1 DEF ServerInit, ServerTypeOK
<1>4. ServedIsSent /\ OutboxIsMapped
  BY DEF ServerInit, ClientInit, ServedIsSent, OutboxIsMapped
<1> QED BY <1>1, <1>2, <1>3, <1>4 DEF TypeInv, TransportTypeOK

\* Invocation: every request that enters the outbox is noted in requestMap,
\* and the ones already there stay noted.
LEMMA InvokeTypes ==
  ASSUME TypeInv, NEW e \in Event, Invoke(e)
  PROVE  TypeInv'
<1> USE EventAssumption DEF TypeInv, TransportTypeOK
<1>1. /\ BrokerTypeOK' /\ ServerTypeOK' /\ ServedIsSent'
      /\ process' \in {"running", "crashed"} /\ uncaught' \in SUBSET Request
  BY DEF Invoke, brokerVars, serverVars, BrokerTypeOK, ServerTypeOK, ServedIsSent
<1>2. CASE RejectEvent(e)
  BY <1>1, <1>2 DEF RejectEvent, ClientTypeOK, OutboxIsMapped
<1>3. CASE ProcessEvent(e)
  <2>1. phase' \in [Event -> {"idle", "active", "resolved", "rejected"}]
    BY <1>3 DEF ProcessEvent, ClientTypeOK, Outcome
  <2>2. \A d \in Data : requestMap'[d] \in Request \cup {NoRequest}
    BY <1>3, MembersAreRequests DEF ProcessEvent, ClientTypeOK
  <2>3. requestMap' \in [Data -> Request \cup {NoRequest}]
    BY <1>3, <2>2 DEF ProcessEvent
  <2>4. outbox' \in Seq(Request)
    BY <1>3, QueueTypes DEF ProcessEvent, ClientTypeOK
  <2>5. ClientTypeOK'
    BY <1>3, <2>1, <2>3, <2>4 DEF ProcessEvent, ClientTypeOK
  <2>6. \A d \in Data : requestMap[d] \in Request => requestMap'[d] \in Request
    BY <1>3, MembersAreRequests DEF ProcessEvent
  <2>7. \A r \in Members(e) : requestMap'[DataOf[r]] \in Request
    BY <1>3, MembersAreRequests DEF ProcessEvent
  <2>8. OutboxIsMapped'
    <3> SUFFICES ASSUME NEW i \in 1..Len(outbox')
                 PROVE  requestMap'[DataOf[outbox'[i]]] \in Request
      BY DEF OutboxIsMapped
    <3>1. outbox \in Seq(Request) /\ RequestsOf[e] \in Seq(Request)
      BY DEF ClientTypeOK
    <3>2. CASE i <= Len(outbox)
      <4>1. i \in 1..Len(outbox) /\ outbox'[i] = outbox[i] /\ outbox[i] \in Request
        BY <1>3, <3>1, <3>2 DEF ProcessEvent
      <4> QED BY <2>6, <4>1 DEF OutboxIsMapped
    <3>3. CASE i > Len(outbox)
      <4>1. /\ i - Len(outbox) \in 1..Len(RequestsOf[e])
            /\ outbox'[i] = RequestsOf[e][i - Len(outbox)]
        BY <1>3, <3>1, <3>3 DEF ProcessEvent
      <4>2. outbox'[i] \in Members(e)
        BY <4>1 DEF Members
      <4> QED BY <2>7, <4>2
    <3> QED BY <3>1, <3>2, <3>3
  <2> QED BY <1>1, <2>5, <2>8
<1> QED BY <1>2, <1>3 DEF Invoke

\* Publication takes the id from requestMap, so it is one of the ids.
LEMMA PublishTypes ==
  ASSUME TypeInv, NEW r \in Request, PublishRequest(r) \/ PublishToNobody(r)
  PROVE  TypeInv'
<1> USE EventAssumption DEF TypeInv, TransportTypeOK
<1>1. Publish(r)
  BY DEF PublishRequest, PublishToNobody
<1>2. outbox \in Seq(Request) /\ outbox # <<>> /\ r = outbox[1] /\ outbox' = Tail(outbox)
  BY <1>1 DEF Publish, ClientTypeOK
<1>3. PacketId(r) \in Id
  BY <1>2 DEF PacketId, OutboxIsMapped
<1>4. ClientTypeOK'
  <2>1. outbox' \in Seq(Request)
    BY <1>2
  <2> QED BY <1>1, <2>1 DEF Publish, ClientTypeOK
<1>5. BrokerTypeOK'
  <2>1. CASE PublishRequest(r)
    BY <1>3, <2>1 DEF PublishRequest, SendToConsumer, BrokerTypeOK
  <2>2. CASE PublishToNobody(r)
    BY <1>3, <2>2 DEF PublishToNobody, SendToNobody, BrokerTypeOK
  <2> QED BY <2>1, <2>2
<1>6. ServerTypeOK'
  BY DEF PublishRequest, PublishToNobody, Receive, serverVars, ServerTypeOK
<1>7. ServedIsSent'
  BY <1>3 DEF PublishRequest, PublishToNobody, SendToConsumer, SendToNobody, Receive,
     serverVars, ServedIsSent, BrokerTypeOK, ServerTypeOK
<1>8. OutboxIsMapped'
  <2> SUFFICES ASSUME NEW i \in 1..Len(outbox')
               PROVE  requestMap'[DataOf[outbox'[i]]] \in Request
    BY DEF OutboxIsMapped
  <2>1. i + 1 \in 1..Len(outbox) /\ outbox'[i] = outbox[i + 1]
    BY <1>2
  <2>2. requestMap' = requestMap
    BY <1>1 DEF Publish
  <2> QED BY <2>1, <2>2 DEF OutboxIsMapped
<1>9. process' \in {"running", "crashed"} /\ uncaught' \in SUBSET Request
  BY DEF PublishRequest, PublishToNobody
<1> QED BY <1>4, <1>5, <1>6, <1>7, <1>8, <1>9

\* An answer of a request that was sent is a packet.
LEMMA AnswerTypes ==
  ASSUME NEW r \in Request, sent[r] \in Id, NEW k \in Kind, NEW n \in Nat, NEW d \in BOOLEAN
  PROVE  Answer(r, k, n, d) \in Packet
  BY DEF Answer, Packet

\* finalize leaves a queue of packets.
LEMMA DisposeTypes ==
  ASSUME NEW r \in Request, sent[r] \in Id, NEW q \in Seq(Packet)
  PROVE  Dispose(q, r) \in Seq(Packet)
<1>1. CASE q = <<>>
  <2>1. Answer(r, "void", 0, TRUE) \in Packet
    BY AnswerTypes DEF Kind
  <2>2. \A p \in Packet : <<p>> \in Seq(Packet)
    OBVIOUS
  <2>3. <<Answer(r, "void", 0, TRUE)>> \in Seq(Packet)
    BY <2>1, <2>2
  <2> QED BY <1>1, <2>3 DEF Dispose
<1>2. CASE q # <<>>
  <2> DEFINE z == [q[Len(q)] EXCEPT !.disposed = TRUE]
  <2>1. Len(q) \in 1..Len(q) /\ q[Len(q)] \in Packet
    BY <1>2
  <2>2. z \in Packet
    BY <2>1 DEF Packet
  <2>3. Dispose(q, r) = [q EXCEPT ![Len(q)] = z]
    BY <1>2, <2>1 DEF Dispose
  <2> HIDE DEF z
  <2>4. [q EXCEPT ![Len(q)] = z] \in Seq(Packet)
    BY <2>1, <2>2, ExceptSeq
  <2> QED BY <2>3, <2>4
<1> QED BY <1>1, <1>2

\* The steps of a server that handles a request.
LEMMA ServeTypes ==
  ASSUME TypeInv, NEW r \in Request,
         \/ ServeRequest(r) \/ RefuseRequest(r) \/ RejectRequest(r)
         \/ StreamValue(r) \/ EndStream(r) \/ DrainQueue(r)
  PROVE  TypeInv'
<1> USE DEF TypeInv, TransportTypeOK
<1>1. CASE ServeRequest(r)
  <2>1. ServerTypeOK' /\ ServedIsSent' /\ UNCHANGED <<brokerVars, clientVars, process, uncaught>>
    BY <1>1 DEF ServeRequest, CallHandler, SubscribeResponse, ServerTypeOK, Answered,
       ServedIsSent, brokerVars
  <2> QED BY <2>1 DEF brokerVars, clientVars, BrokerTypeOK, ClientTypeOK, OutboxIsMapped
<1>2. CASE RefuseRequest(r)
  <2>1. sent[r] \in Id
    BY <1>2 DEF RefuseRequest, RefuseMessage, ServedIsSent
  <2>2. Unqualified(r) \in Packet
    BY <2>1, AnswerTypes DEF Unqualified, Kind
  <2>3. BrokerTypeOK' /\ ClientTypeOK'
    BY <1>2, <2>2, EmitTypes DEF RefuseRequest
  <2>4. ServerTypeOK' /\ ServedIsSent' /\ OutboxIsMapped'
    BY <1>2 DEF RefuseRequest, RefuseMessage, Emit, EmitResponse, ReceiveResponse,
       ServerTypeOK, Answered, ServedIsSent, OutboxIsMapped
  <2> QED BY <1>2, <2>3, <2>4 DEF RefuseRequest
<1>3. CASE RejectRequest(r)
  <2>1. ServerTypeOK' /\ ServedIsSent' /\ UNCHANGED <<brokerVars, clientVars, process>>
    BY <1>3 DEF RejectRequest, HandlerRejects, ServerTypeOK, Answered, ServedIsSent, brokerVars
  <2>2. uncaught' \in SUBSET Request
    BY <1>3 DEF RejectRequest
  <2> QED BY <2>1, <2>2 DEF brokerVars, clientVars, BrokerTypeOK, ClientTypeOK, OutboxIsMapped
<1>4. CASE StreamValue(r)
  <2>1. PICK k \in {"value", "void"} : EmitValue(r, k)
    BY <1>4 DEF StreamValue
  <2>2. sent[r] \in Id
    BY <2>1 DEF EmitValue, ServedIsSent
  <2>3. Len(produced[r]) + 1 \in Nat /\ Append(produced[r], k) \in Seq({"value", "void"})
    BY <2>1, QueueTypes DEF ServerTypeOK
  <2>4. Append(dataQueue[r], Answer(r, k, Len(produced[r]) + 1, FALSE)) \in Seq(Packet)
    <3> DEFINE a == Answer(r, k, Len(produced[r]) + 1, FALSE)
    <3>1. a \in Packet
      BY <2>2, <2>3, AnswerTypes DEF Kind
    <3>2. dataQueue[r] \in Seq(Packet)
      BY DEF ServerTypeOK
    <3> HIDE DEF a
    <3>3. Append(dataQueue[r], a) \in Seq(Packet)
      BY <3>1, <3>2, QueueTypes
    <3> QED BY <3>3 DEF a
  <2>5. ServerTypeOK'
    BY <2>1, <2>3, <2>4 DEF EmitValue, ServerTypeOK
  <2>6. ServedIsSent' /\ UNCHANGED <<brokerVars, clientVars, process, uncaught>>
    BY <1>4, <2>1 DEF StreamValue, EmitValue, ServedIsSent, brokerVars
  <2> QED BY <2>5, <2>6 DEF brokerVars, clientVars, BrokerTypeOK, ClientTypeOK, OutboxIsMapped
<1>5. CASE EndStream(r)
  <2>1. sent[r] \in Id
    BY <1>5 DEF EndStream, Complete, Fail, ServedIsSent
  <2>2. Dispose(dataQueue[r], r) \in Seq(Packet)
    BY <2>1, DisposeTypes DEF ServerTypeOK
  <2>3. Dispose(Append(dataQueue[r], Answer(r, "error", 0, FALSE)), r) \in Seq(Packet)
    <3>1. Answer(r, "error", 0, FALSE) \in Packet
      BY <2>1, AnswerTypes DEF Kind
    <3>2. Append(dataQueue[r], Answer(r, "error", 0, FALSE)) \in Seq(Packet)
      BY <3>1, QueueTypes DEF ServerTypeOK
    <3> QED BY <2>1, <3>2, DisposeTypes
  <2>4. ServerTypeOK'
    <3>1. CASE Complete(r)
      BY <2>2, <3>1 DEF Complete, ServerTypeOK, Answered
    <3>2. CASE Fail(r)
      BY <2>3, <3>2 DEF Fail, ServerTypeOK, Answered
    <3> QED BY <1>5, <3>1, <3>2 DEF EndStream
  <2>5. ServedIsSent' /\ UNCHANGED <<brokerVars, clientVars, process, uncaught>>
    BY <1>5, <2>1 DEF EndStream, Complete, Fail, ServedIsSent, brokerVars, ServerTypeOK
  <2> QED BY <2>4, <2>5 DEF brokerVars, clientVars, BrokerTypeOK, ClientTypeOK, OutboxIsMapped
<1>6. CASE DrainQueue(r)
  <2>1. Head(dataQueue[r]) \in Packet /\ Tail(dataQueue[r]) \in Seq(Packet)
    BY <1>6, QueueTypes DEF DrainQueue, Respond, ServerTypeOK
  <2>2. BrokerTypeOK' /\ ClientTypeOK'
    BY <1>6, <2>1, EmitTypes DEF DrainQueue
  <2>3. ServerTypeOK'
    BY <1>6, <2>1 DEF DrainQueue, Respond, ServerTypeOK
  <2>4. ServedIsSent' /\ OutboxIsMapped'
    BY <1>6 DEF DrainQueue, Respond, Emit, EmitResponse, ReceiveResponse, ServedIsSent, OutboxIsMapped
  <2> QED BY <1>6, <2>2, <2>3, <2>4 DEF DrainQueue
<1> QED BY <1>1, <1>2, <1>3, <1>4, <1>5, <1>6

\* A response callback: what it delivers is a tuple.
LEMMA CallbackTypes ==
  ASSUME TypeInv, RunCallback
  PROVE  TypeInv'
<1> USE DEF TypeInv, TransportTypeOK
<1>1. /\ BrokerTypeOK' /\ ServerTypeOK' /\ ServedIsSent'
      /\ process' \in {"running", "crashed"} /\ uncaught' \in SUBSET Request
  BY DEF RunCallback, brokerVars, serverVars, BrokerTypeOK, ServerTypeOK, ServedIsSent
<1>2. CASE DropResponse
  <2>1. inbox' \in Seq(Packet)
    BY <1>2, QueueTypes DEF DropResponse, ClientTypeOK
  <2> QED BY <1>1, <1>2, <2>1 DEF DropResponse, ClientTypeOK, OutboxIsMapped
<1>3. ASSUME NEW e \in Event, NEW r \in Members(e), DeliverResponse(e, r)
      PROVE  TypeInv'
  <2>1. r \in Request
    BY MembersAreRequests
  <2>2. Head(inbox) \in Packet /\ inbox' \in Seq(Packet)
    BY <1>3, QueueTypes DEF DeliverResponse, ClientTypeOK
  <2>3. Delivery(r, Head(inbox)) \in Seq(Tuple)
    <3> DEFINE t == [req |-> r, origin |-> Head(inbox).origin,
                     kind |-> Head(inbox).kind, n |-> Head(inbox).n]
    <3>1. t \in Tuple
      BY <2>1, <2>2 DEF Packet, Tuple
    <3>2. <<>> \in Seq(Tuple) /\ <<t>> \in Seq(Tuple)
      BY <3>1
    <3> QED BY <3>2 DEF Delivery
  <2>4. tuples' \in [Event -> Seq(Tuple)]
    BY <1>3, <2>3, QueueTypes DEF DeliverResponse, ClientTypeOK
  <2>5. /\ phase' \in [Event -> {"idle", "active", "resolved", "rejected"}]
        /\ call' \in [Request -> {"unsent", "queued", "open", "ended"}]
        /\ routingMap' \in [Id -> Request \cup {NoRequest}]
    BY <1>3, <2>1 DEF DeliverResponse, EndCall, Outcome, ClientTypeOK
  <2>6. ClientTypeOK' /\ OutboxIsMapped'
    BY <1>3, <2>2, <2>4, <2>5 DEF DeliverResponse, ClientTypeOK, OutboxIsMapped
  <2> QED BY <1>1, <2>6
<1> QED BY <1>2, <1>3 DEF RunCallback

\* Every step keeps the invariant.
LEMMA StepTypes == TypeInv /\ [Next]_vars => TypeInv'
<1> SUFFICES ASSUME TypeInv, [Next]_vars PROVE TypeInv'
  OBVIOUS
<1>1. CASE StartServer \/ CloseServer
  BY <1>1 DEF StartServer, CloseServer, Listen, Close, AddConsumer, CloseBroker, clientVars,
     TypeInv, TransportTypeOK, BrokerTypeOK, ClientTypeOK, ServerTypeOK, ServedIsSent, OutboxIsMapped
<1>2. CASE Crash
  BY <1>2 DEF Crash, brokerVars, clientVars, serverVars,
     TypeInv, TransportTypeOK, BrokerTypeOK, ClientTypeOK, ServerTypeOK, ServedIsSent, OutboxIsMapped
<1>3. CASE UNCHANGED vars
  BY <1>3 DEF vars, brokerVars, clientVars, serverVars,
     TypeInv, TransportTypeOK, BrokerTypeOK, ClientTypeOK, ServerTypeOK, ServedIsSent, OutboxIsMapped
<1> QED BY <1>1, <1>2, <1>3, InvokeTypes, PublishTypes, ServeTypes, CallbackTypes DEF Next

\* The client, the broker and the server are well typed in every behaviour:
\* no packet without an id, no publication without a request.
THEOREM TransportTypes == Spec => []TransportTypeOK
<1>1. Spec => []TypeInv
  BY InitTypes, StepTypes, PTL DEF Spec
<1>2. TypeInv => TransportTypeOK
  BY DEF TypeInv
<1> QED BY <1>1, <1>2, PTL

-----------------------------------------------------------------------------
(***************************************************************************)
(* Isolation: while no two requests share an id or a payload, overlapping  *)
(* invocations cannot get each other's answers.                            *)
(***************************************************************************)
DistinctRequests ==
  \A r, q \in Request : IdOf[r] = IdOf[q] \/ DataOf[r] = DataOf[q] => r = q

\* Packets under the id of the request they were produced for, and tuples
\* whose answer was produced for their request.
Genuine == {p \in Packet : p.id = IdOf[p.origin]}
Own == {t \in Tuple : t.origin = t.req}

\* Everything the client and the server know about a request agrees with it:
\* the two maps, the id it was sent under, and every packet under way.
IsolationInv ==
  /\ TypeInv
  /\ \A d \in Data : requestMap[d] \in Request => DataOf[requestMap[d]] = d
  /\ \A r \in Request : sent[r] \in {NoId, IdOf[r]}
  /\ \A i \in Id : routingMap[i] \in Request => IdOf[routingMap[i]] = i
  /\ \A r \in Request : dataQueue[r] \in Seq(Genuine)
  /\ inbox \in Seq(Genuine)
  /\ \A e \in Event : tuples[e] \in Seq(Own)

\* The server stamps the request's id on its answers.
LEMMA AnswerIsGenuine ==
  ASSUME NEW r \in Request, sent[r] = IdOf[r], sent[r] \in Id,
         NEW k \in Kind, NEW n \in Nat, NEW d \in BOOLEAN
  PROVE  Answer(r, k, n, d) \in Genuine
  BY AnswerTypes DEF Answer, Genuine

\* finalize keeps the queue genuine.
LEMMA DisposeIsGenuine ==
  ASSUME NEW r \in Request, sent[r] = IdOf[r], sent[r] \in Id, NEW q \in Seq(Genuine)
  PROVE  Dispose(q, r) \in Seq(Genuine)
<1>1. CASE q = <<>>
  <2>1. Answer(r, "void", 0, TRUE) \in Genuine
    BY AnswerIsGenuine DEF Kind
  <2>2. \A p \in Genuine : <<p>> \in Seq(Genuine)
    OBVIOUS
  <2>3. <<Answer(r, "void", 0, TRUE)>> \in Seq(Genuine)
    BY <2>1, <2>2
  <2> QED BY <1>1, <2>3 DEF Dispose
<1>2. CASE q # <<>>
  <2> DEFINE z == [q[Len(q)] EXCEPT !.disposed = TRUE]
  <2>1. Len(q) \in 1..Len(q) /\ q[Len(q)] \in Genuine
    BY <1>2
  <2>2. z \in Genuine
    BY <2>1 DEF Packet, Genuine
  <2>3. Dispose(q, r) = [q EXCEPT ![Len(q)] = z]
    BY <1>2, <2>1 DEF Dispose
  <2> HIDE DEF z
  <2>4. [q EXCEPT ![Len(q)] = z] \in Seq(Genuine)
    BY <2>1, <2>2, ExceptSeq
  <2> QED BY <2>3, <2>4
<1> QED BY <1>1, <1>2

\* The request in the outbox is published under its own id.
LEMMA PublishedUnderOwnId ==
  ASSUME DistinctRequests, IsolationInv, NEW r \in Request, Publish(r)
  PROVE  PacketId(r) = IdOf[r]
<1>1. outbox \in Seq(Request) /\ outbox # <<>> /\ r = outbox[1]
  BY DEF Publish, IsolationInv, TypeInv, TransportTypeOK, ClientTypeOK
<1>2. requestMap[DataOf[r]] \in Request /\ DataOf[r] \in Data
  BY <1>1, EventAssumption DEF IsolationInv, TypeInv, OutboxIsMapped
<1>3. requestMap[DataOf[r]] = r
  BY <1>2 DEF IsolationInv, DistinctRequests
<1> QED BY <1>3 DEF PacketId

\* A genuine packet on the bus leaves the client's inbox genuine.
LEMMA EmitIsGenuine ==
  ASSUME IsolationInv, NEW p \in Genuine, Emit(p)
  PROVE  /\ inbox' \in Seq(Genuine)
         /\ UNCHANGED <<requestMap, sent, routingMap, tuples>>
<1>1. [k \in 1..Cardinality(Subscribed(p)) |-> p] \in Seq(Genuine)
  BY SubscribedIsFinite, QueueTypes DEF IsolationInv, TypeInv, TransportTypeOK
<1> QED BY <1>1, QueueTypes DEF Emit, ReceiveResponse, EmitResponse, IsolationInv

\* The server's steps: whatever it queues or emits is genuine.
LEMMA ServeIsolates ==
  ASSUME IsolationInv, TypeInv', NEW r \in Request,
         \/ ServeRequest(r) \/ RefuseRequest(r) \/ RejectRequest(r)
         \/ StreamValue(r) \/ EndStream(r) \/ DrainQueue(r)
  PROVE  IsolationInv'
<1> USE DEF IsolationInv
<1>0. work[r] # "none" => sent[r] = IdOf[r] /\ sent[r] \in Id
  BY NoIdAssumption DEF TypeInv, ServedIsSent
<1>1. CASE ServeRequest(r) \/ RejectRequest(r)
  BY <1>1 DEF ServeRequest, CallHandler, SubscribeResponse, RejectRequest, HandlerRejects,
     brokerVars, clientVars
<1>2. CASE RefuseRequest(r)
  <2>1. Unqualified(r) \in Genuine
    BY <1>0, <1>2, AnswerIsGenuine DEF RefuseRequest, RefuseMessage, Unqualified, Kind
  <2>2. inbox' \in Seq(Genuine) /\ UNCHANGED <<requestMap, sent, routingMap, tuples>>
    BY <1>2, <2>1, EmitIsGenuine DEF RefuseRequest
  <2>3. dataQueue' = dataQueue
    BY <1>2 DEF RefuseRequest, RefuseMessage
  <2> QED BY <2>2, <2>3
<1>3. CASE StreamValue(r)
  <2>1. PICK k \in {"value", "void"} : EmitValue(r, k)
    BY <1>3 DEF StreamValue
  <2> DEFINE a == Answer(r, k, Len(produced[r]) + 1, FALSE)
  <2>2. Len(produced[r]) + 1 \in Nat
    BY DEF TypeInv, TransportTypeOK, ServerTypeOK
  <2>3. a \in Genuine
    BY <1>0, <2>1, <2>2, AnswerIsGenuine DEF EmitValue, Kind
  <2>4. dataQueue' = [dataQueue EXCEPT ![r] = Append(dataQueue[r], a)]
    BY <2>1 DEF EmitValue
  <2> HIDE DEF a
  <2>5. Append(dataQueue[r], a) \in Seq(Genuine)
    BY <2>3, QueueTypes
  <2>6. \A q \in Request : dataQueue'[q] \in Seq(Genuine)
    BY <2>4, <2>5 DEF TypeInv, TransportTypeOK, ServerTypeOK
  <2> QED BY <1>3, <2>6 DEF StreamValue, brokerVars, clientVars
<1>4. CASE EndStream(r)
  <2> DEFINE a == Answer(r, "error", 0, FALSE)
  <2>1. sent[r] = IdOf[r] /\ sent[r] \in Id
    BY <1>0, <1>4 DEF EndStream, Complete, Fail
  <2>2. Dispose(dataQueue[r], r) \in Seq(Genuine)
    BY <2>1, DisposeIsGenuine
  <2>3. a \in Genuine
    BY <2>1, AnswerIsGenuine DEF Kind
  <2>4. \/ dataQueue' = [dataQueue EXCEPT ![r] = Dispose(dataQueue[r], r)]
        \/ dataQueue' = [dataQueue EXCEPT ![r] = Dispose(Append(dataQueue[r], a), r)]
    BY <1>4 DEF EndStream, Complete, Fail
  <2> HIDE DEF a
  <2>5. Dispose(Append(dataQueue[r], a), r) \in Seq(Genuine)
    BY <2>1, <2>3, QueueTypes, DisposeIsGenuine
  <2>6. \A q \in Request : dataQueue'[q] \in Seq(Genuine)
    BY <2>2, <2>4, <2>5 DEF TypeInv, TransportTypeOK, ServerTypeOK
  <2> QED BY <1>4, <2>6 DEF EndStream, brokerVars, clientVars
<1>5. CASE DrainQueue(r)
  <2>1. Head(dataQueue[r]) \in Genuine /\ Tail(dataQueue[r]) \in Seq(Genuine)
    BY <1>5, QueueTypes DEF DrainQueue, Respond
  <2>2. inbox' \in Seq(Genuine) /\ UNCHANGED <<requestMap, sent, routingMap, tuples>>
    BY <1>5, <2>1, EmitIsGenuine DEF DrainQueue
  <2>3. \A q \in Request : dataQueue'[q] \in Seq(Genuine)
    BY <1>5, <2>1 DEF DrainQueue, Respond, TypeInv, TransportTypeOK, ServerTypeOK
  <2> QED BY <2>2, <2>3
<1> QED BY <1>1, <1>2, <1>3, <1>4, <1>5

\* The client's steps: it notes, publishes and delivers under matching ids.
LEMMA ClientIsolates ==
  ASSUME DistinctRequests, IsolationInv, TypeInv',
         \/ \E e \in Event : Invoke(e)
         \/ \E r \in Request : PublishRequest(r) \/ PublishToNobody(r)
         \/ RunCallback
  PROVE  IsolationInv'
<1> USE EventAssumption DEF IsolationInv
<1>1. ASSUME NEW e \in Event, Invoke(e)
      PROVE  IsolationInv'
  <2>1. \A d \in Data : requestMap'[d] \in Request => DataOf[requestMap'[d]] = d
    <3>1. CASE RejectEvent(e)
      BY <3>1 DEF RejectEvent
    <3>2. CASE ProcessEvent(e)
      <4> SUFFICES ASSUME NEW d \in Data, requestMap'[d] \in Request
                   PROVE  DataOf[requestMap'[d]] = d
        OBVIOUS
      <4>1. CASE \E r \in Members(e) : DataOf[r] = d
        <5>1. requestMap'[d] = CHOOSE r \in Members(e) : DataOf[r] = d
          BY <3>2, <4>1 DEF ProcessEvent
        <5> QED BY <4>1, <5>1
      <4>2. CASE ~\E r \in Members(e) : DataOf[r] = d
        <5>1. requestMap'[d] = requestMap[d]
          BY <3>2, <4>2 DEF ProcessEvent
        <5> QED BY <5>1
      <4> QED BY <4>1, <4>2
    <3> QED BY <1>1, <3>1, <3>2 DEF Invoke
  <2> QED BY <1>1, <2>1 DEF Invoke, RejectEvent, ProcessEvent, brokerVars, serverVars
<1>2. ASSUME NEW r \in Request, PublishRequest(r) \/ PublishToNobody(r)
      PROVE  IsolationInv'
  <2>1. Publish(r)
    BY <1>2 DEF PublishRequest, PublishToNobody
  <2>2. PacketId(r) = IdOf[r]
    BY <2>1, PublishedUnderOwnId
  <2>3. sent' = [sent EXCEPT ![r] = IdOf[r]] /\ dataQueue' = dataQueue
    BY <1>2, <2>2 DEF PublishRequest, PublishToNobody, SendToConsumer, SendToNobody,
       Receive, serverVars
  <2>4. /\ routingMap' = [routingMap EXCEPT ![IdOf[r]] = r]
        /\ UNCHANGED <<requestMap, inbox, tuples>>
    BY <2>1, <2>2 DEF Publish
  <2> QED BY <2>3, <2>4 DEF TypeInv, TransportTypeOK, BrokerTypeOK, ClientTypeOK
<1>3. CASE RunCallback
  <2>0. UNCHANGED <<brokerVars, serverVars>>
    BY <1>3 DEF RunCallback
  <2>1. CASE DropResponse
    <3>1. inbox' \in Seq(Genuine)
      BY <2>1, QueueTypes DEF DropResponse
    <3> QED BY <2>0, <2>1, <3>1 DEF DropResponse, brokerVars, serverVars
  <2>2. ASSUME NEW e \in Event, NEW r \in Members(e), DeliverResponse(e, r)
        PROVE  IsolationInv'
    <3>1. r \in Request
      BY MembersAreRequests
    <3> DEFINE p == Head(inbox)
               t == [req |-> r, origin |-> p.origin, kind |-> p.kind, n |-> p.n]
    <3>2. p \in Genuine /\ inbox' \in Seq(Genuine)
      BY <2>2, QueueTypes DEF DeliverResponse
    <3>3. IdOf[r] = p.id /\ p.id = IdOf[p.origin] /\ p.origin \in Request
      BY <2>2, <3>1, <3>2 DEF DeliverResponse, Genuine, Packet
    <3>4. t \in Own
      BY <3>1, <3>2, <3>3 DEF Genuine, Packet, Own, Tuple, DistinctRequests
    <3>5. Delivery(r, p) \in Seq(Own)
      <4>1. Delivery(r, p) \in {<<>>, <<t>>}
        BY DEF Delivery
      <4> HIDE DEF t
      <4>2. <<>> \in Seq(Own) /\ <<t>> \in Seq(Own)
        BY <3>4
      <4> QED BY <4>1, <4>2
    <3>6. \A f \in Event : tuples'[f] \in Seq(Own)
      BY <2>2, <3>5, QueueTypes DEF DeliverResponse, TypeInv, TransportTypeOK, ClientTypeOK
    <3>7. \A i \in Id : routingMap'[i] \in Request => IdOf[routingMap'[i]] = i
      <4>1. \/ routingMap' = routingMap
            \/ routingMap' = [routingMap EXCEPT ![sent[r]] = NoRequest]
        BY <2>2 DEF DeliverResponse, EndCall
      <4>2. \A i \in Id : routingMap'[i] \in {routingMap[i], NoRequest}
        BY <4>1 DEF TypeInv, TransportTypeOK, ClientTypeOK
      <4> QED BY <4>2
    <3> QED BY <2>0, <2>2, <3>2, <3>6, <3>7 DEF DeliverResponse, brokerVars, serverVars
  <2> QED BY <1>3, <2>1, <2>2 DEF RunCallback
<1> QED BY <1>1, <1>2, <1>3

\* Without shared ids or payloads, no answer ever reaches another request,
\* however invocations overlap.
THEOREM TransportIsolates ==
  ASSUME DistinctRequests
  PROVE  Spec => []NoCrosstalk
<1>1. Init => IsolationInv
  <2> SUFFICES ASSUME Init PROVE IsolationInv
    OBVIOUS
  <2>1. TypeInv
    BY InitTypes
  <2>2. <<>> \in Seq(Genuine) /\ <<>> \in Seq(Own)
    OBVIOUS
  <2> QED BY <2>1, <2>2, EventAssumption
          DEF Init, BrokerInit, ClientInit, ServerInit, IsolationInv
<1>2. IsolationInv /\ [Next]_vars => IsolationInv'
  <2> SUFFICES ASSUME IsolationInv, [Next]_vars PROVE IsolationInv'
    OBVIOUS
  <2>1. TypeInv'
    BY StepTypes DEF IsolationInv
  <2>2. CASE StartServer \/ CloseServer \/ Crash \/ UNCHANGED vars
    BY <2>1, <2>2 DEF StartServer, CloseServer, Listen, Close, AddConsumer, CloseBroker, Crash,
       vars, brokerVars, clientVars, serverVars, IsolationInv
  <2> QED BY <2>1, <2>2, ServeIsolates, ClientIsolates DEF Next
<1>3. IsolationInv => NoCrosstalk
  <2> SUFFICES ASSUME IsolationInv, NEW e \in Event, NEW i \in 1..Len(tuples[e])
               PROVE  tuples[e][i].origin = tuples[e][i].req
    BY DEF NoCrosstalk
  <2>1. tuples[e][i] \in Own
    BY DEF IsolationInv
  <2> QED BY <2>1 DEF Own
<1> QED BY <1>1, <1>2, <1>3, PTL DEF Spec

-----------------------------------------------------------------------------
(***************************************************************************)
(* Settlement: what has been returned to Lambda is final, for any events,  *)
(* ids (shared ones included) and routes, and however invocations overlap. *)
(***************************************************************************)
\* The outbox holds queued calls, each once.
OutboxIsQueued ==
  /\ \A i \in 1..Len(outbox) : call[outbox[i]] = "queued"
  /\ \A i, j \in 1..Len(outbox) : outbox[i] = outbox[j] => i = j

\* The calls of an event have not begun while it is idle (or never begin, when
\* it is unmappable), and all have ended when it is settled.
CallsFollowPhase ==
  \A e \in Event : \A r \in Members(e) :
    /\ phase[e] = "idle" \/ e \in Unmappable => call[r] = "unsent"
    /\ Settled(e) /\ e \notin Unmappable => call[r] = "ended"

\* RoutingIsLive makes a settled event unreachable, and is itself kept because
\* only a queued call is published.
CallsInv == TypeInv /\ RoutingIsLive /\ OutboxIsQueued /\ CallsFollowPhase

\* Events share no request.
LEMMA MembersAreDisjoint ==
  ASSUME NEW e \in Event, NEW f \in Event, NEW r \in Members(e), r \in Members(f)
  PROVE  e = f
  BY RequestsAreFresh DEF Members

\* The initial state.
LEMMA InitCalls == Init => CallsInv
  BY InitTypes, MembersAreRequests
     DEF Init, ClientInit, CallsInv, RoutingIsLive, OutboxIsQueued, CallsFollowPhase, Settled

\* Invocation queues the event's calls, which were unsent.
LEMMA InvokeCalls ==
  ASSUME CallsInv, NEW e \in Event, Invoke(e)
  PROVE  RoutingIsLive' /\ OutboxIsQueued' /\ CallsFollowPhase'
<1> USE EventAssumption DEF CallsInv
<1>1. CASE RejectEvent(e)
  <2>1. RoutingIsLive' /\ OutboxIsQueued'
    BY <1>1 DEF Invoke, RejectEvent, brokerVars, RoutingIsLive, OutboxIsQueued
  <2>2. CallsFollowPhase'
    BY <1>1 DEF RejectEvent, CallsFollowPhase, Settled, TypeInv, TransportTypeOK, ClientTypeOK
  <2> QED BY <2>1, <2>2
<1>2. CASE ProcessEvent(e)
  <2>1. /\ phase[e] = "idle" /\ e \notin Unmappable
        /\ \A r \in Members(e) : call[r] = "unsent"
    BY <1>2 DEF ProcessEvent, CallsFollowPhase
  <2>2. \A r \in Request : call'[r] = IF r \in Members(e) THEN "queued" ELSE call[r]
    BY <1>2 DEF ProcessEvent
  <2>3. RoutingIsLive'
    <3>1. routingMap' = routingMap /\ sent' = sent
      BY <1>2 DEF Invoke, ProcessEvent, brokerVars
    <3> QED BY <2>1, <2>2, <3>1 DEF RoutingIsLive, TypeInv, TransportTypeOK, ClientTypeOK
  <2>4. OutboxIsQueued'
    <3> DEFINE s == RequestsOf[e]
    <3>1. outbox \in Seq(Request) /\ s \in Seq(Request) /\ outbox' = outbox \o s
      BY <1>2 DEF ProcessEvent, TypeInv, TransportTypeOK, ClientTypeOK
    <3>2. \A i \in 1..Len(outbox) : outbox[i] \in Request /\ outbox[i] \notin Members(e)
      BY <2>1, <3>1 DEF OutboxIsQueued
    <3>3. \A i \in 1..Len(s) : s[i] \in Members(e)
      BY DEF Members
    <3>4. \A i, j \in 1..Len(s) : s[i] = s[j] => i = j
      BY RequestsAreFresh
    <3>5. \A i \in 1..Len(outbox') :
            \/ i \in 1..Len(outbox) /\ outbox'[i] = outbox[i]
            \/ i - Len(outbox) \in 1..Len(s) /\ outbox'[i] = s[i - Len(outbox)]
      BY <3>1
    <3> HIDE DEF s
    <3>6. \A i \in 1..Len(outbox') : call'[outbox'[i]] = "queued"
      BY <2>2, <3>2, <3>3, <3>5, MembersAreRequests DEF OutboxIsQueued
    <3>7. \A i, j \in 1..Len(outbox') : outbox'[i] = outbox'[j] => i = j
      <4> SUFFICES ASSUME NEW i \in 1..Len(outbox'), NEW j \in 1..Len(outbox'),
                          outbox'[i] = outbox'[j]
                   PROVE  i = j
        OBVIOUS
      <4>1. i \in Int /\ j \in Int /\ Len(outbox) \in Int
        BY <3>1
      <4>2. CASE i \in 1..Len(outbox) /\ j \in 1..Len(outbox)
        <5>1. outbox'[i] = outbox[i] /\ outbox'[j] = outbox[j]
          BY <3>5, <4>1, <4>2
        <5> QED BY <4>2, <5>1 DEF OutboxIsQueued
      <4>3. CASE i \notin 1..Len(outbox) /\ j \notin 1..Len(outbox)
        <5>1. i - Len(outbox) = j - Len(outbox)
          BY <3>4, <3>5, <4>3
        <5> QED BY <4>1, <5>1
      <4>4. CASE i \in 1..Len(outbox) /\ j \notin 1..Len(outbox)
        BY <3>1, <3>2, <3>3, <3>5, <4>4
      <4>5. CASE i \notin 1..Len(outbox) /\ j \in 1..Len(outbox)
        BY <3>1, <3>2, <3>3, <3>5, <4>5
      <4> QED BY <4>2, <4>3, <4>4, <4>5
    <3> QED BY <3>6, <3>7 DEF OutboxIsQueued
  <2>5. CallsFollowPhase'
    <3> SUFFICES ASSUME NEW f \in Event, NEW r \in Members(f)
                 PROVE  /\ phase'[f] = "idle" \/ f \in Unmappable => call'[r] = "unsent"
                        /\ Settled(f)' /\ f \notin Unmappable => call'[r] = "ended"
      BY DEF CallsFollowPhase
    <3>1. CASE f = e
      <4>1. RequestsOf[e] # <<>>
        BY <3>1 DEF Members
      <4>2. phase'[e] = "active"
        BY <1>2, <4>1 DEF ProcessEvent, TypeInv, TransportTypeOK, ClientTypeOK
      <4> QED BY <2>1, <3>1, <4>2 DEF Settled
    <3>2. CASE f # e
      <4>1. r \notin Members(e)
        BY <3>2, MembersAreDisjoint
      <4>2. phase'[f] = phase[f]
        BY <1>2, <3>2 DEF ProcessEvent, TypeInv, TransportTypeOK, ClientTypeOK
      <4>3. call'[r] = call[r]
        BY <2>2, <4>1, MembersAreRequests
      <4> QED BY <4>2, <4>3 DEF CallsFollowPhase, Settled
    <3> QED BY <3>1, <3>2
  <2> QED BY <2>3, <2>4, <2>5
<1> QED BY <1>1, <1>2 DEF Invoke

\* Publication opens a queued call, which nothing routed to before.
LEMMA PublishCalls ==
  ASSUME CallsInv, NEW r \in Request, PublishRequest(r) \/ PublishToNobody(r)
  PROVE  RoutingIsLive' /\ OutboxIsQueued' /\ CallsFollowPhase'
<1> USE DEF CallsInv, TypeInv, TransportTypeOK, ClientTypeOK, BrokerTypeOK
<1>1. Publish(r)
  BY DEF PublishRequest, PublishToNobody
<1>2. /\ outbox \in Seq(Request) /\ outbox # <<>>
      /\ r = outbox[1] /\ outbox' = Tail(outbox) /\ call[r] = "queued"
  BY <1>1 DEF Publish, OutboxIsQueued
<1>3. sent' = [sent EXCEPT ![r] = PacketId(r)]
  BY DEF PublishRequest, PublishToNobody, SendToConsumer, SendToNobody
<1>4. /\ routingMap' = [routingMap EXCEPT ![PacketId(r)] = r]
      /\ call' = [call EXCEPT ![r] = "open"]
      /\ phase' = phase
  BY <1>1 DEF Publish
<1>5. RoutingIsLive'
  <2> SUFFICES ASSUME NEW i \in Id, routingMap'[i] # NoRequest
               PROVE  call'[routingMap'[i]] = "open" /\ sent'[routingMap'[i]] = i
    BY DEF RoutingIsLive
  <2>1. CASE i = PacketId(r)
    BY <1>3, <1>4, <2>1
  <2>2. CASE i # PacketId(r)
    <3>1. routingMap'[i] = routingMap[i] /\ routingMap[i] \in Request
      BY <1>4, <2>2
    <3>2. call[routingMap[i]] = "open" /\ sent[routingMap[i]] = i
      BY <3>1 DEF RoutingIsLive
    <3> QED BY <1>2, <1>3, <1>4, <3>1, <3>2
  <2> QED BY <2>1, <2>2
<1>6. OutboxIsQueued'
  <2>1. \A i \in 1..Len(outbox') : i + 1 \in 1..Len(outbox) /\ outbox'[i] = outbox[i + 1]
    BY <1>2
  <2>2. \A i \in 1..Len(outbox') : outbox'[i] # r /\ outbox'[i] \in Request
    BY <1>2, <2>1 DEF OutboxIsQueued
  <2>3. \A i \in 1..Len(outbox') : call'[outbox'[i]] = "queued"
    <3> SUFFICES ASSUME NEW i \in 1..Len(outbox') PROVE call'[outbox'[i]] = "queued"
      OBVIOUS
    <3>1. call[outbox[i + 1]] = "queued"
      BY <2>1 DEF OutboxIsQueued
    <3> QED BY <1>4, <2>1, <2>2, <3>1
  <2>4. \A i, j \in 1..Len(outbox') : outbox'[i] = outbox'[j] => i + 1 = j + 1
    <3> SUFFICES ASSUME NEW i \in 1..Len(outbox'), NEW j \in 1..Len(outbox'),
                        outbox'[i] = outbox'[j]
                 PROVE  i + 1 = j + 1
      OBVIOUS
    <3>1. outbox[i + 1] = outbox[j + 1] /\ i + 1 \in 1..Len(outbox) /\ j + 1 \in 1..Len(outbox)
      BY <2>1
    <3> HIDE DEF ClientTypeOK, BrokerTypeOK, TypeInv, TransportTypeOK
    <3> QED BY <3>1 DEF OutboxIsQueued
  <2>5. \A i, j \in 1..Len(outbox') : i + 1 = j + 1 => i = j
    BY <1>2
  <2> QED BY <2>3, <2>4, <2>5 DEF OutboxIsQueued
<1>7. CallsFollowPhase'
  <2>1. \A e \in Event : \A q \in Members(e) : q \in Request
    BY MembersAreRequests
  <2> QED BY <1>2, <1>4, <2>1 DEF CallsFollowPhase, Settled
<1> QED BY <1>5, <1>6, <1>7

\* Delivery reaches an open call of an active event only, and settles the
\* event with its last call.
LEMMA DeliverCalls ==
  ASSUME CallsInv, NEW e \in Event, NEW r \in Members(e), DeliverResponse(e, r),
         sent' = sent
  PROVE  /\ ~Settled(e)
         /\ RoutingIsLive' /\ OutboxIsQueued' /\ CallsFollowPhase'
<1> USE DEF CallsInv, TypeInv, TransportTypeOK, ClientTypeOK, BrokerTypeOK
<1>1. r \in Request
  BY MembersAreRequests
<1>2. Head(inbox) \in Packet /\ Head(inbox).id \in Id /\ routingMap[Head(inbox).id] = r
  <2>1. inbox \in Seq(Packet) /\ inbox # <<>> /\ routingMap[Head(inbox).id] = r
    BY DEF DeliverResponse
  <2>2. Head(inbox) \in Packet
    BY <2>1
  <2> QED BY <2>1, <2>2 DEF Packet
<1>3. call[r] = "open" /\ r # NoRequest
  BY <1>1, <1>2, EventAssumption DEF RoutingIsLive
<1>4. ~Settled(e) /\ phase[e] # "idle" /\ e \notin Unmappable
  BY <1>3 DEF CallsFollowPhase, Settled
<1>5. outbox' = outbox
  BY DEF DeliverResponse
<1>6. CASE UNCHANGED <<call, routingMap, phase>>
  BY <1>4, <1>5, <1>6 DEF RoutingIsLive, OutboxIsQueued, CallsFollowPhase, Settled
<1>7. CASE EndCall(e, r)
  <2>1. call' = [call EXCEPT ![r] = "ended"]
    BY <1>7 DEF EndCall
  <2>2. RoutingIsLive'
    <3> SUFFICES ASSUME NEW i \in Id, routingMap'[i] # NoRequest
                 PROVE  call'[routingMap'[i]] = "open" /\ sent'[routingMap'[i]] = i
      BY DEF RoutingIsLive
    <3>1. routingMap'[i] = routingMap[i] /\ i # sent[r]
      BY <1>7 DEF EndCall
    <3> QED BY <2>1, <3>1 DEF RoutingIsLive
  <2>3. OutboxIsQueued'
    BY <1>3, <1>5, <2>1 DEF OutboxIsQueued
  <2>4. CallsFollowPhase'
    <3> SUFFICES ASSUME NEW f \in Event, NEW q \in Members(f)
                 PROVE  /\ phase'[f] = "idle" \/ f \in Unmappable => call'[q] = "unsent"
                        /\ Settled(f)' /\ f \notin Unmappable => call'[q] = "ended"
      BY DEF CallsFollowPhase
    <3>1. CASE f = e
      <4>1. phase'[e] # "idle"
        BY <1>4, <1>7 DEF EndCall, Outcome
      <4>2. Settled(e)' => \A m \in Members(e) : call'[m] = "ended"
        BY <1>4, <1>7 DEF EndCall, Settled
      <4> QED BY <1>4, <3>1, <4>1, <4>2
    <3>2. CASE f # e
      <4>1. q # r /\ q \in Request
        BY <3>2, MembersAreDisjoint, MembersAreRequests
      <4>2. phase'[f] = phase[f] /\ call'[q] = call[q]
        BY <1>7, <3>2, <4>1 DEF EndCall
      <4> QED BY <4>2 DEF CallsFollowPhase, Settled
    <3> QED BY <3>1, <3>2
  <2> QED BY <1>4, <2>2, <2>3, <2>4
<1> QED BY <1>6, <1>7 DEF DeliverResponse

\* Nothing else touches the calls.
LEMMA OtherCalls ==
  ASSUME CallsInv, UNCHANGED <<phase, call, outbox, routingMap, sent>>
  PROVE  RoutingIsLive' /\ OutboxIsQueued' /\ CallsFollowPhase'
  BY DEF CallsInv, RoutingIsLive, OutboxIsQueued, CallsFollowPhase, Settled

\* The steps of the server, of its lifecycle and of the crash.
LEMMA ServerLeavesCalls ==
  ASSUME \/ StartServer \/ CloseServer \/ Crash
         \/ \E r \in Request :
              \/ ServeRequest(r) \/ RefuseRequest(r) \/ RejectRequest(r)
              \/ StreamValue(r) \/ EndStream(r) \/ DrainQueue(r)
         \/ UNCHANGED vars
  PROVE  UNCHANGED <<phase, tuples, call, outbox, routingMap, sent>>
<1>1. CASE StartServer \/ CloseServer \/ Crash
  BY <1>1 DEF StartServer, CloseServer, Crash, Listen, Close, AddConsumer, CloseBroker,
     clientVars, brokerVars
<1>2. ASSUME NEW r \in Request, RefuseRequest(r) \/ DrainQueue(r)
      PROVE  UNCHANGED <<phase, tuples, call, outbox, routingMap, sent>>
  BY <1>2 DEF RefuseRequest, DrainQueue, Emit, EmitResponse, ReceiveResponse
<1>3. ASSUME NEW r \in Request,
             ServeRequest(r) \/ RejectRequest(r) \/ StreamValue(r) \/ EndStream(r)
      PROVE  UNCHANGED <<phase, tuples, call, outbox, routingMap, sent>>
  BY <1>3 DEF ServeRequest, RejectRequest, StreamValue, EndStream, clientVars, brokerVars
<1>4. CASE UNCHANGED vars
  BY <1>4 DEF vars, clientVars, brokerVars
<1> QED BY <1>1, <1>2, <1>3, <1>4

\* Every step keeps the invariant and the results of settled events.
LEMMA StepCalls ==
  ASSUME CallsInv, [Next]_vars
  PROVE  /\ CallsInv'
         /\ \A e \in Event : Settled(e) => phase'[e] = phase[e] /\ tuples'[e] = tuples[e]
<1> DEFINE Kept == \A e \in Event :
             Settled(e) => phase'[e] = phase[e] /\ tuples'[e] = tuples[e]
<1>1. TypeInv'
  BY StepTypes DEF CallsInv
<1>2. ASSUME NEW e \in Event, Invoke(e)
      PROVE  CallsInv' /\ Kept
  <2>1. Kept
    BY <1>2 DEF Invoke, RejectEvent, ProcessEvent, Settled, CallsInv, TypeInv, TransportTypeOK, ClientTypeOK
  <2> QED BY <1>1, <1>2, <2>1, InvokeCalls DEF CallsInv
<1>3. ASSUME NEW r \in Request, PublishRequest(r) \/ PublishToNobody(r)
      PROVE  CallsInv' /\ Kept
  <2>1. Kept
    BY <1>3 DEF PublishRequest, PublishToNobody, Publish
  <2> QED BY <1>1, <1>3, <2>1, PublishCalls DEF CallsInv
<1>4. CASE RunCallback
  <2>1. UNCHANGED sent
    BY <1>4 DEF RunCallback, brokerVars
  <2>2. CASE DropResponse
    BY <1>1, <2>1, <2>2, OtherCalls DEF DropResponse, CallsInv
  <2>3. ASSUME NEW e \in Event, NEW r \in Members(e), DeliverResponse(e, r)
        PROVE  CallsInv' /\ Kept
    <3>1. ~Settled(e) /\ CallsInv'
      BY <1>1, <2>1, <2>3, DeliverCalls DEF CallsInv
    <3>2. Kept
      <4> SUFFICES ASSUME NEW f \in Event, Settled(f)
                   PROVE  phase'[f] = phase[f] /\ tuples'[f] = tuples[f]
        OBVIOUS
      <4>1. f # e
        BY <3>1
      <4> QED BY <2>3, <4>1 DEF DeliverResponse, EndCall, CallsInv, TypeInv, TransportTypeOK, ClientTypeOK
    <3> QED BY <3>1, <3>2
  <2> QED BY <1>4, <2>2, <2>3 DEF RunCallback
<1>5. ASSUME UNCHANGED <<phase, tuples, call, outbox, routingMap, sent>>
      PROVE  CallsInv' /\ Kept
  BY <1>1, <1>5, OtherCalls DEF CallsInv
<1> QED BY <1>2, <1>3, <1>4, <1>5, ServerLeavesCalls DEF Next

\* The invariant of the calls.
LEMMA CallsInvariance == Spec => []CallsInv
<1>1. CallsInv /\ [Next]_vars => CallsInv'
  BY StepCalls
<1> QED BY <1>1, InitCalls, PTL DEF Spec

\* The routing map only ever leads to open calls, under the id they were sent
\* with: an answer that comes late finds nobody, or whoever now has its id.
THEOREM RoutingStaysLive == Spec => []RoutingIsLive
<1>1. CallsInv => RoutingIsLive
  BY DEF CallsInv
<1> QED BY <1>1, CallsInvariance, PTL

\* An invocation settles at most once, and its tuples never change afterwards.
THEOREM SettlementIsFinal == Spec => SettledIsFinal
<1>1. CallsInv /\ [Next]_vars =>
        [\A e \in Event : Settled(e) => phase'[e] = phase[e] /\ tuples'[e] = tuples[e]]_vars
  BY StepCalls
<1> QED BY <1>1, CallsInvariance, PTL DEF Spec, SettledIsFinal

-----------------------------------------------------------------------------
(***************************************************************************)
(* Redelivery: what the invocations of one process owe each other, without *)
(* the assumption that no two requests ever share an id: a message that    *)
(* comes again with its id, as redelivery does, is as good as a new one,   *)
(* as long as the two are not in flight at the same time.                  *)
(***************************************************************************)
\* The records of an event have ids of their own, and what may overlap shares
\* neither id nor payload.
RequestsDiffer ==
  /\ \A e \in Event : \A r, q \in Members(e) : IdOf[r] = IdOf[q] => r = q
  /\ Overlapping => DistinctRequests

Live(r) == call[r] \in {"queued", "open"}

\* The client's two maps know each live call, and no other under its id or
\* payload.
MapsInv ==
  /\ \A r \in Request : call[r] # "unsent" => \E e \in Event : r \in Members(e)
  /\ \A q, r \in Request :
       Live(q) /\ Live(r) /\ (IdOf[q] = IdOf[r] \/ DataOf[q] = DataOf[r]) => q = r
  /\ \A r \in Request : call[r] = "queued" => requestMap[DataOf[r]] = r
  /\ \A r \in Request : call[r] = "open" => sent[r] = IdOf[r] /\ routingMap[IdOf[r]] = r

\* The packets that end a call.
Final(p) == p.disposed \/ p.kind = "error"

\* A queue of the server holds answers to its request; the final one comes
\* last, and after the handling.
QueuesInv ==
  \A r \in Request :
    /\ call[r] \in {"unsent", "queued"} => work[r] = "none"
    /\ dataQueue[r] # <<>> => work[r] \in {"streaming", "completed", "empty", "errored"}
    /\ \A i \in 1..Len(dataQueue[r]) :
         /\ dataQueue[r][i].origin = r /\ dataQueue[r][i].id = sent[r]
         /\ Final(dataQueue[r][i]) =>
              i = Len(dataQueue[r]) /\ dataQueue[r][i].disposed /\ work[r] \in Answered

\* The handling of r is over: only a refused one leaves its listener behind.
Over(r) ==
  /\ work[r] \in Answered /\ dataQueue[r] = <<>>
  /\ r \in listeners => work[r] = "unqualified"

\* What waits in the inbox is for an open call, and nothing of a call follows
\* its final packet.
Awaited(k) ==
  /\ call[inbox[k].origin] = "open" /\ inbox[k].id = IdOf[inbox[k].origin]
  /\ Final(inbox[k]) =>
       /\ Over(inbox[k].origin)
       /\ \A j \in (k + 1)..Len(inbox) : inbox[j].origin # inbox[k].origin

InboxInv == \A k \in 1..Len(inbox) : Awaited(k)

EndedInv == \A r \in Request : call[r] = "ended" => Over(r)

\* NoCrosstalk needs that the inbox is for open calls, which the maps tell
\* apart; that no packet outlives its call needs that the final one is last.
HandlingInv ==
  CallsInv /\ MapsInv /\ QueuesInv /\ InboxInv /\ EndedInv /\ NoCrosstalk

\* The packets in the inbox are packets.
LEMMA InboxHoldsPackets ==
  ASSUME CallsInv
  PROVE  \A k \in 1..Len(inbox) : inbox[k] \in Packet /\ inbox[k].origin \in Request
<1>1. inbox \in Seq(Packet)
  BY DEF CallsInv, TypeInv, TransportTypeOK, ClientTypeOK
<1>2. \A k \in 1..Len(inbox) : inbox[k] \in Packet
  BY <1>1
<1> QED BY <1>2 DEF Packet

\* The initial state.
LEMMA InitHandling == Init => HandlingInv
<1> SUFFICES ASSUME Init PROVE HandlingInv
  OBVIOUS
<1>1. CallsInv
  BY InitCalls
<1>2. MapsInv /\ QueuesInv /\ InboxInv /\ EndedInv
  BY DEF Init, ClientInit, ServerInit, MapsInv, QueuesInv, InboxInv, EndedInv, Live
<1>3. NoCrosstalk
  BY DEF Init, ClientInit, NoCrosstalk
<1> QED BY <1>1, <1>2, <1>3 DEF HandlingInv

\* A live call belongs to an active invocation.
LEMMA LiveIsActive ==
  ASSUME CallsInv, NEW e \in Event, NEW r \in Members(e), Live(r)
  PROVE  phase[e] = "active"
  BY DEF CallsInv, CallsFollowPhase, Settled, Live, TypeInv, TransportTypeOK, ClientTypeOK

\* Invocation adds calls that differ from every live one.
LEMMA InvokeHandling ==
  ASSUME RequestsDiffer, HandlingInv, NEW e \in Event, Invoke(e)
  PROVE  MapsInv' /\ QueuesInv' /\ InboxInv' /\ EndedInv' /\ NoCrosstalk'
<1> USE DEF HandlingInv
<1>0. /\ UNCHANGED <<tuples, routingMap, inbox, sent, listeners, work, dataQueue>>
      /\ Overlapping \/ \A f \in Event : phase[f] # "active"
  BY DEF Invoke, RejectEvent, ProcessEvent, brokerVars, serverVars
<1>1. NoCrosstalk'
  BY <1>0 DEF NoCrosstalk
<1>2. CASE RejectEvent(e)
  BY <1>0, <1>1, <1>2 DEF RejectEvent, MapsInv, QueuesInv, InboxInv, Awaited, EndedInv, Over, Live
<1>3. CASE ProcessEvent(e)
  <2>1. /\ phase[e] = "idle" /\ e \notin Unmappable
        /\ \A r \in Members(e) : r \in Request /\ call[r] = "unsent"
    BY <1>3, MembersAreRequests DEF ProcessEvent, CallsInv, CallsFollowPhase
  <2>2. \A r \in Request : call'[r] = IF r \in Members(e) THEN "queued" ELSE call[r]
    BY <1>3 DEF ProcessEvent
  <2>3. ASSUME NEW q \in Request, NEW r \in Members(e), call'[q] \in {"queued", "open"},
               IdOf[q] = IdOf[r] \/ DataOf[q] = DataOf[r]
        PROVE  q = r
    <3>1. CASE q \in Members(e)
      BY <2>3, <3>1, RecordsAreDistinct DEF RequestsDiffer, Members
    <3>2. CASE q \notin Members(e)
      <4>1. Live(q)
        BY <2>2, <2>3, <3>2 DEF Live
      <4>2. PICK f \in Event : q \in Members(f)
        BY <4>1 DEF MapsInv, Live
      <4>3. DistinctRequests
        BY <1>0, <4>1, <4>2, LiveIsActive DEF RequestsDiffer
      <4> QED BY <2>1, <2>3, <4>3 DEF DistinctRequests
    <3> QED BY <3>1, <3>2
  <2>4. MapsInv'
    <3>1. \A r \in Request : call'[r] # "unsent" => \E f \in Event : r \in Members(f)
      BY <2>2 DEF MapsInv
    <3>2. \A q, r \in Request :
            Live(q)' /\ Live(r)' /\ (IdOf[q] = IdOf[r] \/ DataOf[q] = DataOf[r]) => q = r
      <4> SUFFICES ASSUME NEW q \in Request, NEW r \in Request, Live(q)', Live(r)',
                          IdOf[q] = IdOf[r] \/ DataOf[q] = DataOf[r]
                   PROVE  q = r
        OBVIOUS
      <4>1. CASE q \in Members(e) \/ r \in Members(e)
        BY <2>3, <4>1 DEF Live
      <4>2. CASE q \notin Members(e) /\ r \notin Members(e)
        BY <2>2, <4>2 DEF MapsInv, Live
      <4> QED BY <4>1, <4>2
    <3>3. \A r \in Request : call'[r] = "queued" => requestMap'[DataOf[r]] = r
      <4> SUFFICES ASSUME NEW r \in Request, call'[r] = "queued"
                   PROVE  requestMap'[DataOf[r]] = r
        OBVIOUS
      <4>1. DataOf[r] \in Data /\ \A m \in Members(e) : DataOf[m] = DataOf[r] => m = r
        BY <2>3, EventAssumption
      <4>2. CASE r \in Members(e)
        <5>1. requestMap'[DataOf[r]] = CHOOSE m \in Members(e) : DataOf[m] = DataOf[r]
          BY <1>3, <4>1, <4>2 DEF ProcessEvent
        <5> QED BY <4>1, <4>2, <5>1
      <4>3. CASE r \notin Members(e)
        <5>1. requestMap'[DataOf[r]] = requestMap[DataOf[r]]
          BY <1>3, <4>1, <4>3 DEF ProcessEvent
        <5> QED BY <2>2, <4>3, <5>1 DEF MapsInv
      <4> QED BY <4>2, <4>3
    <3>4. \A r \in Request :
            call'[r] = "open" => sent'[r] = IdOf[r] /\ routingMap'[IdOf[r]] = r
      BY <1>0, <2>2 DEF MapsInv
    <3> QED BY <3>1, <3>2, <3>3, <3>4 DEF MapsInv
  <2>5. QueuesInv'
    BY <1>0, <2>1, <2>2 DEF QueuesInv
  <2>6. InboxInv'
    <3>1. \A k \in 1..Len(inbox) : inbox[k].origin \in Request
      BY InboxHoldsPackets
    <3>2. \A k \in 1..Len(inbox) : call'[inbox[k].origin] = "open"
      BY <2>1, <2>2, <3>1 DEF InboxInv, Awaited
    <3> QED BY <1>0, <3>2 DEF InboxInv, Awaited, Over
  <2>7. EndedInv'
    BY <1>0, <2>2 DEF EndedInv, Over
  <2> QED BY <1>1, <2>4, <2>5, <2>6, <2>7
<1> QED BY <1>2, <1>3 DEF Invoke

\* Publication opens a queued call under its own id.
LEMMA PublishHandling ==
  ASSUME HandlingInv, NEW r \in Request, PublishRequest(r) \/ PublishToNobody(r)
  PROVE  MapsInv' /\ QueuesInv' /\ InboxInv' /\ EndedInv' /\ NoCrosstalk'
<1> USE DEF HandlingInv
<1>1. Publish(r)
  BY DEF PublishRequest, PublishToNobody
<1>2. call[r] = "queued" /\ work[r] = "none" /\ dataQueue[r] = <<>>
  <2>1. outbox \in Seq(Request) /\ outbox # <<>> /\ r = outbox[1]
    BY <1>1 DEF Publish, CallsInv, TypeInv, TransportTypeOK, ClientTypeOK
  <2> QED BY <2>1 DEF CallsInv, OutboxIsQueued, QueuesInv
<1>3. PacketId(r) = IdOf[r] /\ IdOf[r] \in Id
  BY <1>2, EventAssumption DEF PacketId, MapsInv
<1>4. /\ sent' = [sent EXCEPT ![r] = IdOf[r]]
      /\ listeners' \subseteq listeners \cup {r}
      /\ work' \in {work, [work EXCEPT ![r] = "received"]}
      /\ dataQueue' = dataQueue
  BY <1>3 DEF PublishRequest, PublishToNobody, SendToConsumer, SendToNobody, Receive, serverVars
<1>5. /\ routingMap' = [routingMap EXCEPT ![IdOf[r]] = r]
      /\ call' = [call EXCEPT ![r] = "open"]
      /\ UNCHANGED <<tuples, requestMap, inbox>>
  BY <1>1, <1>3 DEF Publish
<1> USE DEF CallsInv, TypeInv, TransportTypeOK, BrokerTypeOK, ClientTypeOK, ServerTypeOK
<1>6. \A q \in Request \ {r} :
        /\ sent'[q] = sent[q] /\ call'[q] = call[q] /\ work'[q] = work[q]
        /\ dataQueue'[q] = dataQueue[q] /\ (q \in listeners' => q \in listeners)
  BY <1>4, <1>5
<1>7. call'[r] = "open" /\ sent'[r] = IdOf[r] /\ dataQueue'[r] = <<>>
  BY <1>2, <1>4, <1>5
<1> HIDE DEF CallsInv, TypeInv, TransportTypeOK, BrokerTypeOK, ClientTypeOK, ServerTypeOK
<1>8. MapsInv'
  <2>1. \A q \in Request : Live(q)' <=> Live(q)
    BY <1>2, <1>6, <1>7 DEF Live
  <2>2. \A q \in Request : call'[q] = "open" => sent'[q] = IdOf[q] /\ routingMap'[IdOf[q]] = q
    <3> SUFFICES ASSUME NEW q \in Request, call'[q] = "open", q # r
                 PROVE  sent'[q] = IdOf[q] /\ routingMap'[IdOf[q]] = q
      BY <1>3, <1>5, <1>7 DEF CallsInv, TypeInv, TransportTypeOK, ClientTypeOK
    <3>1. IdOf[q] # IdOf[r] /\ IdOf[q] \in Id
      BY <1>2, <1>6, EventAssumption DEF MapsInv, Live
    <3> QED BY <1>5, <1>6, <3>1 DEF MapsInv, CallsInv, TypeInv, TransportTypeOK, ClientTypeOK
  <2>3. \A q \in Request : call'[q] = "queued" => requestMap'[DataOf[q]] = q
    BY <1>5, <1>6, <1>7 DEF MapsInv
  <2>4. \A q \in Request : call'[q] # "unsent" => \E e \in Event : q \in Members(e)
    BY <1>2, <1>6 DEF MapsInv
  <2> QED BY <2>1, <2>2, <2>3, <2>4 DEF MapsInv
<1>9. QueuesInv'
  <2> SUFFICES ASSUME NEW q \in Request
               PROVE  /\ call'[q] \in {"unsent", "queued"} => work'[q] = "none"
                      /\ dataQueue'[q] # <<>> =>
                           work'[q] \in {"streaming", "completed", "empty", "errored"}
                      /\ \A i \in 1..Len(dataQueue'[q]) :
                           /\ dataQueue'[q][i].origin = q /\ dataQueue'[q][i].id = sent'[q]
                           /\ Final(dataQueue'[q][i]) =>
                                /\ i = Len(dataQueue'[q]) /\ dataQueue'[q][i].disposed
                                /\ work'[q] \in Answered
    BY DEF QueuesInv, Final
  <2>1. CASE q = r
    BY <1>7, <2>1
  <2>2. CASE q # r
    BY <1>6, <2>2 DEF QueuesInv
  <2> QED BY <2>1, <2>2
<1>10. \A q \in Request \ {r} : Over(q) => Over(q)'
  BY <1>6 DEF Over
<1>11. InboxInv'
  <2>1. \A k \in 1..Len(inbox) : inbox[k].origin \in Request
    BY InboxHoldsPackets
  <2>2. \A k \in 1..Len(inbox) : inbox[k].origin \in Request \ {r}
    BY <1>2, <2>1 DEF InboxInv, Awaited
  <2> QED BY <1>5, <1>6, <1>10, <2>2 DEF InboxInv, Awaited
<1>12. EndedInv'
  BY <1>6, <1>7, <1>10 DEF EndedInv
<1>13. NoCrosstalk'
  BY <1>5 DEF NoCrosstalk
<1> QED BY <1>8, <1>9, <1>11, <1>12, <1>13

\* Steps that neither touch the client nor emit.
LEMMA QuietHandling ==
  ASSUME HandlingInv, UNCHANGED <<sent, tuples, call, requestMap, routingMap, inbox>>,
         \A q \in Request : Over(q) => Over(q)'
  PROVE  MapsInv' /\ InboxInv' /\ EndedInv' /\ NoCrosstalk'
<1> USE DEF HandlingInv
<1>1. MapsInv' /\ NoCrosstalk'
  BY DEF MapsInv, Live, NoCrosstalk
<1>2. InboxInv'
  BY InboxHoldsPackets DEF InboxInv, Awaited
<1>3. EndedInv'
  BY DEF EndedInv
<1> QED BY <1>1, <1>2, <1>3

\* A packet reaches the client once, if its listener is there: the only open
\* call under its id is the one it answers.
LEMMA EmitOnce ==
  ASSUME HandlingInv, NEW r \in Request, NEW p \in Packet, p.id = sent[r],
         call[r] = "open", Emit(p)
  PROVE  /\ inbox' = IF r \in listeners THEN Append(inbox, p) ELSE inbox
         /\ listeners' \subseteq listeners
         /\ p.disposed => r \notin listeners'
         /\ UNCHANGED <<sent, tuples, call, requestMap, routingMap, phase>>
<1> USE DEF HandlingInv
<1>1. listeners \subseteq Request
  BY DEF CallsInv, TypeInv, TransportTypeOK, BrokerTypeOK
<1>2. Subscribed(p) = IF r \in listeners THEN {r} ELSE {}
  BY <1>1 DEF Subscribed, Addressees, MapsInv, Live
<1>3. inbox \in Seq(Packet)
  BY DEF CallsInv, TypeInv, TransportTypeOK, ClientTypeOK
<1>4. CASE r \notin listeners
  <2>1. inbox' = inbox \o [k \in 1..0 |-> p]
    BY <1>2, <1>4, FS_EmptySet DEF Emit, ReceiveResponse
  <2>2. inbox' = inbox
    BY <1>3, <2>1
  <2> QED BY <1>4, <2>2 DEF Emit, EmitResponse, ReceiveResponse, Addressees
<1>5. CASE r \in listeners
  <2>1. inbox' = inbox \o [k \in 1..1 |-> p]
    BY <1>2, <1>5, FS_Singleton DEF Emit, ReceiveResponse
  <2>2. [k \in 1..1 |-> p] = <<p>>
    OBVIOUS
  <2>3. inbox \o <<p>> = Append(inbox, p)
    BY <1>3
  <2>4. inbox' = Append(inbox, p)
    BY <2>1, <2>2, <2>3
  <2> QED BY <1>5, <2>4 DEF Emit, EmitResponse, ReceiveResponse, Addressees
<1> QED BY <1>4, <1>5

\* The server emits an answer to a request whose handling is not over.
LEMMA EmitHandling ==
  ASSUME HandlingInv, NEW r \in Request, NEW p \in Packet, p.origin = r, p.id = sent[r],
         call[r] = "open", Emit(p), ~Over(r), Final(p) => Over(r)',
         \A q \in Request : Over(q) => Over(q)'
  PROVE  MapsInv' /\ InboxInv' /\ EndedInv' /\ NoCrosstalk'
<1> USE DEF HandlingInv
<1>1. /\ inbox' \in {inbox, Append(inbox, p)}
      /\ UNCHANGED <<sent, tuples, call, requestMap, routingMap>>
  BY EmitOnce
<1>2. CASE inbox' = inbox
  BY <1>1, <1>2, QuietHandling
<1>3. CASE inbox' = Append(inbox, p)
  <2>1. MapsInv' /\ NoCrosstalk' /\ EndedInv'
    BY <1>1 DEF MapsInv, Live, NoCrosstalk, EndedInv
  <2>2. inbox \in Seq(Packet) /\ p.id = IdOf[r]
    BY DEF CallsInv, TypeInv, TransportTypeOK, ClientTypeOK, MapsInv
  <2>3. /\ Len(inbox') = Len(inbox) + 1 /\ inbox'[Len(inbox) + 1] = p
        /\ \A k \in 1..Len(inbox) : inbox'[k] = inbox[k]
        /\ Len(inbox) \in Nat
    BY <1>3, <2>2
  <2>4. \A k \in 1..Len(inbox) : Final(inbox[k]) => inbox[k].origin # r
    BY DEF InboxInv, Awaited
  <2>5. InboxInv'
    <3> SUFFICES ASSUME NEW k \in 1..Len(inbox') PROVE Awaited(k)'
      BY DEF InboxInv
    <3>1. CASE k = Len(inbox) + 1
      <4>1. inbox'[k] = p /\ (k + 1)..Len(inbox') = {}
        BY <2>3, <3>1
      <4> QED BY <1>1, <2>2, <4>1 DEF Awaited, Final, Over
    <3>2. CASE k # Len(inbox) + 1
      <4>1. k \in 1..Len(inbox) /\ inbox'[k] = inbox[k]
        BY <2>3, <3>2
      <4>2. /\ call[inbox[k].origin] = "open" /\ inbox[k].id = IdOf[inbox[k].origin]
            /\ Final(inbox[k]) => Over(inbox[k].origin)
        BY <4>1 DEF InboxInv, Awaited
      <4>3. ASSUME Final(inbox[k]), NEW j \in (k + 1)..Len(inbox')
            PROVE  inbox'[j].origin # inbox[k].origin
        <5>1. CASE j = Len(inbox) + 1
          BY <2>3, <2>4, <4>1, <4>3, <5>1
        <5>2. CASE j # Len(inbox) + 1
          <6>1. j \in (k + 1)..Len(inbox) /\ inbox'[j] = inbox[j]
            BY <2>3, <4>1, <5>2
          <6> QED BY <4>1, <4>3, <6>1 DEF InboxInv, Awaited
        <5> QED BY <5>1, <5>2
      <4>4. inbox[k].origin \in Request
        BY <4>1, InboxHoldsPackets
      <4> QED BY <1>1, <4>1, <4>2, <4>3, <4>4 DEF Awaited, Final, Over
    <3> QED BY <3>1, <3>2
  <2> QED BY <2>1, <2>5
<1> QED BY <1>1, <1>2, <1>3

\* What is being handled has an open call, under the id it was sent with.
LEMMA ServedIsOpen ==
  ASSUME HandlingInv, NEW r \in Request, work[r] # "none", ~Over(r)
  PROVE  call[r] = "open" /\ sent[r] = IdOf[r] /\ sent[r] \in Id
  BY EventAssumption DEF HandlingInv, CallsInv, TypeInv, TransportTypeOK, ClientTypeOK,
     QueuesInv, EndedInv, MapsInv

\* finalize leaves one final packet, at the end.
LEMMA DisposeEnds ==
  ASSUME NEW r \in Request, NEW q \in Seq(Packet)
  PROVE  /\ Dispose(q, r) # <<>>
         /\ \A i \in 1..Len(Dispose(q, r)) :
              \/ i # Len(Dispose(q, r)) /\ i \in 1..(Len(q) - 1) /\ Dispose(q, r)[i] = q[i]
              \/ /\ i = Len(Dispose(q, r)) /\ Dispose(q, r)[i].disposed
                 /\ \/ i = Len(q) /\ q # <<>>
                       /\ Dispose(q, r)[i].origin = q[i].origin
                       /\ Dispose(q, r)[i].id = q[i].id
                    \/ Dispose(q, r)[i].origin = r /\ Dispose(q, r)[i].id = sent[r]
<1>1. CASE q = <<>>
  BY <1>1 DEF Dispose, Answer
<1>2. CASE q # <<>>
  <2> DEFINE z == [q[Len(q)] EXCEPT !.disposed = TRUE]
  <2>1. Len(q) \in 1..Len(q) /\ q[Len(q)] \in Packet
    BY <1>2
  <2>2. z.disposed /\ z.origin = q[Len(q)].origin /\ z.id = q[Len(q)].id
    BY <2>1 DEF Packet
  <2>3. Dispose(q, r) = [q EXCEPT ![Len(q)] = z]
    BY <1>2, <2>1 DEF Dispose
  <2> HIDE DEF z
  <2>4. /\ Len(Dispose(q, r)) = Len(q) /\ Dispose(q, r)[Len(q)] = z
        /\ \A i \in 1..Len(q) : i # Len(q) => Dispose(q, r)[i] = q[i]
    BY <2>1, <2>3
  <2> QED BY <1>2, <2>1, <2>2, <2>4
<1> QED BY <1>1, <1>2

\* A step that changes one queue keeps QueuesInv if the new queue has it.
LEMMA OneQueue ==
  ASSUME HandlingInv, NEW r \in Request, UNCHANGED <<call, sent>>,
         \A q \in Request \ {r} : work'[q] = work[q] /\ dataQueue'[q] = dataQueue[q],
         work[r] # "none", call[r] = "open",
         dataQueue'[r] # <<>> => work'[r] \in {"streaming", "completed", "empty", "errored"},
         \A i \in 1..Len(dataQueue'[r]) :
           /\ dataQueue'[r][i].origin = r /\ dataQueue'[r][i].id = sent[r]
           /\ Final(dataQueue'[r][i]) =>
                i = Len(dataQueue'[r]) /\ dataQueue'[r][i].disposed /\ work'[r] \in Answered
  PROVE  QueuesInv'
<1> SUFFICES ASSUME NEW q \in Request
             PROVE  /\ call'[q] \in {"unsent", "queued"} => work'[q] = "none"
                    /\ dataQueue'[q] # <<>> =>
                         work'[q] \in {"streaming", "completed", "empty", "errored"}
                    /\ \A i \in 1..Len(dataQueue'[q]) :
                         /\ dataQueue'[q][i].origin = q /\ dataQueue'[q][i].id = sent'[q]
                         /\ Final(dataQueue'[q][i]) =>
                              /\ i = Len(dataQueue'[q]) /\ dataQueue'[q][i].disposed
                              /\ work'[q] \in Answered
  BY DEF QueuesInv, Final
<1>1. CASE q = r
  BY <1>1
<1>2. CASE q # r
  BY <1>2 DEF HandlingInv, QueuesInv
<1> QED BY <1>1, <1>2

\* Where the elements of a longer or a shorter queue come from.
LEMMA AppendElements ==
  ASSUME NEW S, NEW s \in Seq(S), NEW x \in S, NEW i \in 1..Len(Append(s, x))
  PROVE  \/ i = Len(s) + 1 /\ Append(s, x)[i] = x
         \/ i \in 1..Len(s) /\ Append(s, x)[i] = s[i]
<1>1. Len(Append(s, x)) = Len(s) + 1 /\ Len(s) \in Nat
  OBVIOUS
<1>2. \A k \in 1..Len(s) : Append(s, x)[k] = s[k]
  OBVIOUS
<1>3. Append(s, x)[Len(s) + 1] = x
  OBVIOUS
<1> QED BY <1>1, <1>2, <1>3

\* The elements of a queue without its first one.
LEMMA TailElements ==
  ASSUME NEW S, NEW s \in Seq(S), s # <<>>
  PROVE  /\ 1 \in 1..Len(s) /\ Head(s) = s[1]
         /\ Len(s) = 1 => Tail(s) = <<>>
         /\ \A i \in 1..Len(Tail(s)) :
              /\ i + 1 \in 1..Len(s) /\ Tail(s)[i] = s[i + 1]
              /\ i + 1 = Len(s) => i = Len(Tail(s))
<1>1. 1 \in 1..Len(s) /\ Len(s) \in Nat
  BY EmptySeq
<1>2. Head(s) = s[1]
  OBVIOUS
<1>3. /\ Tail(s) \in Seq(S) /\ Len(Tail(s)) = Len(s) - 1
      /\ \A i \in 1..Len(Tail(s)) : Tail(s)[i] = s[i + 1]
  BY HeadTailProperties
<1>4. Len(s) = 1 => Tail(s) = <<>>
  <2>1. Tail(s) # <<>> => Len(Tail(s)) \in Nat \ {0}
    BY <1>3, EmptySeq
  <2> QED BY <1>1, <1>3, <2>1
<1>5. ASSUME NEW i \in 1..Len(Tail(s))
      PROVE  /\ i + 1 \in 1..Len(s) /\ Tail(s)[i] = s[i + 1]
             /\ i + 1 = Len(s) => i = Len(Tail(s))
  <2> DEFINE m == Len(s)
             t == Len(Tail(s))
  <2>1. m \in Nat /\ t = m - 1 /\ i \in 1..t /\ Tail(s)[i] = s[i + 1]
    BY <1>1, <1>3
  <2> HIDE DEF m, t
  <2>2. i + 1 \in 1..m /\ (i + 1 = m => i = t)
    BY <2>1
  <2> QED BY <2>1, <2>2 DEF m, t
<1> QED BY <1>1, <1>2, <1>4, <1>5

\* The steps of the server.
LEMMA ServeHandling ==
  ASSUME HandlingInv, NEW r \in Request,
         \/ ServeRequest(r) \/ RefuseRequest(r) \/ RejectRequest(r)
         \/ StreamValue(r) \/ EndStream(r) \/ DrainQueue(r)
  PROVE  MapsInv' /\ QueuesInv' /\ InboxInv' /\ EndedInv' /\ NoCrosstalk'
<1> DEFINE Serving == {"received", "running", "streaming"}
<1>0. /\ work \in [Request -> {"none", "received", "running", "streaming", "rejected"} \cup Answered]
      /\ dataQueue \in [Request -> Seq(Packet)]
      /\ produced \in [Request -> Seq({"value", "void"})]
  BY DEF HandlingInv, CallsInv, TypeInv, TransportTypeOK, ServerTypeOK
<1>1. work[r] \in Serving \/ dataQueue[r] # <<>> => ~Over(r) /\ work[r] # "none"
  BY DEF HandlingInv, QueuesInv, Over, Answered
<1>2. /\ dataQueue[r] # <<>> => work[r] \in {"streaming", "completed", "empty", "errored"}
      /\ \A i \in 1..Len(dataQueue[r]) :
           /\ dataQueue[r][i].origin = r /\ dataQueue[r][i].id = sent[r]
           /\ Final(dataQueue[r][i]) =>
                i = Len(dataQueue[r]) /\ dataQueue[r][i].disposed /\ work[r] \in Answered
  BY DEF HandlingInv, QueuesInv
<1>3. CASE ServeRequest(r) \/ RejectRequest(r)
  <2>1. /\ work[r] \in {"received", "running"} /\ work'[r] \in {"running", "streaming", "rejected"}
        /\ \A q \in Request \ {r} : work'[q] = work[q]
        /\ UNCHANGED <<dataQueue, listeners, sent, tuples, call, requestMap, routingMap, inbox>>
    BY <1>0, <1>3 DEF ServeRequest, RejectRequest, CallHandler, SubscribeResponse, HandlerRejects,
       brokerVars, clientVars
  <2>2. ~Over(r) /\ work[r] # "none" /\ dataQueue[r] = <<>>
    BY <1>1, <1>2, <2>1
  <2>3. QueuesInv'
    BY <2>1, <2>2, OneQueue, ServedIsOpen
  <2>4. \A q \in Request : Over(q) => Over(q)'
    BY <2>1, <2>2 DEF Over
  <2> QED BY <2>1, <2>3, <2>4, QuietHandling
<1>4. CASE RefuseRequest(r)
  <2> DEFINE p == Unqualified(r)
  <2>1. /\ work[r] = "received" /\ work'[r] = "unqualified" /\ dataQueue' = dataQueue
        /\ \A q \in Request \ {r} : work'[q] = work[q]
        /\ Emit(p)
    BY <1>0, <1>4 DEF RefuseRequest, RefuseMessage
  <2>2. ~Over(r) /\ work[r] # "none" /\ dataQueue[r] = <<>>
    BY <1>1, <1>2, <2>1
  <2>3. call[r] = "open" /\ sent[r] \in Id
    BY <2>2, ServedIsOpen
  <2>4. p \in Packet /\ p.origin = r /\ p.id = sent[r] /\ ~p.disposed
    BY <2>3 DEF Unqualified, Answer, Packet, Kind
  <2>5. UNCHANGED <<call, sent>> /\ listeners' \subseteq listeners
    BY <2>1 DEF Emit, EmitResponse, ReceiveResponse
  <2>6. QueuesInv'
    BY <2>1, <2>2, <2>3, <2>5, OneQueue
  <2>7. Over(r)' /\ \A q \in Request : Over(q) => Over(q)'
    BY <2>1, <2>2, <2>5 DEF Over, Answered
  <2> HIDE DEF p
  <2> QED BY <2>1, <2>2, <2>3, <2>4, <2>6, <2>7, EmitHandling
<1>5. CASE StreamValue(r)
  <2>1. PICK k \in {"value", "void"} : EmitValue(r, k)
    BY <1>5 DEF StreamValue
  <2> DEFINE a == Answer(r, k, Len(produced[r]) + 1, FALSE)
             s == dataQueue[r]
  <2>2. /\ work[r] = "streaming" /\ work' = work /\ dataQueue'[r] = Append(s, a)
        /\ \A q \in Request \ {r} : dataQueue'[q] = dataQueue[q]
        /\ UNCHANGED <<listeners, sent, tuples, call, requestMap, routingMap, inbox>>
    BY <1>0, <1>5, <2>1 DEF StreamValue, EmitValue, brokerVars, clientVars
  <2>3. ~Over(r) /\ work[r] # "none" /\ call[r] = "open" /\ sent[r] \in Id
    BY <1>1, <2>2, ServedIsOpen
  <2>4. a \in Packet /\ a.origin = r /\ a.id = sent[r] /\ ~Final(a)
    <3>1. Len(produced[r]) + 1 \in Nat
      BY <1>0
    <3> QED BY <2>1, <2>3, <3>1 DEF Answer, Final, Packet, Kind
  <2>5. s \in Seq(Packet) /\ work[r] \notin Answered
    BY <1>0, <2>2 DEF Answered
  <2> HIDE DEF a, s
  <2>6. \A i \in 1..Len(dataQueue'[r]) :
          dataQueue'[r][i] = a \/ (i \in 1..Len(s) /\ dataQueue'[r][i] = s[i])
    <3>1. \A i \in 1..Len(Append(s, a)) :
            Append(s, a)[i] = a \/ (i \in 1..Len(s) /\ Append(s, a)[i] = s[i])
      BY <2>4, <2>5, AppendElements
    <3> QED BY <2>2, <3>1
  <2>7. \A i \in 1..Len(dataQueue'[r]) :
          /\ dataQueue'[r][i].origin = r /\ dataQueue'[r][i].id = sent[r]
          /\ ~Final(dataQueue'[r][i])
    BY <1>2, <2>4, <2>5, <2>6 DEF s
  <2>8. QueuesInv'
    BY <2>2, <2>3, <2>7, OneQueue
  <2>9. \A q \in Request : Over(q) => Over(q)'
    BY <2>2, <2>3 DEF Over
  <2> QED BY <2>2, <2>8, <2>9, QuietHandling
<1>6. CASE EndStream(r)
  <2> DEFINE a == Answer(r, "error", 0, FALSE)
  <2>1. PICK s \in {dataQueue[r], Append(dataQueue[r], a)} :
          /\ dataQueue'[r] = Dispose(s, r)
          /\ work[r] = "streaming" /\ work'[r] \in {"completed", "empty", "errored"}
    BY <1>0, <1>6 DEF EndStream, Complete, Fail
  <2>2. /\ \A q \in Request \ {r} : work'[q] = work[q] /\ dataQueue'[q] = dataQueue[q]
        /\ UNCHANGED <<listeners, sent, tuples, call, requestMap, routingMap, inbox>>
    BY <1>0, <1>6 DEF EndStream, Complete, Fail, brokerVars, clientVars
  <2>3. ~Over(r) /\ work[r] # "none" /\ call[r] = "open" /\ sent[r] \in Id
    BY <1>1, <2>1, ServedIsOpen
  <2>4. a \in Packet /\ a.origin = r /\ a.id = sent[r]
    BY <2>3 DEF Answer, Packet, Kind
  <2>5. work[r] \notin Answered
    BY <2>1 DEF Answered
  <2> HIDE DEF a
  <2>6. /\ s \in Seq(Packet)
        /\ \A i \in 1..Len(s) : s[i] = a \/ (i \in 1..Len(dataQueue[r]) /\ s[i] = dataQueue[r][i])
        /\ \A i \in 1..(Len(s) - 1) : i \in 1..Len(dataQueue[r]) /\ s[i] = dataQueue[r][i]
    <3>1. dataQueue[r] \in Seq(Packet)
      BY <1>0
    <3>2. CASE s = dataQueue[r]
      BY <3>1, <3>2
    <3>3. CASE s = Append(dataQueue[r], a)
      <4>1. s \in Seq(Packet) /\ Len(s) = Len(dataQueue[r]) + 1 /\ Len(dataQueue[r]) \in Nat
        BY <2>4, <3>1, <3>3
      <4>2. \A i \in 1..Len(s) :
              \/ i = Len(dataQueue[r]) + 1 /\ s[i] = a
              \/ i \in 1..Len(dataQueue[r]) /\ s[i] = dataQueue[r][i]
        BY <2>4, <3>1, <3>3, AppendElements
      <4> DEFINE m == Len(dataQueue[r])
      <4>3. m \in Nat /\ Len(s) = m + 1
        BY <4>1
      <4>4. \A i \in 1..(Len(s) - 1) : i \in 1..m /\ i \in 1..Len(s) /\ i # m + 1
        <5> HIDE DEF m
        <5> QED BY <4>3
      <4> QED BY <4>1, <4>2, <4>4
    <3> QED BY <2>1, <3>2, <3>3
  <2>7. /\ \A i \in 1..Len(s) : s[i].origin = r /\ s[i].id = sent[r]
        /\ \A i \in 1..(Len(s) - 1) : ~Final(s[i])
    BY <1>2, <2>4, <2>5, <2>6
  <2>8. \A i \in 1..Len(dataQueue'[r]) :
          /\ dataQueue'[r][i].origin = r /\ dataQueue'[r][i].id = sent[r]
          /\ Final(dataQueue'[r][i]) => i = Len(dataQueue'[r]) /\ dataQueue'[r][i].disposed
    BY <2>1, <2>6, <2>7, DisposeEnds
  <2>9. QueuesInv'
    BY <2>1, <2>2, <2>3, <2>8, OneQueue DEF Answered
  <2>10. \A q \in Request : Over(q) => Over(q)'
    BY <2>2, <2>3 DEF Over
  <2> QED BY <2>2, <2>9, <2>10, QuietHandling
<1>7. CASE DrainQueue(r)
  <2> DEFINE s == dataQueue[r]
             p == Head(s)
  <2>1. /\ s # <<>> /\ dataQueue'[r] = Tail(s) /\ work' = work /\ Emit(p)
        /\ \A q \in Request \ {r} : dataQueue'[q] = dataQueue[q]
    BY <1>0, <1>7 DEF DrainQueue, Respond
  <2>2. ~Over(r) /\ work[r] # "none" /\ call[r] = "open"
    BY <1>1, <2>1, ServedIsOpen
  <2>3. s \in Seq(Packet) /\ 1 \in 1..Len(s) /\ p = s[1] /\ p \in Packet
    <3>1. s \in Seq(Packet) /\ s[1] = p
      BY <1>0, <2>1, TailElements
    <3> QED BY <2>1, <3>1
  <2>4. /\ p \in Packet /\ p.origin = r /\ p.id = sent[r]
        /\ Final(p) => Len(s) = 1 /\ p.disposed /\ work[r] \in Answered
    BY <1>2, <2>3
  <2>5. /\ inbox' \in {inbox, Append(inbox, p)} /\ listeners' \subseteq listeners
        /\ p.disposed => r \notin listeners'
        /\ UNCHANGED <<sent, tuples, call, requestMap, routingMap>>
    BY <2>1, <2>2, <2>4, EmitOnce
  <2>6. \A i \in 1..Len(Tail(s)) : i + 1 \in 1..Len(s) /\ Tail(s)[i] = s[i + 1]
                                   /\ (i + 1 = Len(s) => i = Len(Tail(s)))
    BY <2>1, <2>3, TailElements
  <2>7. \A i \in 1..Len(dataQueue'[r]) :
          /\ dataQueue'[r][i].origin = r /\ dataQueue'[r][i].id = sent[r]
          /\ Final(dataQueue'[r][i]) =>
               i = Len(dataQueue'[r]) /\ dataQueue'[r][i].disposed /\ work'[r] \in Answered
    BY <1>2, <2>1, <2>6
  <2>8. QueuesInv'
    BY <1>2, <2>1, <2>2, <2>5, <2>7, OneQueue
  <2>9. Final(p) => Over(r)'
    <3>1. Len(s) = 1 => Tail(s) = <<>>
      BY <2>1, <2>3, TailElements
    <3> QED BY <2>1, <2>4, <2>5, <3>1 DEF Over
  <2>10. \A q \in Request : Over(q) => Over(q)'
    BY <2>1, <2>2, <2>5 DEF Over
  <2> HIDE DEF p, s
  <2> QED BY <2>1, <2>2, <2>4, <2>8, <2>9, <2>10, EmitHandling
<1> QED BY <1>3, <1>4, <1>5, <1>6, <1>7

\* A callback delivers to the request its packet was produced for, and what
\* ends a call is the last of its packets.
LEMMA CallbackHandling ==
  ASSUME HandlingInv, RunCallback
  PROVE  MapsInv' /\ QueuesInv' /\ InboxInv' /\ EndedInv' /\ NoCrosstalk'
<1> USE DEF HandlingInv
<1>0. UNCHANGED <<sent, listeners, work, dataQueue>>
  BY DEF RunCallback, brokerVars, serverVars
<1>1. inbox \in Seq(Packet) /\ inbox # <<>> /\ inbox' = Tail(inbox)
  BY DEF RunCallback, DropResponse, DeliverResponse, CallsInv, TypeInv, TransportTypeOK,
     ClientTypeOK
<1>2. /\ 1 \in 1..Len(inbox) /\ Head(inbox) = inbox[1]
      /\ \A i \in 1..Len(inbox') : i + 1 \in 1..Len(inbox) /\ inbox'[i] = inbox[i + 1]
  BY <1>1, TailElements
<1>3. \A i \in 1..Len(inbox') : \A j \in (i + 1)..Len(inbox') : j + 1 \in (i + 2)..Len(inbox)
  <2> DEFINE m == Len(inbox)
             t == Len(inbox')
  <2>1. m \in Nat /\ t = m - 1
    BY <1>1, HeadTailProperties
  <2> HIDE DEF m, t
  <2>2. \A i \in 1..t : \A j \in (i + 1)..t : j + 1 \in (i + 2)..m
    BY <2>1
  <2> QED BY <2>2 DEF m, t
<1>4. ASSUME UNCHANGED <<call, requestMap, routingMap>>
      PROVE  MapsInv' /\ QueuesInv' /\ InboxInv' /\ EndedInv'
  <2>1. MapsInv' /\ QueuesInv' /\ EndedInv'
    BY <1>0, <1>4 DEF MapsInv, QueuesInv, EndedInv, Over, Live
  <2>2. InboxInv'
    <3> SUFFICES ASSUME NEW i \in 1..Len(inbox') PROVE Awaited(i)'
      BY DEF InboxInv
    <3>1. Awaited(i + 1) /\ inbox'[i] = inbox[i + 1]
      BY <1>2 DEF InboxInv
    <3>2. \A j \in (i + 1)..Len(inbox') :
            j + 1 \in (i + 2)..Len(inbox) /\ inbox'[j] = inbox[j + 1]
      BY <1>2, <1>3
    <3> QED BY <1>0, <1>4, <3>1, <3>2 DEF Awaited, Over
  <2> QED BY <2>1, <2>2
<1>5. CASE DropResponse
  BY <1>4, <1>5 DEF DropResponse, NoCrosstalk
<1>6. ASSUME NEW e \in Event, NEW r \in Members(e), DeliverResponse(e, r)
      PROVE  MapsInv' /\ QueuesInv' /\ InboxInv' /\ EndedInv' /\ NoCrosstalk'
  <2> DEFINE p == Head(inbox)
  <2>1. r \in Request /\ p = inbox[1] /\ p \in Packet /\ p.origin \in Request
    BY <1>2, InboxHoldsPackets, MembersAreRequests
  <2>2. Awaited(1)
    BY <1>2 DEF InboxInv
  <2>3. call[r] = "open" /\ p.origin = r /\ p.id = IdOf[r]
    BY <1>6, <2>1, <2>2 DEF Awaited, DeliverResponse, MapsInv
  <2>4. NoCrosstalk'
    <3> DEFINE t == [req |-> r, origin |-> p.origin, kind |-> p.kind, n |-> p.n]
               d == Delivery(r, p)
    <3>1. d \in {<<>>, <<t>>} /\ t \in Tuple /\ t.origin = t.req
      BY <2>1, <2>3 DEF Delivery, Tuple, Packet
    <3>2. tuples' = [tuples EXCEPT ![e] = tuples[e] \o d] /\ tuples \in [Event -> Seq(Tuple)]
      BY <1>6 DEF DeliverResponse, CallsInv, TypeInv, TransportTypeOK, ClientTypeOK
    <3> HIDE DEF t, d
    <3>3. d \in Seq(Tuple) /\ \A i \in 1..Len(d) : d[i].origin = d[i].req
      <4>1. CASE d = <<>>
        BY <4>1
      <4>2. CASE d = <<t>>
        BY <3>1, <4>2
      <4> QED BY <3>1, <4>1, <4>2
    <3>4. \A i \in 1..Len(tuples[e] \o d) :
            (tuples[e] \o d)[i].origin = (tuples[e] \o d)[i].req
      BY <3>2, <3>3 DEF NoCrosstalk
    <3> QED BY <3>2, <3>4 DEF NoCrosstalk
  <2>5. CASE UNCHANGED <<call, routingMap, phase>>
    BY <1>4, <1>6, <2>4, <2>5 DEF DeliverResponse
  <2>6. CASE Final(p) /\ EndCall(e, r)
    <3>1. /\ \A q \in Request : call'[q] = IF q = r THEN "ended" ELSE call[q]
          /\ routingMap' = [routingMap EXCEPT ![IdOf[r]] = NoRequest]
          /\ requestMap' = requestMap
      BY <1>6, <2>1, <2>3, <2>6 DEF EndCall, DeliverResponse, MapsInv, CallsInv, TypeInv,
         TransportTypeOK, ClientTypeOK
    <3>2. MapsInv'
      <4>1. \A q \in Request : Live(q)' => Live(q) /\ q # r
        BY <3>1 DEF Live
      <4>2. \A q \in Request : call'[q] = "open" =>
              sent'[q] = IdOf[q] /\ routingMap'[IdOf[q]] = q
        <5> SUFFICES ASSUME NEW q \in Request, call'[q] = "open"
                     PROVE  sent'[q] = IdOf[q] /\ routingMap'[IdOf[q]] = q
          OBVIOUS
        <5>1. call[q] = "open" /\ q # r /\ IdOf[q] # IdOf[r] /\ IdOf[q] \in Id
          BY <2>1, <2>3, <3>1, EventAssumption DEF MapsInv, Live
        <5> QED BY <1>0, <3>1, <5>1 DEF MapsInv, CallsInv, TypeInv, TransportTypeOK, ClientTypeOK
      <4>3. \A q \in Request : call'[q] = "queued" => requestMap'[DataOf[q]] = q
        BY <3>1 DEF MapsInv
      <4>4. \A q \in Request : call'[q] # "unsent" => \E f \in Event : q \in Members(f)
        BY <3>1 DEF MapsInv
      <4> QED BY <4>1, <4>2, <4>3, <4>4 DEF MapsInv
    <3>3. QueuesInv'
      BY <1>0, <2>3, <3>1 DEF QueuesInv
    <3>4. EndedInv'
      BY <1>0, <2>1, <2>2, <2>3, <2>6, <3>1 DEF EndedInv, Over, Awaited
    <3>5. InboxInv'
      <4> SUFFICES ASSUME NEW i \in 1..Len(inbox') PROVE Awaited(i)'
        BY DEF InboxInv
      <4>1. Awaited(i + 1) /\ inbox'[i] = inbox[i + 1] /\ inbox[i + 1].origin \in Request
        BY <1>2, InboxHoldsPackets DEF InboxInv
      <4>2. \A j \in (i + 1)..Len(inbox') :
              j + 1 \in (i + 2)..Len(inbox) /\ inbox'[j] = inbox[j + 1]
        BY <1>2, <1>3
      <4>3. inbox[i + 1].origin # r
        <5>1. i + 1 \in (1 + 1)..Len(inbox)
          <6>1. i \in 1..Len(inbox') /\ i + 1 \in 1..Len(inbox)
            BY <1>2
          <6> QED BY <6>1
        <5> QED BY <2>1, <2>2, <2>3, <2>6, <5>1 DEF Awaited
      <4> DEFINE o == inbox[i + 1].origin
      <4>4. call'[o] = "open" /\ inbox[i + 1].id = IdOf[o]
        BY <3>1, <4>1, <4>3 DEF Awaited
      <4>5. Final(inbox[i + 1]) =>
              /\ work[o] \in Answered /\ dataQueue[o] = <<>>
              /\ o \in listeners => work[o] = "unqualified"
              /\ \A j \in (i + 2)..Len(inbox) : inbox[j].origin # o
        <5>1. (i + 1) + 1 = i + 2
          OBVIOUS
        <5> QED BY <4>1, <5>1 DEF Awaited, Over
      <4>6. \A j \in (i + 1)..Len(inbox') :
              Final(inbox[i + 1]) => inbox'[j].origin # o
        BY <4>2, <4>5
      <4> QED BY <1>0, <4>1, <4>4, <4>5, <4>6 DEF Awaited, Over, Final
    <3> QED BY <2>4, <3>2, <3>3, <3>4, <3>5
  <2> QED BY <1>6, <2>5, <2>6 DEF DeliverResponse, Final
<1> QED BY <1>5, <1>6 DEF RunCallback

\* Every step keeps the invariant.
LEMMA StepHandling ==
  ASSUME RequestsDiffer, HandlingInv, [Next]_vars
  PROVE  HandlingInv'
<1>1. CallsInv'
  BY StepCalls DEF HandlingInv
<1>2. ASSUME MapsInv' /\ QueuesInv' /\ InboxInv' /\ EndedInv' /\ NoCrosstalk'
      PROVE  HandlingInv'
  BY <1>1, <1>2 DEF HandlingInv
<1>3. CASE StartServer \/ CloseServer \/ Crash \/ UNCHANGED vars
  <2>1. /\ UNCHANGED <<sent, tuples, call, requestMap, routingMap, inbox, work, dataQueue>>
        /\ listeners' \subseteq listeners
    BY <1>3 DEF StartServer, CloseServer, Crash, Listen, Close, AddConsumer, CloseBroker,
       vars, brokerVars, clientVars, serverVars
  <2>2. \A q \in Request : Over(q) => Over(q)'
    BY <2>1 DEF Over
  <2>3. QueuesInv'
    BY <2>1 DEF HandlingInv, QueuesInv
  <2> QED BY <1>2, <2>1, <2>2, <2>3, QuietHandling
<1>4. CASE \E e \in Event : Invoke(e)
  BY <1>2, <1>4, InvokeHandling
<1>5. CASE \E r \in Request : PublishRequest(r) \/ PublishToNobody(r)
  BY <1>2, <1>5, PublishHandling
<1>6. CASE \E r \in Request :
             \/ ServeRequest(r) \/ RefuseRequest(r) \/ RejectRequest(r)
             \/ StreamValue(r) \/ EndStream(r) \/ DrainQueue(r)
  BY <1>2, <1>6, ServeHandling
<1>7. CASE RunCallback
  BY <1>2, <1>7, CallbackHandling
<1> QED BY <1>3, <1>4, <1>5, <1>6, <1>7 DEF Next

\* The invariant of the handling.
LEMMA HandlingInvariance ==
  ASSUME RequestsDiffer
  PROVE  Spec => []HandlingInv
<1>1. HandlingInv /\ [Next]_vars => HandlingInv'
  BY StepHandling
<1> QED BY <1>1, InitHandling, PTL DEF Spec

\* Serial redelivery is safe: with ids that may come again in later events,
\* no request gets the answer to another, whatever the earlier ones have left
\* in the broker, the inbox and the maps.
THEOREM RedeliveryIsolates ==
  ASSUME RequestsDiffer
  PROVE  Spec => []NoCrosstalk
<1>1. HandlingInv => NoCrosstalk
  BY DEF HandlingInv
<1> QED BY <1>1, HandlingInvariance, PTL

\* An invocation settles after the handling of each of its requests is over
\* and all its answers are sent: nothing of it goes on in a frozen process.
THEOREM SettlementWaits ==
  ASSUME RequestsDiffer
  PROVE  Spec => []SettledMeansDone
<1>1. HandlingInv => SettledMeansDone
  BY MembersAreRequests
     DEF HandlingInv, CallsInv, CallsFollowPhase, EndedInv, Over, SettledMeansDone
<1> QED BY <1>1, HandlingInvariance, PTL

\* A listener is left behind in the broker by a refused request only.
THEOREM LeaksAreRefusals ==
  ASSUME RequestsDiffer
  PROVE  Spec => []OnlyUnqualifiedLeak
<1>1. HandlingInv => OnlyUnqualifiedLeak
  <2>1. HandlingInv => listeners \subseteq Request
    BY DEF HandlingInv, CallsInv, TypeInv, TransportTypeOK, BrokerTypeOK
  <2> QED BY <2>1 DEF HandlingInv, EndedInv, Over, OnlyUnqualifiedLeak
<1> QED BY <1>1, HandlingInvariance, PTL

=============================================================================
