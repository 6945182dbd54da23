------------------------------- MODULE Client -------------------------------
(***************************************************************************)
(* LambdaMicroserviceClient: processEvent sends one request per record     *)
(* through Nest's ClientProxy.send, publish puts it on the broker, and     *)
(* createResponseCallback routes each answer back by id.                   *)
(*                                                                         *)
(* Two steps of the code are asynchronous, and are the queues of this      *)
(* model: send defers publish behind `await connect()` (outbox), and a     *)
(* response callback awaits the deserializer (inbox).  Both queues are     *)
(* FIFO, as the microtask queue is; all response callbacks are alike, so   *)
(* an inbox entry is the packet alone.                                     *)
(***************************************************************************)
EXTENDS Broker, ResponseBuilders, FiniteSets

CONSTANTS
  Event,       \* the events Lambda may pass to processEvent, once each
  RequestsOf,  \* what mapEventToRequest makes of an event, in record order
  Unmappable,  \* the events for which that, or requestMap.set, throws
  SourceOf,    \* how the EventMapper classifies an event
  IdOf,        \* OutgoingRequest.id
  Data,        \* the (object) payloads, by identity
  DataOf,      \* OutgoingRequest.data
  NoRequest    \* an absent map entry

ASSUME RequestsAreFinite == IsFiniteSet(Request)
ASSUME EventAssumption ==
  /\ RequestsOf \in [Event -> Seq(Request)]
  /\ Unmappable \subseteq Event
  /\ SourceOf \in [Event -> Source]
  /\ IdOf \in [Request -> Id]
  /\ DataOf \in [Request -> Data]
  /\ NoRequest \notin Request

\* Every request object is built once, for one record of one event.
ASSUME RequestsAreFresh ==
  \A e, f \in Event : \A i \in 1..Len(RequestsOf[e]), j \in 1..Len(RequestsOf[f]) :
    RequestsOf[e][i] = RequestsOf[f][j] => e = f /\ i = j

\* The records of one event are distinct objects.
ASSUME RecordsAreDistinct ==
  \A e \in Event : \A i, j \in 1..Len(RequestsOf[e]) :
    DataOf[RequestsOf[e][i]] = DataOf[RequestsOf[e][j]] => i = j

VARIABLES
  phase,       \* of the promise of each processEvent call
  tuples,      \* the accumulator of reduce in each call
  call,        \* of the observable that send returned for each request
  outbox,      \* requests whose publish waits for connect()
  requestMap,  \* the WeakMap from a payload to its request
  routingMap,  \* ClientProxy.routingMap, from an id to the caller's callback
  inbox        \* response callbacks that wait for the deserializer

clientVars == <<phase, tuples, call, outbox, requestMap, routingMap, inbox>>

\* A ResponseTuple; origin and n identify the answer it holds.
Tuple == [req : Request, origin : Request, kind : Kind, n : Nat]

ClientTypeOK ==
  /\ phase \in [Event -> {"idle", "active", "resolved", "rejected"}]
  /\ tuples \in [Event -> Seq(Tuple)]
  /\ call \in [Request -> {"unsent", "queued", "open", "ended"}]
  /\ outbox \in Seq(Request)
  /\ requestMap \in [Data -> Request \cup {NoRequest}]
  /\ routingMap \in [Id -> Request \cup {NoRequest}]
  /\ inbox \in Seq(Packet)

ClientInit ==
  /\ phase = [e \in Event |-> "idle"]
  /\ tuples = [e \in Event |-> <<>>]
  /\ call = [r \in Request |-> "unsent"]
  /\ outbox = <<>>
  /\ requestMap = [d \in Data |-> NoRequest]
  /\ routingMap = [i \in Id |-> NoRequest]
  /\ inbox = <<>>

Members(e) == {RequestsOf[e][i] : i \in 1..Len(RequestsOf[e])}

Settled(e) == phase[e] \in {"resolved", "rejected"}

\* resolve(mapToLambdaResponse(...)), or reject with what it throws.
Outcome(e, ts) == IF Resolves(SourceOf[e], ts) THEN "resolved" ELSE "rejected"

-----------------------------------------------------------------------------
\* processEvent of an event that mapEventToRequest refuses, or whose payload
\* cannot be a key: one such record rejects the whole invocation, unsent.
RejectEvent(e) ==
  /\ phase[e] = "idle"
  /\ e \in Unmappable
  /\ phase' = [phase EXCEPT ![e] = "rejected"]
  /\ UNCHANGED <<tuples, call, outbox, requestMap, routingMap, inbox>>

\* Mutant: an event without records is left to a stream that never emits.
ProcessEventNoEmpty(e) ==
  /\ phase[e] = "idle" /\ e \notin Unmappable
  /\ phase' = [phase EXCEPT ![e] = "active"]
  /\ call' = [r \in Request |-> IF r \in Members(e) THEN "queued" ELSE call[r]]
  /\ requestMap' = [d \in Data |->
       IF \E r \in Members(e) : DataOf[r] = d
       THEN CHOOSE r \in Members(e) : DataOf[r] = d ELSE requestMap[d]]
  /\ outbox' = outbox \o RequestsOf[e]
  /\ UNCHANGED <<tuples, routingMap, inbox>>

\* processEvent: each request is noted under its payload and sent.  With no
\* request at all the merged stream is already complete.
ProcessEvent(e) ==
  /\ phase[e] = "idle"
  /\ e \notin Unmappable
  /\ phase' = [phase EXCEPT ![e] = IF RequestsOf[e] = <<>> THEN Outcome(e, <<>>) ELSE "active"]
  /\ requestMap' = [d \in Data |->
       IF \E r \in Members(e) : DataOf[r] = d
       THEN CHOOSE r \in Members(e) : DataOf[r] = d ELSE requestMap[d]]
  /\ call' = [r \in Request |-> IF r \in Members(e) THEN "queued" ELSE call[r]]
  /\ outbox' = outbox \o RequestsOf[e]
  /\ UNCHANGED <<tuples, routingMap, inbox>>

\* Mutant: the id is the invocation's (its first request's), not the record's.
PacketIdOfEvent(r) ==
  IdOf[RequestsOf[CHOOSE e \in Event : r \in Members(e)][1]]

\* assignPacketId: the id is read from requestMap when the packet is
\* published, not when the request was built.  Every payload that is published
\* is mapped, so it is never a fresh one.
PacketId(r) == IdOf[requestMap[DataOf[r]]]

\* publish, up to the call of sendRequest: the callback is routed by id.  The
\* serializer only copies, and sendRequest only calls handleMessage, which is
\* async: nothing of it throws into the catch.
Publish(r) ==
  /\ outbox # <<>> /\ r = Head(outbox)
  /\ outbox' = Tail(outbox)
  /\ routingMap' = [routingMap EXCEPT ![PacketId(r)] = r]
  /\ call' = [call EXCEPT ![r] = "open"]
  /\ UNCHANGED <<phase, tuples, requestMap, inbox>>

\* A response reaches the client once per addressed stream it subscribes to.
Subscribed(p) == {r \in Addressees(p) : call[r] = "open"}

ReceiveResponse(p) ==
  /\ inbox' = inbox \o [k \in 1..Cardinality(Subscribed(p)) |-> p]
  /\ UNCHANGED <<phase, tuples, call, outbox, requestMap, routingMap>>

\* A callback finds nobody to call: the answer is dropped.
DropResponse ==
  /\ inbox # <<>> /\ routingMap[Head(inbox).id] = NoRequest
  /\ inbox' = Tail(inbox)
  /\ UNCHANGED <<phase, tuples, call, outbox, requestMap, routingMap>>

\* Mutant: isDisposed is looked at before err.
DeliveryDisposedFirst(r, p) ==
  IF p.kind # "value" /\ p.disposed THEN <<>>
  ELSE <<[req |-> r, origin |-> p.origin, kind |-> p.kind, n |-> p.n]>>

\* A callback calls the observer of whoever is routed under the packet's id
\* now.  An error is caught into a tuple; a defined response, or an undefined
\* one that is not the last, is a tuple.
Delivery(r, p) ==
  IF p.kind = "void" /\ p.disposed THEN <<>>
  ELSE <<[req |-> r, origin |-> p.origin, kind |-> p.kind, n |-> p.n]>>

\* Mutants: the teardown leaves the route; the first observable that completes
\* settles the event.
EndCallKeepsRoute(e, r) ==
  /\ call' = [call EXCEPT ![r] = "ended"]
  /\ phase' = [phase EXCEPT ![e] =
       IF \A q \in Members(e) : call'[q] = "ended" THEN Outcome(e, tuples'[e]) ELSE @]
  /\ UNCHANGED routingMap

EndCallFirst(e, r) ==
  /\ call' = [call EXCEPT ![r] = "ended"]
  /\ routingMap' = [routingMap EXCEPT ![sent[r]] = NoRequest]
  /\ phase' = [phase EXCEPT ![e] = Outcome(e, tuples'[e])]

\* The observable of r ends: its teardown frees the route, and when it is the
\* last one of the event reduce emits and processEvent settles.
EndCall(e, r) ==
  /\ call' = [call EXCEPT ![r] = "ended"]
  /\ routingMap' = [routingMap EXCEPT ![sent[r]] = NoRequest]
  /\ phase' = [phase EXCEPT ![e] =
       IF \A q \in Members(e) : call'[q] = "ended" THEN Outcome(e, tuples'[e]) ELSE @]

DeliverResponse(e, r) ==
  /\ inbox # <<>> /\ r \in Members(e) /\ routingMap[Head(inbox).id] = r
  /\ tuples' = [tuples EXCEPT ![e] = @ \o Delivery(r, Head(inbox))]
  /\ IF Head(inbox).disposed \/ Head(inbox).kind = "error"
     THEN EndCall(e, r)
     ELSE UNCHANGED <<call, routingMap, phase>>
  /\ inbox' = Tail(inbox)
  /\ UNCHANGED <<outbox, requestMap>>
=============================================================================
