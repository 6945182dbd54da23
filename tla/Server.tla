------------------------------- MODULE Server -------------------------------
(***************************************************************************)
(* LambdaMicroserviceServer: the consumer of the broker's requests.        *)
(* handleMessage is a process per request; the application's handler and   *)
(* the observable it returns are the environment.  send is Nest's          *)
(* Server.send: a queue of packets per request, drained on the next tick,  *)
(* in which the completion is merged into the packet before it.            *)
(***************************************************************************)
EXTENDS Broker

CONSTANTS
  RouteOf,     \* what getHandlerByPattern finds for each request
  MaxValues    \* bound on the values an observable emits

ASSUME RouteAssumption == RouteOf \in [Request -> {"message", "event", "none"}]
ASSUME MaxValuesAssumption == MaxValues \in Nat

VARIABLES
  server,      \* "created", "listening" or "closed"
  work,        \* how far the handling of each request is
  produced,    \* the responses each request's observable has emitted
  dataQueue    \* Server.send's queue for each request

serverVars == <<server, work, produced, dataQueue>>

\* The handling ended: the observable completed or failed, or the request
\* had no handler to go to.  "empty" is completed without a response to
\* return; "rejected" is an exception nobody handled.
Answered == {"completed", "empty", "errored", "unqualified"}

ServerTypeOK ==
  /\ server \in {"created", "listening", "closed"}
  /\ work \in [Request -> {"none", "received", "running", "streaming", "rejected"} \cup Answered]
  /\ produced \in [Request -> Seq({"value", "void"})]
  /\ dataQueue \in [Request -> Seq(Packet)]

ServerInit ==
  /\ server = "created"
  /\ work = [r \in Request |-> "none"]
  /\ produced = [r \in Request |-> <<>>]
  /\ dataQueue = [r \in Request |-> <<>>]

\* Mutant: the packet is published without the request's id.
AnswerNoId(r, kind, n, disposed) ==
  [id |-> NoId, origin |-> r, kind |-> kind, n |-> n, disposed |-> disposed]

\* publish of handleMessage stamps the id of the request onto the packet.
Answer(r, kind, n, disposed) ==
  [id |-> sent[r], origin |-> r, kind |-> kind, n |-> n, disposed |-> disposed]

-----------------------------------------------------------------------------
Listen ==
  /\ server = "created"
  /\ server' = "listening"
  /\ AddConsumer
  /\ UNCHANGED <<work, produced, dataQueue>>

Close ==
  /\ server = "listening"
  /\ server' = "closed"
  /\ CloseBroker
  /\ UNCHANGED <<work, produced, dataQueue>>

\* The RequestEvent listener is called: handleMessage runs to its first await.
Receive(r) ==
  /\ work' = [work EXCEPT ![r] = "received"]
  /\ UNCHANGED <<server, produced, dataQueue>>

\* handleMessage finds a message handler and calls it.
CallHandler(r) ==
  /\ work[r] = "received" /\ RouteOf[r] = "message"
  /\ work' = [work EXCEPT ![r] = "running"]
  /\ UNCHANGED <<server, produced, dataQueue>>

\* It finds an event handler, or none: an error goes out that is not disposed.
Unqualified(r) == Answer(r, "error", 0, FALSE)

RefuseMessage(r) ==
  /\ work[r] = "received" /\ RouteOf[r] # "message"
  /\ work' = [work EXCEPT ![r] = "unqualified"]
  /\ UNCHANGED <<server, produced, dataQueue>>

\* The awaited handler returned, and send subscribed to its observable.
SubscribeResponse(r) ==
  /\ work[r] = "running"
  /\ work' = [work EXCEPT ![r] = "streaming"]
  /\ UNCHANGED <<server, produced, dataQueue>>

\* The awaited handler threw: nothing catches it, nothing is sent.
HandlerRejects(r) ==
  /\ work[r] = "running"
  /\ work' = [work EXCEPT ![r] = "rejected"]
  /\ UNCHANGED <<server, produced, dataQueue>>

EmitValue(r, kind) ==
  /\ work[r] = "streaming" /\ Len(produced[r]) < MaxValues
  /\ produced' = [produced EXCEPT ![r] = Append(@, kind)]
  /\ dataQueue' = [dataQueue EXCEPT ![r] =
       Append(@, Answer(r, kind, Len(produced[r]) + 1, FALSE))]
  /\ UNCHANGED <<server, work>>

\* Mutants: the completion replaces the queued packet; it is lost when one is
\* queued.
DisposeReplacing(q, r) ==
  IF q = <<>> THEN <<Answer(r, "void", 0, TRUE)>>
  ELSE [q EXCEPT ![Len(q)] = Answer(r, "void", 0, TRUE)]

DisposeIdle(q, r) == IF q = <<>> THEN <<Answer(r, "void", 0, TRUE)>> ELSE q

\* finalize: the last packet still queued becomes the disposed one.
Dispose(q, r) ==
  IF q = <<>> THEN <<Answer(r, "void", 0, TRUE)>>
  ELSE [q EXCEPT ![Len(q)].disposed = TRUE]

\* Nothing is left to return when the only response was undefined and it is
\* merged with the completion.
Complete(r) ==
  /\ work[r] = "streaming"
  /\ dataQueue' = [dataQueue EXCEPT ![r] = Dispose(@, r)]
  /\ work' = [work EXCEPT ![r] =
       IF produced[r] = <<>> \/ (produced[r] = <<"void">> /\ dataQueue[r] # <<>>)
       THEN "empty" ELSE "completed"]
  /\ UNCHANGED <<server, produced>>

\* Mutant: the error is sent again with the completion.
FailTwice(r) ==
  /\ work[r] = "streaming"
  /\ dataQueue' = [dataQueue EXCEPT ![r] =
       @ \o <<Answer(r, "error", 0, FALSE), Answer(r, "error", 0, TRUE)>>]
  /\ work' = [work EXCEPT ![r] = "errored"]
  /\ UNCHANGED <<server, produced>>

\* catchError queues the error, and finalize then disposes that packet.
Fail(r) ==
  /\ work[r] = "streaming"
  /\ dataQueue' = [dataQueue EXCEPT ![r] =
       Dispose(Append(@, Answer(r, "error", 0, FALSE)), r)]
  /\ work' = [work EXCEPT ![r] = "errored"]
  /\ UNCHANGED <<server, produced>>

\* The drain loop shifts one packet and hands it to publish.
Respond(r) ==
  /\ dataQueue[r] # <<>>
  /\ dataQueue' = [dataQueue EXCEPT ![r] = Tail(@)]
  /\ UNCHANGED <<server, work, produced>>
=============================================================================
