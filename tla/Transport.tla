----------------------------- MODULE Transport ------------------------------
(***************************************************************************)
(* The client and the server around one broker, in one Node.js process.    *)
(* Lambda calls processEvent; everything else is a job of the event loop.  *)
(* The model lets the jobs of different requests run in any order, which   *)
(* includes the order of the event loop.                                   *)
(***************************************************************************)
EXTENDS Client, Server

CONSTANT Overlapping   \* may processEvent be called while another is active

ASSUME OverlappingAssumption == Overlapping \in BOOLEAN

VARIABLES
  process,     \* "running" or "crashed"
  uncaught     \* requests with an error nobody handles: NoConsumerError in
               \* the client, a rejected handleMessage in the server

vars == <<brokerVars, clientVars, serverVars, process, uncaught>>

TransportTypeOK ==
  /\ BrokerTypeOK /\ ClientTypeOK /\ ServerTypeOK
  /\ process \in {"running", "crashed"}
  /\ uncaught \in SUBSET Request

Init ==
  /\ BrokerInit /\ ClientInit /\ ServerInit
  /\ process = "running"
  /\ uncaught = {}

-----------------------------------------------------------------------------
Alive == process = "running"

\* Lambda invokes the function; it does so serially unless Overlapping.
Invoke(e) ==
  /\ Alive
  /\ Overlapping \/ \A f \in Event : phase[f] # "active"
  /\ RejectEvent(e) \/ ProcessEvent(e)
  /\ UNCHANGED <<brokerVars, serverVars, process, uncaught>>

StartServer ==
  /\ Alive
  /\ Listen
  /\ UNCHANGED <<clientVars, process, uncaught>>

CloseServer ==
  /\ Alive
  /\ Close
  /\ UNCHANGED <<clientVars, process, uncaught>>

\* The client publishes and, within the same call, the broker hands the
\* request to the server.
PublishRequest(r) ==
  /\ Alive
  /\ Publish(r)
  /\ SendToConsumer(r, PacketId(r))
  /\ Receive(r)
  /\ UNCHANGED <<process, uncaught>>

\* There is no server: the client subscribes to the failed stream without an
\* error callback, so the error is raised in a job of its own.
PublishToNobody(r) ==
  /\ Alive
  /\ Publish(r)
  /\ SendToNobody(r, PacketId(r))
  /\ uncaught' = uncaught \cup {r}
  /\ UNCHANGED <<serverVars, process>>

ServeRequest(r) ==
  /\ Alive
  /\ CallHandler(r) \/ SubscribeResponse(r)
  /\ UNCHANGED <<brokerVars, clientVars, process, uncaught>>

\* The server emits a packet, which the broker hands to the client at once.
Emit(p) == EmitResponse(p) /\ ReceiveResponse(p)

RefuseRequest(r) ==
  /\ Alive
  /\ RefuseMessage(r)
  /\ Emit(Unqualified(r))
  /\ UNCHANGED <<process, uncaught>>

RejectRequest(r) ==
  /\ Alive
  /\ HandlerRejects(r)
  /\ uncaught' = uncaught \cup {r}
  /\ UNCHANGED <<brokerVars, clientVars, process>>

StreamValue(r) ==
  /\ Alive
  /\ \E k \in {"value", "void"} : EmitValue(r, k)
  /\ UNCHANGED <<brokerVars, clientVars, process, uncaught>>

EndStream(r) ==
  /\ Alive
  /\ Complete(r) \/ Fail(r)
  /\ UNCHANGED <<brokerVars, clientVars, process, uncaught>>

DrainQueue(r) ==
  /\ Alive
  /\ Respond(r)
  /\ Emit(Head(dataQueue[r]))
  /\ UNCHANGED <<process, uncaught>>

RunCallback ==
  /\ Alive
  /\ DropResponse \/ \E e \in Event : \E r \in Members(e) : DeliverResponse(e, r)
  /\ UNCHANGED <<brokerVars, serverVars, process, uncaught>>

\* Lambda's runtime ends the process on an uncaught error.
Crash ==
  /\ Alive
  /\ uncaught # {}
  /\ process' = "crashed"
  /\ UNCHANGED <<brokerVars, clientVars, serverVars, uncaught>>

Next ==
  \/ \E e \in Event : Invoke(e)
  \/ StartServer
  \/ CloseServer
  \/ \E r \in Request :
       \/ PublishRequest(r)
       \/ PublishToNobody(r)
       \/ ServeRequest(r)
       \/ RefuseRequest(r)
       \/ RejectRequest(r)
       \/ StreamValue(r)
       \/ EndStream(r)
       \/ DrainQueue(r)
  \/ RunCallback
  \/ Crash

Spec == Init /\ [][Next]_vars

\* A job that is ready runs: publishing, callbacks, the server's steps and the
\* crash.  Of the application it assumes that a handler settles and that its
\* observable ends.  Lambda and the server's lifecycle owe nothing.
Fairness ==
  /\ WF_vars(\E r \in Request : PublishRequest(r) \/ PublishToNobody(r))
  /\ WF_vars(RunCallback)
  /\ WF_vars(Crash)
  /\ \A r \in Request :
       /\ WF_vars(RefuseRequest(r))
       /\ WF_vars(ServeRequest(r) \/ RejectRequest(r))
       /\ WF_vars(EndStream(r))
       /\ WF_vars(DrainQueue(r))

FairSpec == Spec /\ Fairness

-----------------------------------------------------------------------------
\* A request never gets an answer produced for another one: neither a late or
\* repeated answer nor a listener left behind by an earlier request with the
\* same id (a redelivered message) puts a foreign response into a result.
NoCrosstalk ==
  \A e \in Event : \A i \in 1..Len(tuples[e]) : tuples[e][i].origin = tuples[e][i].req

\* Where the answers that the client has taken for one request are.
Taken(e, r) == {i \in 1..Len(tuples[e]) : tuples[e][i].req = r /\ tuples[e][i].kind # "error"}

\* The queueing on the next tick, the merging of the completion and the
\* asynchronous callbacks lose, repeat or reorder no response: a call takes
\* the responses as and in the order they were emitted, without a gap, and
\* when its observable has completed it has taken all of them, but for an
\* undefined last one.
ResponsesInOrder ==
  \A e \in Event : \A r \in Members(e) :
    LET taken == Taken(e, r)
        ordinals == {tuples[e][i].n : i \in taken}
        last == Len(produced[r])
    IN  /\ \E k \in 0..last : ordinals = 1..k
        /\ \A i, j \in taken : i < j => tuples[e][i].n < tuples[e][j].n
        /\ \A i \in taken : tuples[e][i].kind = produced[r][tuples[e][i].n]
        /\ call[r] = "ended" /\ work[r] \in {"completed", "empty"} =>
             \/ ordinals = 1..last
             \/ ordinals = 1..(last - 1) /\ produced[r][last] = "void"

\* A failed or unroutable request is an error of its event, whichever way it
\* failed, and no other request is: an SQS batch reports exactly the failed
\* records for retry; any other event is rejected exactly when a request
\* failed, or (API Gateway) when there is nothing to return.
FailuresAreReported ==
  \A e \in Event \ Unmappable : Settled(e) =>
    LET failed == {r \in Members(e) : work[r] \in {"errored", "unqualified"}}
        nothing == \A r \in Members(e) : work[r] = "empty"
    IN  /\ BatchItemFailures(tuples[e]) = failed
        /\ phase[e] = "rejected" <=>
             SourceOf[e] # "sqs" /\ (failed # {} \/ (SourceOf[e] = "apigw" /\ nothing))

\* When an invocation settles, and Lambda may freeze the process, nothing of
\* it is under way: every handler has ended and its queue is drained.
SettledMeansDone ==
  \A e \in Event : Settled(e) /\ e \notin Unmappable =>
    \A r \in Members(e) : work[r] \in Answered /\ dataQueue[r] = <<>>

\* The routing map holds live calls only, each under the id it was sent with,
\* so an idle client holds none.
RoutingIsLive ==
  \A i \in Id : routingMap[i] # NoRequest =>
    call[routingMap[i]] = "open" /\ sent[routingMap[i]] = i

\* The only listeners that outlive their call are those of unqualified
\* requests, whose error reply is not disposed.
OnlyUnqualifiedLeak ==
  \A r \in listeners : call[r] = "ended" => work[r] = "unqualified"

\* What was returned to Lambda is returned once, from tuples that no late
\* callback changes.
SettledIsFinal ==
  [][\A e \in Event : Settled(e) => phase'[e] = phase[e] /\ tuples'[e] = tuples[e]]_vars

\* Every invocation settles, unless the server is closed or the process
\* crashes under it.
InvocationsSettle ==
  \A e \in Event :
    phase[e] = "active" ~> Settled(e) \/ server = "closed" \/ process = "crashed"
=============================================================================
