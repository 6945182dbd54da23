------------------------------- MODULE Broker -------------------------------
(***************************************************************************)
(* LambdaMicroserviceBroker: the in-process event bus between the client   *)
(* and the server.  A call of sendRequest creates one ReplaySubject and    *)
(* one responseEventListener, a closure over the request's id; both are    *)
(* named here by the request object the call was made for.  An event is    *)
(* emitted synchronously, so every operation below is one atomic step.     *)
(***************************************************************************)
EXTENDS Naturals, Sequences

CONSTANTS
  Request,     \* OutgoingRequest objects, one per sendRequest call
  Id,          \* request ids: two requests may carry the same id
  NoId         \* "sendRequest was not called yet"

ASSUME NoIdAssumption == NoId \notin Id

VARIABLES
  consumer,    \* is a RequestEvent listener (a server) registered
  listeners,   \* requests whose responseEventListener is on ResponseEvent
  sent,        \* the id captured by the closure of each request's listener
  stream,      \* the packets each responseStream$ has carried, all replayable
  status       \* of each responseStream$

brokerVars == <<consumer, listeners, sent, stream, status>>

\* What a response packet carries: "value" is a defined response, "void" an
\* undefined one, "error" a truthy err.
Kind == {"value", "void", "error"}

\* A response on the bus.  origin (the request whose handling produced it)
\* and n (the ordinal of the value) stand for the payload.
Packet == [id : Id, origin : Request, kind : Kind, n : Nat, disposed : BOOLEAN]

BrokerTypeOK ==
  /\ consumer \in BOOLEAN
  /\ listeners \in SUBSET Request
  /\ sent \in [Request -> Id \cup {NoId}]
  /\ stream \in [Request -> Seq(Packet)]
  /\ status \in [Request -> {"none", "open", "complete", "error"}]

BrokerInit ==
  /\ consumer = FALSE
  /\ listeners = {}
  /\ sent = [r \in Request |-> NoId]
  /\ stream = [r \in Request |-> <<>>]
  /\ status = [r \in Request |-> "none"]

-----------------------------------------------------------------------------
\* The server's listen registers its handler on RequestEvent.
AddConsumer ==
  /\ consumer' = TRUE
  /\ UNCHANGED <<listeners, sent, stream, status>>

\* close removes every listener of both events, in-flight requests included.
CloseBroker ==
  /\ consumer' = FALSE
  /\ listeners' = {}
  /\ UNCHANGED <<sent, stream, status>>

\* sendRequest when somebody listens: the response listener is registered
\* first, then the request is emitted (the consumer's part is the server's).
SendToConsumer(r, id) ==
  /\ consumer
  /\ listeners' = listeners \cup {r}
  /\ sent' = [sent EXCEPT ![r] = id]
  /\ status' = [status EXCEPT ![r] = "open"]
  /\ UNCHANGED <<consumer, stream>>

\* sendRequest when nobody listens: the stream fails with NoConsumerError.
SendToNobody(r, id) ==
  /\ ~consumer
  /\ sent' = [sent EXCEPT ![r] = id]
  /\ status' = [status EXCEPT ![r] = "error"]
  /\ UNCHANGED <<consumer, listeners, stream>>

\* Mutant: the listener does not compare ids.
AddresseesAll(p) == {r \in listeners : p.id \in Id}

\* The listeners an emitted response reaches: those created for its id.
Addressees(p) == {r \in listeners : sent[r] = p.id}

\* Mutants: what reaches the stream has lost its id; the listener does not
\* remove itself; the stream is not completed.
EmitResponseNoId(p) ==
  /\ stream' = [r \in Request |-> IF r \in Addressees(p) THEN Append(stream[r], [p EXCEPT !.id = NoId])
                                                          ELSE stream[r]]
  /\ UNCHANGED <<consumer, listeners, sent, status>>

EmitResponseNoOff(p) ==
  /\ stream' = [r \in Request |-> IF r \in Addressees(p) THEN Append(stream[r], p)
                                                          ELSE stream[r]]
  /\ status' = [r \in Request |-> IF r \in Addressees(p) /\ p.disposed THEN "complete"
                                                                      ELSE status[r]]
  /\ UNCHANGED <<consumer, listeners, sent>>

EmitResponseNoComplete(p) ==
  /\ stream' = [r \in Request |-> IF r \in Addressees(p) THEN Append(stream[r], p)
                                                          ELSE stream[r]]
  /\ listeners' = IF p.disposed THEN listeners \ Addressees(p) ELSE listeners
  /\ UNCHANGED <<consumer, sent, status>>

\* emit(ResponseEvent, p): each addressee forwards p to its stream, and on a
\* disposed packet completes the stream and removes itself.
EmitResponse(p) ==
  /\ stream' = [r \in Request |-> IF r \in Addressees(p) THEN Append(stream[r], p)
                                                          ELSE stream[r]]
  /\ IF p.disposed
     THEN /\ listeners' = listeners \ Addressees(p)
          /\ status' = [r \in Request |-> IF r \in Addressees(p) THEN "complete"
                                                                  ELSE status[r]]
     ELSE UNCHANGED <<listeners, status>>
  /\ UNCHANGED <<consumer, sent>>
=============================================================================
