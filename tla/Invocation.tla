----------------------------- MODULE Invocation -----------------------------
(***************************************************************************)
(* One processEvent from the event to what Lambda is told: the requests it *)
(* becomes, the answer that each of them gets, in any order, and the       *)
(* response built from the answers.  The way of a request through broker   *)
(* and server is one step here; Transport has its details.                 *)
(***************************************************************************)
EXTENDS EventMapping, FiniteSets

CONSTANT Event   \* the events Lambda may be invoked with

\* Which predicates hold of an event, under the names of their sources.
Verdicts(e) ==
  LET verdict == [apigw |-> IsApiGatewayEvent(e), eventbridge |-> IsEventBridgeEvent(e),
                  s3 |-> IsS3Event(e), sns |-> IsSnsEvent(e), sqs |-> IsSqsEvent(e),
                  kinesis |-> IsKinesisEvent(e), dynamodb |-> IsDynamoDbEvent(e)]
  IN  {source \in DOMAIN verdict : verdict[source]}

\* The tag that the sender of a batch gives to each of its records.
RecordTag == [s3 |-> "aws:s3", sns |-> "aws:sns", sqs |-> "aws:sqs",
              kinesis |-> "aws:kinesis", dynamodb |-> "aws:dynamodb"]

Lacks(e, fields) == e.has \cap fields = {}

\* The fields of one version of an API Gateway event or the other.
ApiGatewayFields == {{"httpMethod", "path"}, {"routeKey", "rawPath"}}

\* An event that could have come from a service, by its fields.
HasServiceShape(e) ==
  /\ e.object
  /\ \/ \E fields \in ApiGatewayFields : fields \cup {"requestContext", "isBase64Encoded"} \subseteq e.has
     \/ {"source", "detail-type"} \subseteq e.has \cap e.texts
     \/ "Records" \in e.has /\ \E s \in DOMAIN RecordTag :
                                  \A i \in DOMAIN e.records : e.records[i].tag = RecordTag[s]

ASSUME RecordsAssumption ==
  \A e \in Event :
    /\ e.records \in Seq({e.records[i] : i \in DOMAIN e.records})
    /\ e.sender = "sqs" => \A i \in DOMAIN e.records : e.records[i].id \in Nat

\* What the services of AWS send, as far as the predicates can see it: batches
\* are not empty and bear the tag of their sender, and no service uses the
\* fields of another.  A custom event is one that passes for none of them.
ASSUME SenderAssumption ==
  \A e \in Event :
    /\ e.sender \in DOMAIN RecordTag =>
         /\ e.object /\ "Records" \in e.has /\ Lacks(e, {"requestContext", "source"})
         /\ e.records # <<>>
         /\ \A i \in DOMAIN e.records : e.records[i].tag = RecordTag[e.sender]
    /\ e.sender = "eventbridge" =>
         /\ e.object /\ {"source", "detail-type"} \subseteq e.has \cap e.texts
         /\ Lacks(e, {"requestContext", "Records"})
    /\ e.sender = "apigw" =>
         /\ e.object /\ {"requestContext", "isBase64Encoded"} \subseteq e.has
         /\ \E fields \in ApiGatewayFields : fields \subseteq e.has
         /\ Lacks(e, {"source", "Records"})
    /\ e.sender \notin DOMAIN RecordTag \cup {"eventbridge", "apigw"} =>
         e.sender = "custom" /\ ~HasServiceShape(e)

VARIABLES
  event,     \* the event being processed
  stage,     \* "idle", "sent", "resolved" or "rejected"
  requests,  \* its requests
  outcome,   \* what became of each request: "none", "value", "void", "error"
  tuples,    \* the accumulated tuples: position of the request, and kind
  response   \* what the promise resolved to

vars == <<event, stage, requests, outcome, tuples, response>>

NoEvent == [object |-> FALSE, has |-> {}, sender |-> "nobody"]

InvocationTypeOK ==
  /\ event \in Event \cup {NoEvent}
  /\ stage \in {"idle", "sent", "resolved", "rejected"}
  /\ \A i \in DOMAIN requests : requests[i].pattern # Thrown
  /\ DOMAIN outcome = DOMAIN requests
  /\ \A i \in DOMAIN outcome : outcome[i] \in {"none", "value", "void", "error"}
  /\ \A i \in DOMAIN tuples :
       tuples[i].req \in DOMAIN requests /\ tuples[i].kind \in {"value", "error"}

Init ==
  /\ event = NoEvent
  /\ stage = "idle"
  /\ requests = <<>> /\ outcome = <<>> /\ tuples = <<>>
  /\ response = [list |-> FALSE, of |-> <<>>]

\* The event is refused before anything is sent.
Refuse(e) ==
  /\ stage = "idle"
  /\ MappingThrows(e) \/ ~PayloadsAreObjects(e)
  /\ event' = e
  /\ stage' = "rejected"
  /\ UNCHANGED <<requests, outcome, tuples, response>>

Send(e) ==
  /\ stage = "idle"
  /\ ~MappingThrows(e) /\ PayloadsAreObjects(e)
  /\ event' = e
  /\ stage' = "sent"
  /\ requests' = RequestsFor(e)
  /\ outcome' = [i \in DOMAIN RequestsFor(e) |-> "none"]
  /\ UNCHANGED <<tuples, response>>

\* Mutant: an answer without a response is a tuple like any other.
AnswerVoid(i, kind) ==
  /\ stage = "sent" /\ outcome[i] = "none"
  /\ outcome' = [outcome EXCEPT ![i] = kind]
  /\ tuples' = Append(tuples, [req |-> i, kind |-> kind])
  /\ UNCHANGED <<event, stage, requests, response>>

\* The handler of request i answers once; an answer without a response is no
\* tuple.
Answer(i, kind) ==
  /\ stage = "sent" /\ outcome[i] = "none"
  /\ outcome' = [outcome EXCEPT ![i] = kind]
  /\ tuples' = IF kind = "void" THEN tuples ELSE Append(tuples, [req |-> i, kind |-> kind])
  /\ UNCHANGED <<event, stage, requests, response>>

\* Mutant: the records are listed as their answers came.
SortedIdsUnsorted(positions) ==
  LET s == SelectSeq(tuples, LAMBDA t : t.req \in positions)
  IN  [i \in DOMAIN s |-> requests[s[i].req].id]

\* By id; records with one id are told apart by their places.
Before(i, j) ==
  \/ requests[i].id < requests[j].id
  \/ requests[i].id = requests[j].id /\ i < j

\* The ids of some requests in order.
SortedIds(positions) ==
  LET n == Cardinality(positions)
      order == CHOOSE s \in [1..n -> positions] : \A i, j \in 1..n : i < j => Before(s[i], s[j])
  IN  [i \in 1..n |-> requests[order[i]].id]

\* The response builders: the ids of failed records, a list of every response,
\* or the one response of an event that is one request, if it has any.  A
\* response is named by the request that it answers.
Responses(ts) == [i \in DOMAIN ts |-> ts[i].req]
SqsResponse(ts) == [list |-> TRUE, of |-> SortedIds(BatchItemFailures(ts))]
ListResponse(ts) == [list |-> TRUE, of |-> Responses(ts)]
SingleResponse(ts) == [list |-> Len(ts) > 1, of |-> Responses(ts)]
EventBridgeResponse(ts) == SingleResponse(ts)

ResponseFor(ts) ==
  CASE KindOf(event) = "sqs" -> SqsResponse(ts)
    [] KindOf(event) \in {"s3", "sns"} -> ListResponse(ts)
    [] KindOf(event) = "eventbridge" -> EventBridgeResponse(ts)
    [] OTHER -> SingleResponse(ts)

Respond ==
  /\ stage = "sent"
  /\ \A i \in DOMAIN outcome : outcome[i] # "none"
  /\ IF Resolves(KindOf(event), tuples)
     THEN stage' = "resolved" /\ response' = ResponseFor(tuples)
     ELSE stage' = "rejected" /\ UNCHANGED response
  /\ UNCHANGED <<event, requests, outcome, tuples>>

Next ==
  \/ \E e \in Event : Refuse(e) \/ Send(e)
  \/ \E i \in DOMAIN requests, kind \in {"value", "void", "error"} : Answer(i, kind)
  \/ Respond

Spec == Init /\ [][Next]_vars

-----------------------------------------------------------------------------
WithOutcome(o) == {i \in DOMAIN outcome : outcome[i] = o}
Values(s) == {s[i] : i \in DOMAIN s}

\* One request per record of a batch, or one for the event, made by the request
\* builder of the source.
BuiltFor(source) ==
  CASE source = "apigw" -> requests = <<ApiGatewayRequest(event)>>
    [] source = "eventbridge" -> requests = <<EventBridgeRequest(event)>>
    [] source = "s3" -> requests = [i \in DOMAIN event.records |-> S3Request(event.records[i], i)]
    [] source = "sns" -> requests = [i \in DOMAIN event.records |-> SnsRequest(event.records[i])]
    [] source = "sqs" -> requests = [i \in DOMAIN event.records |-> SqsRequest(event.records[i])]
    [] OTHER -> requests = <<CustomRequest>>

\* Whoever sent the event, request and response builders take it for what it
\* is: of all the predicates only that of its sender is true of it, so that
\* neither their order matters nor those of Kinesis and DynamoDB, which the
\* mapper does not ask and whose events are custom events to it.  What is sent
\* is made by the builder of its sender, until the promise has settled and
\* after.
MappedBySender ==
  event.sender # "nobody" =>
    /\ Verdicts(event) = {event.sender} \ {"custom"}
    /\ KindOf(event) = IF event.sender \in Source THEN event.sender ELSE "custom"
    /\ requests # <<>> => BuiltFor(event.sender)

\* A message has the same pattern, and so finds the same handlers, whether SNS
\* invokes the function or delivers it through an SQS queue, whatever
\* attributes the SQS record has of its own, as long as SNS's attributes can be
\* mapped.  What the handler is given is not the same.
DeliveryPathIsIrrelevant ==
  event.sender = "sqs" /\ stage # "rejected" =>
    \A i \in DOMAIN event.records : \A f \in Event :
      f.sender = "sns" /\ ~MappingThrows(f) =>
        \A j \in DOMAIN f.records :
          /\ IsSqsRecordWithEmbeddedSnsMessage(event.records[i])
          /\ event.records[i].body.attributes = f.records[j].attributes
          => requests[i].pattern = RequestsFor(f)[j].pattern

\* The response to an SQS batch names the failed records and no others, in the
\* order of their ids, whatever the order of their answers.
FailedRecordsAreListed ==
  event.sender = "sqs" /\ stage = "resolved" =>
    /\ Values(response.of) = {requests[i].id : i \in WithOutcome("error")}
    /\ Len(response.of) = Cardinality(WithOutcome("error"))
    /\ \A i, j \in DOMAIN response.of : i < j => response.of[i] <= response.of[j]

\* For other events, one error is enough to reject the invocation, and it is
\* never rejected without cause.  When it resolves, nothing that a handler
\* returned is lost or told twice.
NothingIsLost ==
  event.sender # "sqs" =>
    /\ stage = "resolved" =>
         /\ WithOutcome("error") = {}
         /\ Values(response.of) = WithOutcome("value")
         /\ Len(response.of) = Cardinality(WithOutcome("value"))
    /\ stage = "rejected" /\ requests # <<>> =>
         WithOutcome("error") # {} \/ (event.sender = "apigw" /\ WithOutcome("value") = {})

\* The records of a batch are published separately (README.md:33): a batch is
\* refused only if each of its records is.
RecordsAreSentSeparately ==
  event.sender = "sqs" /\ stage = "rejected" =>
    \A i \in DOMAIN event.records : SqsPattern(event.records[i]) = Thrown
=============================================================================
