---------------------------- MODULE EventMapping ----------------------------
(***************************************************************************)
(* EventMapper with the predicates of src/lambda/integrations and the      *)
(* request builders of src/record-builders: what kind of event it is, and  *)
(* which requests it becomes.                                              *)
(*                                                                         *)
(* An event is a record: is it an object, which fields it has and which of *)
(* them are strings, its Records, its id, and the parts that its pattern   *)
(* is made of.  Each of the Records has the tag of its source, an id, its  *)
(* parts, attributes (an object, or undefined), and a body with the marks  *)
(* and attributes of an SNS message, if any.  "sender" is not read: it     *)
(* says who sent the event.                                                *)
(***************************************************************************)
EXTENDS JsonValues, ResponseBuilders

Thrown == [thrown |-> TRUE]        \* the builder throws
NoMessage == [marks |-> {}]        \* a body that is not JSON, or something else

EmptyString == Str("")
Zero == Num("0")

-----------------------------------------------------------------------------
\* Predicates.
Holds(e, fields) == e.object /\ fields \subseteq e.has

IsApiGatewayEventV1(e) == Holds(e, {"requestContext", "httpMethod", "path", "isBase64Encoded"})
IsApiGatewayEventV2(e) == Holds(e, {"requestContext", "routeKey", "rawPath", "isBase64Encoded"})
IsApiGatewayEvent(e) == IsApiGatewayEventV1(e) \/ IsApiGatewayEventV2(e)

\* Mutant: fields of the right name are enough.
IsEventBridgeEventByName(e) == Holds(e, {"source", "detail-type"})

IsEventBridgeEvent(e) ==
  Holds(e, {"source", "detail-type"}) /\ {"source", "detail-type"} \subseteq e.texts

\* "Records" counts as a field only where it is an array, and what has no
\* eventSource has a tag of its own.
RecordsAre(e, tag) == Holds(e, {"Records"}) /\ \A i \in DOMAIN e.records : e.records[i].tag = tag

IsS3Event(e) == RecordsAre(e, "aws:s3")
IsSnsEvent(e) == RecordsAre(e, "aws:sns")
IsSqsEvent(e) == RecordsAre(e, "aws:sqs")

\* The two predicates that the mapper does not ask.
IsKinesisEvent(e) == RecordsAre(e, "aws:kinesis")
IsDynamoDbEvent(e) == RecordsAre(e, "aws:dynamodb")

\* The first predicate that holds, in the order of the mapper.
KindOf(e) ==
  IF IsApiGatewayEvent(e) THEN "apigw"
  ELSE IF IsEventBridgeEvent(e) THEN "eventbridge"
  ELSE IF IsS3Event(e) THEN "s3"
  ELSE IF IsSnsEvent(e) THEN "sns"
  ELSE IF IsSqsEvent(e) THEN "sqs"
  ELSE "custom"

-----------------------------------------------------------------------------
\* The text of an attribute is undefined, the JSON of a value, or words that
\* are not JSON.  JSON.parse throws on words; for a String that is caught.
Parsed(a, default) ==
  IF a.text = Undefined THEN default ELSE IF "json" \in DOMAIN a.text THEN a.text.json ELSE Thrown

StringValue(a) == IF Parsed(a, EmptyString) = Thrown THEN a.text.words ELSE Parsed(a, EmptyString)

\* mapSnsMessageAttributes, mapSqsMessageAttributes: any other type throws.
SnsTypes == {"String", "String.Array", "Number"}
SqsTypes == {"String", "Number"}

AttributeValue(a, types) ==
  CASE a.type \notin types -> Thrown
    [] a.type = "String" -> StringValue(a)
    [] a.type = "String.Array" -> Parsed(a, Arr(<<>>))
    [] a.type = "Number" -> Parsed(a, Zero)

\* One attribute that throws spoils the pattern, and so does their absence.
AttributePattern(attributes, types) ==
  IF attributes = Undefined THEN Thrown
  ELSE IF \E k \in Keys(attributes) : AttributeValue(attributes.fields[k], types) = Thrown
  THEN Thrown
  ELSE Obj([k \in Keys(attributes) |-> AttributeValue(attributes.fields[k], types)])

SnsPattern(message) == AttributePattern(message.attributes, SnsTypes)

\* isSnsMessage: the marks of an SNS message, and not just one of them.
IsSnsMessage(body) == {"Notification", "arn:aws:sns"} \subseteq body.marks

IsSqsRecordWithEmbeddedSnsMessage(r) == r.tag = "aws:sqs" /\ IsSnsMessage(r.body)

\* Mutant: the record's own attributes are preferred.
SqsPatternOwnFirst(r) ==
  IF AttributePattern(r.attributes, SqsTypes) # Thrown
  THEN AttributePattern(r.attributes, SqsTypes) ELSE SnsPattern(r.body)

\* A record whose body is an SNS message is matched by the attributes of that
\* message, unless they throw; then, as without a message, by its own.
SqsPattern(r) ==
  IF IsSnsMessage(r.body) /\ SnsPattern(r.body) # Thrown THEN SnsPattern(r.body)
  ELSE AttributePattern(r.attributes, SqsTypes)

OrNull(v) == IF v = Undefined THEN Null ELSE v

\* In the second version method and resource are the words of routeKey, which
\* is the one word $default for the default route.
ApiGatewayPattern(e) ==
  IF IsApiGatewayEventV1(e)
  THEN Obj([k \in {"httpMethod", "resource", "queryStringParameters", "pathParameters"} |-> e.parts[k]])
  ELSE Obj([httpMethod |-> Element(e.parts["routeKey"], 1),
            resource |-> Element(e.parts["routeKey"], 2),
            queryStringParameters |-> OrNull(e.parts["queryStringParameters"]),
            pathParameters |-> OrNull(e.parts["pathParameters"])])

EventBridgePattern(e) ==
  Obj([source |-> e.parts["source"], detailType |-> e.parts["detail-type"], detail |-> e.parts["detail"]])

S3Pattern(r) == Obj([k \in {"eventName", "bucketName", "objectKey"} |-> r.parts[k]])

Star == Str("*")   \* the pattern '*' of every custom request

-----------------------------------------------------------------------------
Uuid(n) == [uuid |-> n]

Request(id, pattern) == [id |-> id, pattern |-> pattern]

\* The request builders.  S3 records and custom events have no id: they get a
\* fresh one each.
ApiGatewayRequest(e) == Request(e.id, ApiGatewayPattern(e))
EventBridgeRequest(e) == Request(e.id, EventBridgePattern(e))
S3Request(r, n) == Request(Uuid(n), S3Pattern(r))
SnsRequest(r) == Request(r.id, SnsPattern(r))
SqsRequest(r) == Request(r.id, SqsPattern(r))
CustomRequest == Request(Uuid(1), Star)

RequestsFor(e) ==
  CASE KindOf(e) = "apigw" -> <<ApiGatewayRequest(e)>>
    [] KindOf(e) = "eventbridge" -> <<EventBridgeRequest(e)>>
    [] KindOf(e) = "s3" -> [i \in DOMAIN e.records |-> S3Request(e.records[i], i)]
    [] KindOf(e) = "sns" -> [i \in DOMAIN e.records |-> SnsRequest(e.records[i])]
    [] KindOf(e) = "sqs" -> [i \in DOMAIN e.records |-> SqsRequest(e.records[i])]
    [] OTHER -> <<CustomRequest>>

\* mapEventToRequest throws if one of the builders does, as it can only over
\* attributes: the other fields that the builders read, AWS always sends.
MappingThrows(e) == \E i \in DOMAIN RequestsFor(e) : RequestsFor(e)[i].pattern = Thrown

\* A custom event is its own payload, and only objects can be keys of the
\* client's requestMap.
PayloadsAreObjects(e) == KindOf(e) = "custom" => e.object
=============================================================================
