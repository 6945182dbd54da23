---------------------------- MODULE MCInvocation ----------------------------
(***************************************************************************)
(* Events of each sender, streams included: single ones of every shape,    *)
(* batches of three, a message through both SNS and SQS, custom events     *)
(* that resemble others.                                                   *)
(***************************************************************************)
EXTENDS Invocation

Attribute(type, text) == Obj([p |-> [type |-> type, text |-> text]])
Json(v) == [json |-> v]
Words == [words |-> Str("5")]

MCAttributes ==
  {Undefined, Obj(<<>>), Attribute("String", Undefined), Attribute("String", Words),
   Attribute("String", Json(Num("1"))), Attribute("Number", Json(Num("1"))),
   Attribute("String.Array", Json(Arr(<<Str("5")>>))), Attribute("String.Array", Words),
   Attribute("Number", Words), Attribute("Binary", Words)}

S3Record(key) ==
  [tag |-> "aws:s3", id |-> 0, attributes |-> Undefined, body |-> NoMessage,
   parts |-> [eventName |-> Str("1"), bucketName |-> Str("2"), objectKey |-> Str(key)]]
SnsRecord(id, attributes) ==
  [tag |-> "aws:sns", id |-> id, attributes |-> attributes, body |-> NoMessage, parts |-> <<>>]
SqsRecord(id, attributes, body) ==
  [tag |-> "aws:sqs", id |-> id, attributes |-> attributes, body |-> body, parts |-> <<>>]
StreamRecord(tag) ==
  [tag |-> tag, id |-> 0, attributes |-> Undefined, body |-> NoMessage, parts |-> <<>>]
Marked(marks, attributes) == [marks |-> marks, attributes |-> attributes]
Message(attributes) == Marked({"Notification", "arn:aws:sns"}, attributes)
Lookalike == Marked({"Notification"}, Attribute("Number", Json(Num("1"))))

Batch(sender, records) ==
  [sender |-> sender, object |-> TRUE, has |-> {"Records"}, texts |-> {},
   records |-> records, id |-> 0, parts |-> <<>>]
Single(sender, has, texts, parts) ==
  [sender |-> sender, object |-> TRUE, has |-> has, texts |-> texts,
   records |-> <<>>, id |-> 1, parts |-> parts]

Good == Attribute("String", Words)
Bad == Attribute("Binary", Words)

MCSns == {Batch("sns", <<SnsRecord(1, a)>>) : a \in MCAttributes \ {Undefined}}
           \cup {Batch("sns", <<SnsRecord(1, Good), SnsRecord(2, Good)>>)}

MCSqs == {Batch("sqs", <<SqsRecord(1, a, NoMessage)>>) : a \in MCAttributes \ {Undefined}}
           \cup {Batch("sqs", <<SqsRecord(1, a, Message(b))>>) :
                   a \in {Obj(<<>>), Good}, b \in MCAttributes}
           \cup {Batch("sqs", <<SqsRecord(2, Good, NoMessage), SqsRecord(1, Good, Message(Bad)),
                                SqsRecord(i, Good, Lookalike)>>) : i \in {1, 3}}

MCApiGateway ==
  {Single("apigw", {"requestContext", "httpMethod", "path", "isBase64Encoded"}, {},
          [httpMethod |-> Str("1"), resource |-> Str("2"), queryStringParameters |-> v, pathParameters |-> Null]) :
     v \in {Null, Obj([q |-> Str("5")])}}
  \cup
  {Single("apigw", {"requestContext", "routeKey", "rawPath", "isBase64Encoded"}, {},
          [routeKey |-> k, queryStringParameters |-> Undefined, pathParameters |-> Undefined]) :
     k \in {<<Str("1"), Str("2")>>, <<Str("3")>>}}

MCParts == [k \in {"source", "detail-type", "detail"} |-> Str("5")]

\* A custom event may be a primitive, have a source and a detail-type of its
\* own making, or Records of an unknown or of several sources.
MCCustom ==
  {Single("custom", {}, {}, <<>>),
   [Single("custom", {}, {}, <<>>) EXCEPT !.object = FALSE],
   Single("custom", {"source", "detail-type", "detail"}, {"source"}, MCParts),
   Single("custom", {"requestContext", "routeKey", "path"}, {}, <<>>),
   Batch("custom", <<SnsRecord(1, Good), SqsRecord(2, Good, NoMessage)>>)}

MCOther ==
  {Single("eventbridge", {"source", "detail-type", "detail"}, {"source", "detail-type"},
          MCParts),
   Batch("kinesis", <<StreamRecord("aws:kinesis"), StreamRecord("aws:kinesis")>>),
   Batch("dynamodb", <<StreamRecord("aws:dynamodb")>>),
   Batch("s3", <<S3Record("a"), S3Record("b"), S3Record("a")>>)}

MCEvent == MCSns \cup MCSqs \cup MCApiGateway \cup MCCustom \cup MCOther

\* A batch that is refused for one of its records.
MCPoison == {Batch("sqs", <<SqsRecord(1, Good, NoMessage), SqsRecord(2, Bad, NoMessage)>>)}
=============================================================================
