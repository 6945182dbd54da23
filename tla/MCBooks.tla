------------------------------ MODULE MCBooks -------------------------------
(***************************************************************************)
(* Events for the example applications: each operation with a good and a   *)
(* bad payload, events for no operation, events that cannot be mapped, and *)
(* S3 batches that create and remove one title.                            *)
(***************************************************************************)
EXTENDS Books, PatternMatching, NestedValues

\* TLC computes a constant that is defined here once, but one that the .cfg
\* file substitutes each time, and the values of a function where it is applied.
Tabulated(f) == f @@ <<>>

\* What the server computes from the patterns.  No text here is JSON: parsing
\* leaves a message as it is.
NormalizedTable == Tabulated([p \in Patterns |-> RouteOfPattern[p]])
RouteTable == Tabulated([m \in Messages |-> RouteOfPattern[m]])
MatchTable == Tabulated([t \in Patterns \X Messages \X BOOLEAN |-> PatternMatch[t]])

\* The patterns have no arrays: nothing is sorted.
ValuesWithParts == {Undefined} \cup UNION {WithParts(v) : v \in Patterns \cup Messages}

MCNormalized == NormalizedTable
MCRoute == RouteTable
MCMatch == MatchTable
MCJsonValue == ValuesWithParts
MCDepth == [v \in MCJsonValue |-> DepthOf(v)]
MCSortedBefore == {}

MCFromJson == [v \in MCJsonValue |-> v]

MCKeys ==
  <<"bucketName", "detail", "detailType", "eventName", "httpMethod", "id", "objectKey", "Operation",
    "pathParameters", "queryStringParameters", "resource", "source", "startsWith", "title">>
MCKeyBefore ==
  UNION {{<<MCKeys[i], MCKeys[j]>> : j \in (i + 1)..Len(MCKeys)} : i \in DOMAIN MCKeys}

MCBookId(n) == Str(ToString(n))

Json(v) == [json |-> v]
Words == [words |-> Str("words")]
Dune == Str("dune")

GoodTitle == Obj([title |-> Dune])
GoodId == Obj([id |-> BookId(1)])
GoodPrefix == Obj([startsWith |-> Str("d")])

Titles == {GoodTitle, Obj([title |-> Num("7")])}
Ids == {GoodId, GoodTitle}
Prefixes == {GoodPrefix, Obj([startsWith |-> Num("7")])}

Made(sender, asks, fits, data, has, texts, parts, records) ==
  [sender |-> sender, asks |-> asks, fits |-> fits, data |-> data, object |-> TRUE, has |-> has,
   texts |-> texts, parts |-> parts, records |-> records, id |-> 1]

\* API Gateway, first and second version.
V1(httpMethod, resource, asks, fits, body, query, path) ==
  Made("apigw", <<asks>>, <<fits>>,
       <<[body |-> body, queryStringParameters |-> query, pathParameters |-> path]>>,
       {"requestContext", "httpMethod", "path", "isBase64Encoded"}, {},
       [httpMethod |-> Str(httpMethod), resource |-> Str(resource),
        queryStringParameters |-> query, pathParameters |-> path], <<>>)

V2(routeKey, asks, fits, body, query, path) ==
  Made("apigw", <<asks>>, <<fits>>,
       <<[body |-> body, queryStringParameters |-> query, pathParameters |-> path]>>,
       {"requestContext", "routeKey", "rawPath", "isBase64Encoded"}, {},
       [routeKey |-> routeKey, queryStringParameters |-> query, pathParameters |-> path], <<>>)

MCApiGateway ==
  {V1("POST", "/books", "createBook", b = Json(GoodTitle), b, Null, Null) :
     b \in {Json(v) : v \in Titles} \cup {Words, Null}}
  \cup {V1("GET", "/books", "listBooks", q \in {GoodPrefix, Null}, Null, q, Null) : q \in Prefixes \cup {Null}}
  \cup {V1("GET", "/books/{id}", "getBook", TRUE, Null, Null, GoodId),
        V1("PUT", "/books", "nothing", FALSE, Null, Null, Null),
        V2(<<Str("$default")>>, "nothing", FALSE, Undefined, Undefined, Undefined),
        V2(<<Str("POST"), Str("/books")>>, "createBook", TRUE, Json(GoodTitle), Undefined, Undefined),
        V2(<<Str("GET"), Str("/books/{id}")>>, "getBook", TRUE, Undefined, Undefined, Obj([id |-> BookId(2)]))}

\* The same three operations, with a payload, behind three sources.
Asked == [CreateBook |-> "createBook", ListBooks |-> "listBooks", DeleteBook |-> "deleteBook",
          RenameBook |-> "nothing"]

Requested == {<<"CreateBook", v>> : v \in Titles} \cup {<<"DeleteBook", v>> : v \in Ids}
               \cup {<<"ListBooks", v>> : v \in Prefixes} \cup {<<"RenameBook", Null>>}

\* The payloads that are for the operation, and, as texts, also words where no
\* property is required.
Fitting == {<<"CreateBook", GoodTitle>>, <<"DeleteBook", GoodId>>, <<"ListBooks", GoodPrefix>>}

MCEventBridge ==
  {Made("eventbridge", <<Asked[r[1]]>>, <<r \in Fitting>>, <<[detail |-> r[2]]>>,
        {"source", "detail-type", "detail"}, {"source", "detail-type"},
        [k \in {"source", "detail-type", "detail"} |->
           CASE k = "source" -> Str("shop") [] k = "detail-type" -> Str(r[1]) [] OTHER -> r[2]], <<>>) :
     r \in Requested}

Operation(text) == Obj([Operation |-> [type |-> "String", text |-> [words |-> Str(text)]]])

RecordWith(tag, attributes) ==
  [tag |-> tag, id |-> 1, attributes |-> attributes, body |-> NoMessage, parts |-> <<>>]

Record(tag, text) == RecordWith(tag, Operation(text))

\* A record with an attribute of a type that the mapper does not support.
BinaryRecord(tag) == RecordWith(tag, Obj([Operation |-> [type |-> "Binary", text |-> Undefined]]))

\* A body that is JSON, or words.
Texts == {<<r[1], Json(r[2])>> : r \in Requested} \cup {<<"ListBooks", Words>>, <<"CreateBook", Words>>}

FittingTexts == {<<r[1], Json(r[2])>> : r \in Fitting} \cup {<<"ListBooks", Words>>}

MCRefused ==
  {Made("sns", <<"createBook">>, <<FALSE>>, <<[Message |-> Json(GoodTitle)]>>, {"Records"}, {}, <<>>,
        <<BinaryRecord("aws:sns")>>),
   Made("sqs", <<"createBook", "createBook">>, <<TRUE, FALSE>>,
        [i \in 1..2 |-> [body |-> Json(GoodTitle)]], {"Records"}, {}, <<>>,
        <<Record("aws:sqs", "CreateBook"), BinaryRecord("aws:sqs")>>),
   [Made("custom", <<"nothing">>, <<FALSE>>, <<[event |-> Dune]>>, {}, {}, <<>>, <<>>) EXCEPT !.object = FALSE]}

MCSns == {Made("sns", <<Asked[r[1]]>>, <<r \in FittingTexts>>, <<[Message |-> r[2]]>>, {"Records"}, {}, <<>>,
               <<Record("aws:sns", r[1])>>) : r \in Texts}

\* Batches of two in SQS.
MCSqs == {Made("sqs", <<"createBook", Asked[r[1]]>>, <<TRUE, r \in FittingTexts>>,
               <<[body |-> Json(GoodTitle)], [body |-> r[2]]>>, {"Records"}, {}, <<>>,
               <<Record("aws:sqs", "CreateBook"), Record("aws:sqs", r[1])>>) : r \in Texts}

S3Record(name) ==
  [tag |-> "aws:s3", id |-> 0, attributes |-> Undefined, body |-> NoMessage,
   parts |-> [eventName |-> Str(name), bucketName |-> Str("books"), objectKey |-> Dune]]

S3Asked == ("ObjectCreated:Post" :> "createBook") @@ ("ObjectRemoved:Delete" :> "removeBook")
             @@ ("ObjectCreated:Put" :> "nothing")

MCS3 ==
  {Made("s3", [i \in 1..2 |-> S3Asked[names[i]]], [i \in 1..2 |-> names[i] # "ObjectCreated:Put"],
        [i \in 1..2 |-> [s3 |-> Obj([key |-> Dune])]],
        {"Records"}, {}, <<>>, [i \in 1..2 |-> S3Record(names[i])]) : names \in [1..2 -> DOMAIN S3Asked]}

MCCustom ==
  {Made("custom", <<IF op \in Operations THEN op ELSE "nothing">>, <<TRUE>>,
        <<[event |-> Obj([operation |-> Str(op), body |-> body])]>>, {"operation", "body"}, {}, <<>>, <<>>) :
     op \in {"createBook", "listBooks", "deleteBook", "renameBook"},
     body \in {GoodTitle, Dune, BookId(1)}}

Events == MCRefused \cup MCApiGateway \cup MCEventBridge \cup MCSns \cup MCSqs \cup MCS3 \cup MCCustom
MCEvent == Events
=============================================================================
