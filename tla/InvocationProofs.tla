-------------------------- MODULE InvocationProofs --------------------------
(***************************************************************************)
(* What Lambda is told of any event, whatever its records, its answers and *)
(* their order: no failed record is kept from the response to an SQS       *)
(* batch, and nothing that a handler returned from the response to another *)
(* event.                                                                  *)
(***************************************************************************)
EXTENDS Invocation, FiniteSetTheorems, TLAPS

\* Before is a strict order of records whose ids are numbers.
LEMMA BeforeIsAnOrder ==
  ASSUME NEW S \in SUBSET Nat, \A i \in S : requests[i].id \in Nat
  PROVE  /\ \A i \in S : ~Before(i, i)
         /\ \A i, j \in S : Before(i, j) \/ Before(j, i) \/ i = j
         /\ \A i, j, k \in S : Before(i, j) /\ Before(j, k) => Before(i, k)
  BY DEF Before

\* Finitely many records can be put in the order of their ids: each at the
\* place that is one more than the number of those before it.
LEMMA SortingExists ==
  ASSUME NEW S \in SUBSET Nat, IsFiniteSet(S), \A i \in S : requests[i].id \in Nat
  PROVE  \E s \in [1..Cardinality(S) -> S] :
           \A i, j \in 1..Cardinality(S) : i < j => Before(s[i], s[j])
<1> DEFINE n == Cardinality(S)
           Below(i) == {j \in S : Before(j, i)}
           place == [i \in S |-> Cardinality(Below(i)) + 1]
<1>1. n \in Nat
  BY FS_CardinalityType
<1>2. \A i \in S : IsFiniteSet(Below(i)) /\ Cardinality(Below(i)) \in Nat
  BY FS_Subset, FS_CardinalityType
<1>3. ASSUME NEW i \in S PROVE place[i] \in 1..n
  <2>1. /\ IsFiniteSet(S \ {i}) /\ Cardinality(S \ {i}) = n - 1
    BY FS_RemoveElement
  <2>2. Below(i) \subseteq S \ {i}
    BY BeforeIsAnOrder
  <2>3. Cardinality(Below(i)) <= n - 1
    BY <2>1, <2>2, FS_Subset
  <2> QED BY <1>1, <1>2, <2>3
<1>4. ASSUME NEW i \in S, NEW k \in S, Before(i, k) PROVE place[i] < place[k]
  <2>1. /\ IsFiniteSet(Below(i) \cup {i})
        /\ Cardinality(Below(i) \cup {i}) = Cardinality(Below(i)) + 1
    <3>1. i \notin Below(i)
      BY BeforeIsAnOrder
    <3> QED BY <1>2, <3>1, FS_AddElement
  <2>2. Below(i) \cup {i} \subseteq Below(k)
    BY <1>4, BeforeIsAnOrder
  <2>3. Cardinality(Below(i)) + 1 <= Cardinality(Below(k))
    BY <1>2, <2>1, <2>2, FS_Subset
  <2> QED BY <1>2, <2>3
<1>5. \A k \in 1..n : \E i \in S : place[i] = k
  <2>1. place \in Injection(S, 1..n)
    <3>1. place \in [S -> 1..n]
      BY <1>3
    <3>2. \A i, k \in S : place[i] = place[k] => i = k
      <4> SUFFICES ASSUME NEW i \in S, NEW k \in S, i # k PROVE place[i] # place[k]
        OBVIOUS
      <4>1. place[i] \in Nat /\ place[k] \in Nat
        BY <1>2
      <4>2. Before(i, k) \/ Before(k, i)
        BY BeforeIsAnOrder
      <4> HIDE DEF place
      <4> QED BY <1>4, <4>1, <4>2
    <3> QED BY <3>1, <3>2 DEF Injection, IsInjective
  <2>2. IsFiniteSet(1..n) /\ Cardinality(1..n) = n
    BY <1>1, FS_Interval
  <2> HIDE DEF place
  <2>3. place \in Surjection(S, 1..n)
    BY <2>1, <2>2, FS_Injection
  <2> QED BY <2>3 DEF Surjection
<1> DEFINE s == [k \in 1..n |-> CHOOSE i \in S : place[i] = k]
<1> HIDE DEF place
<1>6. \A k \in 1..n : s[k] \in S /\ place[s[k]] = k
  BY <1>5
<1>7. \A i, j \in 1..n : i < j => Before(s[i], s[j])
  <2> SUFFICES ASSUME NEW i \in 1..n, NEW j \in 1..n, i < j PROVE Before(s[i], s[j])
    OBVIOUS
  <2>1. s[i] \in S /\ s[j] \in S /\ place[s[i]] = i /\ place[s[j]] = j
    BY <1>6
  <2> HIDE DEF s, Below
  <2>2. i \in Nat /\ j \in Nat /\ ~(j < i)
    BY <1>1
  <2>3. Before(s[j], s[i]) => place[s[j]] < place[s[i]]
    BY <1>4, <2>1
  <2>4. ~Before(s[j], s[i]) /\ s[i] # s[j]
    BY <2>1, <2>2, <2>3
  <2> QED BY <2>1, <2>4, BeforeIsAnOrder
<1> QED BY <1>6, <1>7

\* What SortedIds returns: the ids of all the records, each as often as there
\* are records with it, in order.
LEMMA SortedIdsAreSorted ==
  ASSUME NEW S \in SUBSET Nat, IsFiniteSet(S), \A i \in S : requests[i].id \in Nat
  PROVE  /\ SortedIds(S) \in Seq(Nat)
         /\ Len(SortedIds(S)) = Cardinality(S)
         /\ DOMAIN SortedIds(S) = 1..Cardinality(S)
         /\ Values(SortedIds(S)) = {requests[i].id : i \in S}
         /\ \A i, j \in 1..Cardinality(S) : i < j => SortedIds(S)[i] <= SortedIds(S)[j]
<1> DEFINE n == Cardinality(S)
           Sorts(s) == \A i, j \in 1..n : i < j => Before(s[i], s[j])
           order == CHOOSE s \in [1..n -> S] : Sorts(s)
<1>1. n \in Nat
  BY FS_CardinalityType
<1>2. order \in [1..n -> S] /\ Sorts(order)
  BY SortingExists
<1>3. SortedIds(S) = [i \in 1..n |-> requests[order[i]].id]
  BY DEF SortedIds
<1> HIDE DEF order
<1>4. \A i \in 1..n : order[i] \in S /\ requests[order[i]].id \in Nat
  BY <1>2
<1>5. SortedIds(S) \in Seq(Nat) /\ Len(SortedIds(S)) = n /\ DOMAIN SortedIds(S) = 1..n
  BY <1>1, <1>3, <1>4
<1>6. \A k \in S : \E i \in 1..n : order[i] = k
  <2>1. \A i, j \in 1..n : order[i] = order[j] => i = j
    <3>1. ASSUME NEW i \in 1..n, NEW j \in 1..n, i < j PROVE order[i] # order[j]
      <4>1. Before(order[i], order[j]) /\ order[i] \in S
        BY <1>2, <1>4, <3>1
      <4> QED BY <4>1, BeforeIsAnOrder
    <3> HIDE DEF n
    <3> QED BY <1>1, <3>1
  <2>2. order \in Injection(1..n, S)
    BY <1>2, <2>1 DEF Injection, IsInjective
  <2>3. IsFiniteSet(1..n) /\ Cardinality(1..n) = n
    BY <1>1, FS_Interval
  <2>4. order \in Surjection(1..n, S)
    BY <2>2, <2>3, FS_Injection
  <2> QED BY <2>4 DEF Surjection
<1>7. Values(SortedIds(S)) = {requests[i].id : i \in S}
  <2>1. Values(SortedIds(S)) = {SortedIds(S)[i] : i \in 1..n}
    BY <1>5 DEF Values
  <2>2. \A i \in 1..n : SortedIds(S)[i] = requests[order[i]].id
    BY <1>3
  <2>3. \A i \in 1..n : SortedIds(S)[i] \in {requests[k].id : k \in S}
    BY <1>4, <2>2
  <2>4. ASSUME NEW k \in S PROVE requests[k].id \in {SortedIds(S)[i] : i \in 1..n}
    <3>1. PICK i \in 1..n : order[i] = k
      BY <1>6
    <3> QED BY <2>2, <3>1
  <2> QED BY <2>1, <2>3, <2>4, Zenon
<1>8. \A i, j \in 1..n : i < j => SortedIds(S)[i] <= SortedIds(S)[j]
  <2> SUFFICES ASSUME NEW i \in 1..n, NEW j \in 1..n, i < j
               PROVE  requests[order[i]].id <= requests[order[j]].id
    BY <1>3
  <2>1. Before(order[i], order[j])
    BY <1>2
  <2> QED BY <1>4, <2>1 DEF Before
<1> QED BY <1>5, <1>7, <1>8

-----------------------------------------------------------------------------
\* The event of a batch passes for a batch of one source only, as it has a
\* record, which has one tag.
LEMMA BatchVerdicts ==
  ASSUME NEW e \in Event, e.sender \in DOMAIN RecordTag
  PROVE  Verdicts(e) = {e.sender}
<1>1. /\ e.object /\ "Records" \in e.has /\ Lacks(e, {"requestContext", "source"})
      /\ e.records # <<>>
      /\ \A i \in DOMAIN e.records : e.records[i].tag = RecordTag[e.sender]
  BY SenderAssumption
<1>2. PICK i \in DOMAIN e.records : TRUE
  <2> DEFINE Record == {e.records[i] : i \in DOMAIN e.records}
  <2>1. e.records \in Seq(Record)
    BY RecordsAssumption, Zenon
  <2> HIDE DEF Record
  <2>2. 1 \in DOMAIN e.records
    BY <1>1, <2>1
  <2> QED BY <2>2
<1>3. \A tag : RecordsAre(e, tag) <=> tag = RecordTag[e.sender]
  BY <1>1, <1>2 DEF RecordsAre, Holds
<1>4. ~IsApiGatewayEvent(e) /\ ~IsEventBridgeEvent(e)
  BY <1>1 DEF IsApiGatewayEvent, IsApiGatewayEventV1, IsApiGatewayEventV2, IsEventBridgeEvent,
     Holds, Lacks
<1>5. e.sender \in {"s3", "sns", "sqs", "kinesis", "dynamodb"}
  BY DEF RecordTag
<1> QED BY <1>3, <1>4, <1>5 DEF Verdicts, RecordTag, IsS3Event, IsSnsEvent, IsSqsEvent,
        IsKinesisEvent, IsDynamoDbEvent

\* So does the event of API Gateway or EventBridge, which has no Records.
LEMMA SingleVerdicts ==
  ASSUME NEW e \in Event, e.sender \in {"apigw", "eventbridge"}
  PROVE  Verdicts(e) = {e.sender}
<1>0. e.sender \notin DOMAIN RecordTag
  BY DEF RecordTag
<1>1. Lacks(e, {"Records"}) => \A tag : ~RecordsAre(e, tag)
  BY DEF RecordsAre, Holds, Lacks
<1>2. CASE e.sender = "apigw"
  <2>1. /\ e.object /\ {"requestContext", "isBase64Encoded"} \subseteq e.has
        /\ {"httpMethod", "path"} \subseteq e.has \/ {"routeKey", "rawPath"} \subseteq e.has
        /\ Lacks(e, {"source", "Records"})
    BY <1>0, <1>2, SenderAssumption DEF ApiGatewayFields
  <2>2. IsApiGatewayEvent(e) /\ ~IsEventBridgeEvent(e)
    BY <2>1 DEF IsApiGatewayEvent, IsApiGatewayEventV1, IsApiGatewayEventV2, IsEventBridgeEvent,
       Holds, Lacks
  <2>3. \A tag : ~RecordsAre(e, tag)
    BY <1>1, <2>1 DEF Lacks
  <2> QED BY <1>2, <2>2, <2>3 DEF Verdicts, IsS3Event, IsSnsEvent, IsSqsEvent, IsKinesisEvent,
          IsDynamoDbEvent
<1>3. CASE e.sender = "eventbridge"
  <2>1. /\ e.object /\ {"source", "detail-type"} \subseteq e.has \cap e.texts
        /\ Lacks(e, {"requestContext", "Records"})
    BY <1>0, <1>3, SenderAssumption
  <2>2. ~IsApiGatewayEvent(e) /\ IsEventBridgeEvent(e)
    BY <2>1 DEF IsApiGatewayEvent, IsApiGatewayEventV1, IsApiGatewayEventV2, IsEventBridgeEvent,
       Holds, Lacks
  <2>3. \A tag : ~RecordsAre(e, tag)
    BY <1>1, <2>1 DEF Lacks
  <2> QED BY <1>3, <2>2, <2>3 DEF Verdicts, IsS3Event, IsSnsEvent, IsSqsEvent, IsKinesisEvent,
          IsDynamoDbEvent
<1> QED BY <1>2, <1>3

\* No predicate holds of an event that has the shape of none.
LEMMA CustomVerdicts ==
  ASSUME NEW e \in Event, e.sender \notin DOMAIN RecordTag \cup {"apigw", "eventbridge"}
  PROVE  Verdicts(e) = {} /\ e.sender = "custom"
<1>1. ~HasServiceShape(e) /\ e.sender = "custom"
  BY SenderAssumption
<1>2. ~IsApiGatewayEvent(e)
  BY <1>1 DEF HasServiceShape, ApiGatewayFields, IsApiGatewayEvent, IsApiGatewayEventV1,
     IsApiGatewayEventV2, Holds
<1>3. ~IsEventBridgeEvent(e)
  BY <1>1 DEF HasServiceShape, IsEventBridgeEvent, Holds
<1>4. \A s \in DOMAIN RecordTag : ~RecordsAre(e, RecordTag[s])
  BY <1>1 DEF HasServiceShape, RecordsAre, Holds
<1>5. ~IsS3Event(e) /\ ~IsSnsEvent(e) /\ ~IsSqsEvent(e) /\ ~IsKinesisEvent(e) /\ ~IsDynamoDbEvent(e)
  BY <1>4 DEF RecordTag, IsS3Event, IsSnsEvent, IsSqsEvent, IsKinesisEvent, IsDynamoDbEvent
<1> QED BY <1>1, <1>2, <1>3, <1>5 DEF Verdicts

\* At most one predicate holds of an event, so the mapper's order of asking
\* does not matter.
LEMMA KindIsSender ==
  ASSUME NEW e \in Event
  PROVE  /\ Verdicts(e) = {e.sender} \ {"custom"}
         /\ KindOf(e) = IF e.sender \in Source THEN e.sender ELSE "custom"
         /\ e.sender # "nobody"
<1>1. /\ Verdicts(e) = {e.sender} \ {"custom"}
      /\ e.sender \in {"s3", "sns", "sqs", "kinesis", "dynamodb", "apigw", "eventbridge", "custom"}
  <2>1. CASE e.sender \in DOMAIN RecordTag
    BY <2>1, BatchVerdicts DEF RecordTag
  <2>2. CASE e.sender \in {"apigw", "eventbridge"}
    BY <2>2, SingleVerdicts
  <2>3. CASE e.sender \notin DOMAIN RecordTag \cup {"apigw", "eventbridge"}
    BY <2>3, CustomVerdicts
  <2> QED BY <2>1, <2>2, <2>3
<1>2. /\ IsApiGatewayEvent(e) <=> "apigw" \in Verdicts(e)
      /\ IsEventBridgeEvent(e) <=> "eventbridge" \in Verdicts(e)
      /\ IsS3Event(e) <=> "s3" \in Verdicts(e)
      /\ IsSnsEvent(e) <=> "sns" \in Verdicts(e)
      /\ IsSqsEvent(e) <=> "sqs" \in Verdicts(e)
  BY DEF Verdicts
<1>3. KindOf(e) = IF e.sender \in Source THEN e.sender ELSE "custom"
  BY <1>1, <1>2 DEF KindOf, Source
<1> QED BY <1>1, <1>3

-----------------------------------------------------------------------------
\* The tuples there may be.
Answers == [req : DOMAIN requests, kind : {"value", "error"}]

\* What is known of the event at each stage.
StagesInv ==
  /\ stage = "idle" => event = NoEvent /\ requests = <<>> /\ tuples = <<>>
  /\ stage # "idle" => event \in Event
  /\ stage \in {"sent", "resolved"} \/ requests # <<>> =>
       requests = RequestsFor(event) /\ ~MappingThrows(event)

\* The tuples are the answers that have a response, each once.
TuplesInv ==
  /\ outcome \in [DOMAIN requests -> {"none", "value", "void", "error"}]
  /\ tuples \in Seq(Answers)
  /\ \A i, j \in 1..Len(tuples) : tuples[i].req = tuples[j].req => i = j
  /\ \A kind \in {"value", "error"} :
       {tuples[i].req : i \in {j \in 1..Len(tuples) : tuples[j].kind = kind}} = WithOutcome(kind)

\* The promise has the outcome and the value that the tuples give.
ResponseInv ==
  /\ stage = "resolved" => Resolves(KindOf(event), tuples) /\ response = ResponseFor(tuples)
  /\ stage = "rejected" /\ requests # <<>> => ~Resolves(KindOf(event), tuples)

\* That the response names the right requests needs that each has one tuple.
InvocationInv == InvocationTypeOK /\ StagesInv /\ TuplesInv /\ ResponseInv

\* The initial state.
LEMMA InvocationStarts == Init => InvocationInv
<1> SUFFICES ASSUME Init PROVE InvocationInv
  OBVIOUS
<1> USE DEF Init
<1>1. InvocationTypeOK
  BY DEF InvocationTypeOK
<1>2. StagesInv
  BY DEF StagesInv
<1>3. TuplesInv
  <2>1. Len(tuples) = 0 /\ DOMAIN outcome = {} /\ 1..Len(tuples) = {}
    OBVIOUS
  <2>2. WithOutcome("value") = {} /\ WithOutcome("error") = {}
    BY <2>1 DEF WithOutcome
  <2>3. outcome \in [DOMAIN requests -> {"none", "value", "void", "error"}]
    OBVIOUS
  <2>4. tuples \in Seq(Answers)
    OBVIOUS
  <2> QED BY <2>1, <2>2, <2>3, <2>4 DEF TuplesInv
<1>4. ResponseInv
  BY DEF ResponseInv
<1> QED BY <1>1, <1>2, <1>3, <1>4 DEF InvocationInv

\* A refused event leaves no request.
LEMMA RefuseKeeps ==
  ASSUME InvocationInv, NEW e \in Event, Refuse(e) PROVE InvocationInv'
<1> USE DEF InvocationInv, Refuse
<1>1. InvocationTypeOK'
  BY DEF InvocationTypeOK
<1>2. StagesInv'
  BY DEF StagesInv
<1>3. TuplesInv'
  BY DEF TuplesInv, WithOutcome, Answers
<1>4. ResponseInv'
  BY DEF ResponseInv, StagesInv
<1> QED BY <1>1, <1>2, <1>3, <1>4

\* No request of a sent event is answered.
LEMMA SendKeeps ==
  ASSUME InvocationInv, NEW e \in Event, Send(e) PROVE InvocationInv'
<1> USE DEF InvocationInv, Send
<1>0. tuples = <<>> /\ tuples' = <<>> /\ 1..Len(tuples') = {}
  BY DEF StagesInv
<1>1. InvocationTypeOK'
  BY <1>0 DEF InvocationTypeOK, MappingThrows
<1>2. StagesInv'
  BY DEF StagesInv
<1>3. TuplesInv'
  <2>1. WithOutcome("value")' = {} /\ WithOutcome("error")' = {}
    BY DEF WithOutcome
  <2>2. (outcome \in [DOMAIN requests -> {"none", "value", "void", "error"}])'
    OBVIOUS
  <2>3. (tuples \in Seq(Answers))'
    BY <1>0
  <2> QED BY <1>0, <2>1, <2>2, <2>3 DEF TuplesInv
<1>4. ResponseInv'
  BY DEF ResponseInv
<1> QED BY <1>1, <1>2, <1>3, <1>4

\* An answer is a tuple of its request, which had none.
LEMMA AnswerKeeps ==
  ASSUME InvocationInv, NEW i \in DOMAIN requests, NEW kind \in {"value", "void", "error"},
         Answer(i, kind)
  PROVE  InvocationInv'
<1> USE DEF InvocationInv, Answer
<1> DEFINE n == Len(tuples)
<1>0. /\ outcome \in [DOMAIN requests -> {"none", "value", "void", "error"}]
      /\ outcome' = [outcome EXCEPT ![i] = kind]
      /\ outcome[i] = "none"
      /\ tuples \in Seq(Answers) /\ n \in Nat /\ requests' = requests
  BY DEF TuplesInv
<1>2. StagesInv'
  BY DEF StagesInv
<1>3. /\ (outcome \in [DOMAIN requests -> {"none", "value", "void", "error"}])'
      /\ \A o : o # "none" /\ o # kind => WithOutcome(o)' = WithOutcome(o)
      /\ WithOutcome(kind)' = WithOutcome(kind) \cup {i}
      /\ \A o : o # "none" => i \notin WithOutcome(o)
  BY <1>0 DEF WithOutcome
<1>4. TuplesInv'
  <2>0. Answers' = Answers
    BY <1>0 DEF Answers
  <2>1. CASE kind = "void"
    BY <1>0, <1>3, <2>0, <2>1 DEF TuplesInv
  <2>2. CASE kind # "void"
    <3> DEFINE t == [req |-> i, kind |-> kind]
               Reqs(k) == {tuples[m].req : m \in {j \in 1..n : tuples[j].kind = k}}
    <3>1. t \in Answers
      BY <2>2 DEF Answers
    <3>2. /\ tuples' = Append(tuples, t) /\ tuples' \in Seq(Answers) /\ Len(tuples') = n + 1
          /\ tuples'[n + 1] = t
          /\ \A m \in 1..n : tuples'[m] = tuples[m]
      BY <1>0, <2>2, <3>1
    <3>3. \A m \in 1..n : tuples[m] \in Answers /\ tuples[m].kind \in {"value", "error"}
      <4>1. \A m \in 1..n : tuples[m] \in Answers
        BY <1>0
      <4> QED BY <4>1 DEF Answers
    <3>4. \A m \in 1..n : tuples[m].req # i
      <4> SUFFICES ASSUME NEW m \in 1..n, tuples[m].req = i PROVE FALSE
        OBVIOUS
      <4>1. PICK k \in {"value", "error"} : tuples[m].kind = k
        BY <3>3
      <4>2. i \in Reqs(k)
        BY <4>1
      <4>3. Reqs(k) = WithOutcome(k)
        BY <4>1 DEF TuplesInv
      <4> QED BY <1>3, <4>2, <4>3
    <3>5. \A j, m \in 1..(n + 1) : tuples'[j].req = tuples'[m].req => j = m
      <4>1. \A j, m \in 1..n : tuples[j].req = tuples[m].req => j = m
        BY DEF TuplesInv
      <4>2. \A j \in 1..(n + 1) : j \in 1..n \/ j = n + 1
        BY <1>0
      <4>3. tuples'[n + 1].req = i
        BY <3>2
      <4> HIDE DEF n, t
      <4> QED BY <3>2, <3>4, <4>1, <4>2, <4>3
    <3>6. ASSUME NEW k \in {"value", "error"}
          PROVE  {tuples'[m].req : m \in {j \in 1..(n + 1) : tuples'[j].kind = k}} = WithOutcome(k)'
      <4> DEFINE Reqs2 == {tuples'[m].req : m \in {j \in 1..(n + 1) : tuples'[j].kind = k}}
      <4>1. Reqs(k) = WithOutcome(k)
        BY DEF TuplesInv
      <4>2. ASSUME NEW r PROVE r \in Reqs2 <=> r \in Reqs(k) \/ (k = kind /\ r = i)
        <5>1. r \in Reqs2 <=> \E m \in 1..(n + 1) : tuples'[m].kind = k /\ r = tuples'[m].req
          OBVIOUS
        <5>2. r \in Reqs(k) <=> \E m \in 1..n : tuples[m].kind = k /\ r = tuples[m].req
          OBVIOUS
        <5>3. tuples'[n + 1].kind = kind /\ tuples'[n + 1].req = i
          BY <3>2
        <5>4. \A m : m \in 1..(n + 1) <=> m \in 1..n \/ m = n + 1
          BY <1>0
        <5> HIDE DEF Reqs, Reqs2, n, t
        <5> QED BY <3>2, <5>1, <5>2, <5>3, <5>4
      <4>3. k # kind => WithOutcome(k)' = WithOutcome(k)
        BY <1>3
      <4> HIDE DEF Reqs, Reqs2
      <4>4. Reqs2 = WithOutcome(k)'
        <5>1. CASE k = kind
          <6>1. WithOutcome(k)' = Reqs(k) \cup {i}
            BY <1>3, <4>1, <5>1
          <6>2. \A r : r \in Reqs2 <=> r \in Reqs(k) \cup {i}
            BY <4>2, <5>1
          <6> QED BY <6>1, <6>2, Zenon
        <5>2. CASE k # kind
          <6>1. \A r : r \in Reqs2 <=> r \in Reqs(k)
            BY <4>2, <5>2
          <6> QED BY <4>1, <4>3, <5>2, <6>1, Zenon
        <5> QED BY <5>1, <5>2
      <4> QED BY <4>4 DEF Reqs2
    <3> QED BY <1>3, <2>0, <3>2, <3>5, <3>6 DEF TuplesInv
  <2> QED BY <2>1, <2>2
<1>5. InvocationTypeOK'
  <2>1. \A j \in DOMAIN tuples' :
          tuples'[j].req \in DOMAIN requests' /\ tuples'[j].kind \in {"value", "error"}
    <3>1. tuples' \in Seq(Answers')
      BY <1>4 DEF TuplesInv
    <3>2. \A j \in DOMAIN tuples' : tuples'[j] \in Answers'
      BY <3>1
    <3> QED BY <3>2 DEF Answers
  <2> QED BY <1>0, <1>3, <2>1 DEF InvocationTypeOK
<1>6. ResponseInv'
  BY DEF ResponseInv
<1> QED BY <1>2, <1>4, <1>5, <1>6

\* The promise settles by its tuples.
LEMMA RespondKeeps ==
  ASSUME InvocationInv, Respond PROVE InvocationInv'
<1> USE DEF InvocationInv, Respond
<1>1. InvocationTypeOK'
  BY DEF InvocationTypeOK
<1>2. StagesInv'
  BY DEF StagesInv
<1>3. TuplesInv'
  BY DEF TuplesInv, WithOutcome, Answers
<1>4. ResponseInv'
  <2>1. ResponseFor(tuples)' = ResponseFor(tuples)
    BY DEF ResponseFor, SqsResponse, ListResponse, SingleResponse, EventBridgeResponse, Responses,
           SortedIds, Before
  <2> QED BY <2>1 DEF ResponseInv
<1> QED BY <1>1, <1>2, <1>3, <1>4

\* Every step keeps the invariant.
LEMMA InvocationKeeps == InvocationInv /\ [Next]_vars => InvocationInv'
<1> SUFFICES ASSUME InvocationInv, [Next]_vars PROVE InvocationInv'
  OBVIOUS
<1>1. ASSUME NEW e \in Event, Refuse(e) PROVE InvocationInv'
  BY <1>1, RefuseKeeps
<1>2. ASSUME NEW e \in Event, Send(e) PROVE InvocationInv'
  BY <1>2, SendKeeps
<1>3. ASSUME NEW i \in DOMAIN requests, NEW kind \in {"value", "void", "error"}, Answer(i, kind)
      PROVE InvocationInv'
  BY <1>3, AnswerKeeps
<1>4. ASSUME Respond PROVE InvocationInv'
  BY <1>4, RespondKeeps
<1>5. ASSUME UNCHANGED vars PROVE InvocationInv'
  <2> USE <1>5 DEF vars
  <2>1. ResponseFor(tuples)' = ResponseFor(tuples)
    BY DEF ResponseFor, SqsResponse, ListResponse, SingleResponse, EventBridgeResponse, Responses,
           SortedIds, Before
  <2>2. ResponseInv'
    BY <2>1 DEF InvocationInv, ResponseInv
  <2>3. TuplesInv'
    BY DEF InvocationInv, TuplesInv, WithOutcome, Answers
  <2> QED BY <2>2, <2>3 DEF InvocationInv, InvocationTypeOK, StagesInv
<1> QED BY <1>1, <1>2, <1>3, <1>4, <1>5 DEF Next

\* The invariant of an invocation.
LEMMA InvocationIsSafe == Spec => []InvocationInv
  BY InvocationStarts, InvocationKeeps, PTL DEF Spec

-----------------------------------------------------------------------------
\* The type of the state.
THEOREM InvocationTypes == Spec => []InvocationTypeOK
<1>1. InvocationInv => InvocationTypeOK
  BY DEF InvocationInv
<1> QED BY <1>1, InvocationIsSafe, PTL

\* Every event is taken for what its sender sent, and its requests are made by
\* the builder of that sender.
THEOREM SendersAreRecognised == Spec => []MappedBySender
<1>1. ASSUME InvocationInv PROVE MappedBySender
  <2> SUFFICES ASSUME event.sender # "nobody"
               PROVE  /\ Verdicts(event) = {event.sender} \ {"custom"}
                      /\ KindOf(event) = IF event.sender \in Source THEN event.sender ELSE "custom"
                      /\ requests # <<>> => BuiltFor(event.sender)
    BY DEF MappedBySender
  <2>1. event \in Event
    BY <1>1 DEF InvocationInv, InvocationTypeOK, NoEvent
  <2>2. ASSUME requests # <<>> PROVE BuiltFor(event.sender)
    <3>1. requests = RequestsFor(event)
      BY <1>1, <2>2 DEF InvocationInv, StagesInv
    <3>2. KindOf(event) = IF event.sender \in Source THEN event.sender ELSE "custom"
      BY <2>1, KindIsSender
    <3>3. CASE event.sender \in Source
      <4>1. KindOf(event) = event.sender
        BY <3>2, <3>3
      <4> QED BY <3>1, <4>1 DEF BuiltFor, RequestsFor
    <3>4. CASE event.sender \notin Source
      <4>1. KindOf(event) = "custom"
        BY <3>2, <3>4
      <4> QED BY <3>1, <3>4, <4>1 DEF BuiltFor, RequestsFor, Source
    <3> QED BY <3>3, <3>4
  <2> QED BY <2>1, <2>2, KindIsSender
<1> QED BY <1>1, InvocationIsSafe, PTL

\* The pattern of a message does not depend on whether SNS delivers it itself
\* or through SQS.
THEOREM DeliveryPathDoesNotMatter == Spec => []DeliveryPathIsIrrelevant
<1>1. ASSUME InvocationInv PROVE DeliveryPathIsIrrelevant
  <2> SUFFICES ASSUME event.sender = "sqs", stage # "rejected",
                      NEW i \in DOMAIN event.records,
                      NEW f \in Event, f.sender = "sns", ~MappingThrows(f),
                      NEW j \in DOMAIN f.records,
                      IsSqsRecordWithEmbeddedSnsMessage(event.records[i]),
                      event.records[i].body.attributes = f.records[j].attributes
               PROVE  requests[i].pattern = RequestsFor(f)[j].pattern
    BY DEF DeliveryPathIsIrrelevant
  <2>1. event \in Event /\ requests = RequestsFor(event)
    BY <1>1 DEF InvocationInv, InvocationTypeOK, StagesInv, NoEvent
  <2>2. KindOf(event) = "sqs" /\ KindOf(f) = "sns"
    BY <2>1, KindIsSender DEF Source
  <2>3. requests[i].pattern = SqsPattern(event.records[i])
    BY <2>1, <2>2 DEF RequestsFor, SqsRequest, Request
  <2>4. j \in DOMAIN RequestsFor(f) /\ RequestsFor(f)[j].pattern = SnsPattern(f.records[j])
    BY <2>2 DEF RequestsFor, SnsRequest, Request
  <2>5. SnsPattern(f.records[j]) # Thrown
    BY <2>4 DEF MappingThrows
  <2>6. SnsPattern(event.records[i].body) = SnsPattern(f.records[j])
    BY DEF SnsPattern
  <2>7. SqsPattern(event.records[i]) = SnsPattern(event.records[i].body)
    BY <2>5, <2>6 DEF SqsPattern, IsSqsRecordWithEmbeddedSnsMessage
  <2> QED BY <2>3, <2>4, <2>6, <2>7
<1> QED BY <1>1, InvocationIsSafe, PTL

-----------------------------------------------------------------------------
\* The tuples of a kind are as many as the requests with that outcome.
LEMMA TuplesCount ==
  ASSUME InvocationInv, NEW kind \in {"value", "error"}
  PROVE  LET I == {j \in 1..Len(tuples) : tuples[j].kind = kind}
         IN  /\ IsFiniteSet(I) /\ IsFiniteSet(WithOutcome(kind))
             /\ WithOutcome(kind) = {tuples[j].req : j \in I}
             /\ Cardinality(WithOutcome(kind)) = Cardinality(I)
<1> DEFINE I == {j \in 1..Len(tuples) : tuples[j].kind = kind}
           req == [j \in I |-> tuples[j].req]
<1>1. tuples \in Seq(Answers) /\ WithOutcome(kind) = {tuples[j].req : j \in I}
      /\ \A i, j \in 1..Len(tuples) : tuples[i].req = tuples[j].req => i = j
  BY DEF InvocationInv, TuplesInv
<1>2. IsFiniteSet(I)
  <2>1. Len(tuples) \in Nat /\ I \subseteq 1..Len(tuples)
    BY <1>1
  <2> QED BY <2>1, FS_Interval, FS_Subset
<1>3. req \in Bijection(I, WithOutcome(kind))
  <2>1. req \in [I -> WithOutcome(kind)]
    BY <1>1
  <2>2. \A i, j \in I : req[i] = req[j] => i = j
    BY <1>1
  <2>3. \A r \in WithOutcome(kind) : \E j \in I : req[j] = r
    BY <1>1
  <2> HIDE DEF req, I
  <2> QED BY <2>1, <2>2, <2>3 DEF Bijection, Injection, Surjection, IsInjective
<1> HIDE DEF req, I
<1>4. IsFiniteSet(WithOutcome(kind)) /\ Cardinality(WithOutcome(kind)) = Cardinality(I)
  BY <1>2, <1>3, FS_Bijection DEF ExistsBijection
<1> QED BY <1>1, <1>2, <1>4 DEF I

\* The failed records are those that the response names.
THEOREM FailedRecordsAreReported == Spec => []FailedRecordsAreListed
<1>1. ASSUME InvocationInv PROVE FailedRecordsAreListed
  <2> SUFFICES ASSUME event.sender = "sqs", stage = "resolved"
               PROVE  /\ Values(response.of) = {requests[i].id : i \in WithOutcome("error")}
                      /\ Len(response.of) = Cardinality(WithOutcome("error"))
                      /\ \A i, j \in DOMAIN response.of : i < j => response.of[i] <= response.of[j]
    BY DEF FailedRecordsAreListed
  <2> DEFINE S == WithOutcome("error")
  <2>1. event \in Event /\ requests = RequestsFor(event) /\ KindOf(event) = "sqs"
    <3>1. event \in Event /\ requests = RequestsFor(event)
      BY <1>1 DEF InvocationInv, StagesInv
    <3> QED BY <3>1, KindIsSender DEF Source
  <2>2. requests = [i \in DOMAIN event.records |-> SqsRequest(event.records[i])]
    BY <2>1 DEF RequestsFor
  <2>3. DOMAIN requests \subseteq Nat /\ \A i \in DOMAIN requests : requests[i].id \in Nat
    <3> DEFINE Record == {event.records[i] : i \in DOMAIN event.records}
    <3>1. event.records \in Seq(Record) /\ \A i \in DOMAIN event.records : event.records[i].id \in Nat
      BY <2>1, RecordsAssumption, Zenon
    <3> HIDE DEF Record
    <3>2. DOMAIN event.records \subseteq Nat
      BY <3>1
    <3> QED BY <2>2, <3>1, <3>2 DEF SqsRequest, Request
  <2>4. S \in SUBSET Nat /\ IsFiniteSet(S) /\ \A i \in S : requests[i].id \in Nat
    <3>1. IsFiniteSet(S)
      BY <1>1, TuplesCount
    <3>2. S \subseteq DOMAIN requests
      BY <1>1 DEF InvocationInv, TuplesInv, WithOutcome
    <3> QED BY <2>3, <3>1, <3>2
  <2>5. BatchItemFailures(tuples) = S
    <3>1. {tuples[i].req : i \in {j \in 1..Len(tuples) : tuples[j].kind = "error"}} = S
      BY <1>1 DEF InvocationInv, TuplesInv
    <3> QED BY <3>1 DEF BatchItemFailures, Errors, IsError
  <2>6. response.of = SortedIds(S)
    BY <1>1, <2>1, <2>5 DEF InvocationInv, ResponseInv, ResponseFor, SqsResponse
  <2> HIDE DEF S
  <2>7. /\ Len(SortedIds(S)) = Cardinality(S)
        /\ DOMAIN SortedIds(S) = 1..Cardinality(S)
        /\ Values(SortedIds(S)) = {requests[i].id : i \in S}
        /\ \A i, j \in 1..Cardinality(S) : i < j => SortedIds(S)[i] <= SortedIds(S)[j]
    BY <2>4, SortedIdsAreSorted
  <2> QED BY <2>6, <2>7 DEF S
<1> QED BY <1>1, InvocationIsSafe, PTL

\* No error is swallowed and nothing that a handler returned is lost.
THEOREM NothingIsLostInInvocation == Spec => []NothingIsLost
<1>1. ASSUME InvocationInv PROVE NothingIsLost
  <2> SUFFICES ASSUME event.sender # "sqs"
               PROVE  /\ stage = "resolved" =>
                           /\ WithOutcome("error") = {}
                           /\ Values(response.of) = WithOutcome("value")
                           /\ Len(response.of) = Cardinality(WithOutcome("value"))
                      /\ stage = "rejected" /\ requests # <<>> =>
                           \/ WithOutcome("error") # {}
                           \/ event.sender = "apigw" /\ WithOutcome("value") = {}
    BY DEF NothingIsLost
  <2> DEFINE Of(kind) == {j \in 1..Len(tuples) : tuples[j].kind = kind}
  <2>1. stage # "idle" => /\ KindOf(event) # "sqs"
                          /\ KindOf(event) = "apigw" => event.sender = "apigw"
    <3>1. stage # "idle" => event \in Event
      BY <1>1 DEF InvocationInv, StagesInv
    <3> QED BY <3>1, KindIsSender DEF Source
  <2>2. Errors(tuples) = Of("error")
    BY DEF Errors, IsError
  <2>3. /\ WithOutcome("error") = {tuples[j].req : j \in Of("error")}
        /\ WithOutcome("value") = {tuples[j].req : j \in Of("value")}
        /\ Cardinality(WithOutcome("value")) = Cardinality(Of("value"))
    BY <1>1, TuplesCount
  <2>4. tuples \in Seq(Answers) /\ Len(tuples) \in Nat /\ DOMAIN tuples = 1..Len(tuples)
    BY <1>1 DEF InvocationInv, TuplesInv
  <2>5. \A j \in 1..Len(tuples) : tuples[j].kind \in {"value", "error"}
    <3>1. \A j \in 1..Len(tuples) : tuples[j] \in Answers
      BY <2>4
    <3> QED BY <3>1 DEF Answers
  <2>6. ASSUME stage = "resolved"
        PROVE  /\ WithOutcome("error") = {}
               /\ Values(response.of) = WithOutcome("value")
               /\ Len(response.of) = Cardinality(WithOutcome("value"))
    <3>1. Errors(tuples) = {} /\ response = ResponseFor(tuples)
      BY <1>1, <2>1, <2>6 DEF InvocationInv, ResponseInv, Resolves
    <3>2. response.of = [j \in 1..Len(tuples) |-> tuples[j].req]
      <4>1. response.of = Responses(tuples)
        BY <2>1, <2>6, <3>1 DEF ResponseFor, ListResponse, SingleResponse, EventBridgeResponse
      <4> QED BY <2>4, <4>1 DEF Responses
    <3>3. Of("value") = 1..Len(tuples) /\ WithOutcome("error") = {}
      BY <2>2, <2>3, <2>5, <3>1
    <3>4. Cardinality(1..Len(tuples)) = Len(tuples)
      BY <2>4, FS_Interval
    <3>5. Len(response.of) = Len(tuples) /\ DOMAIN response.of = 1..Len(tuples)
      BY <2>4, <3>2
    <3>6. Values(response.of) = {tuples[j].req : j \in 1..Len(tuples)}
      BY <3>2, <3>5 DEF Values
    <3> QED BY <2>3, <3>3, <3>4, <3>5, <3>6
  <2>7. ASSUME stage = "rejected", requests # <<>>
        PROVE  \/ WithOutcome("error") # {}
               \/ event.sender = "apigw" /\ WithOutcome("value") = {}
    <3>1. ~Resolves(KindOf(event), tuples)
      BY <1>1, <2>7 DEF InvocationInv, ResponseInv
    <3>2. CASE Errors(tuples) # {}
      <4>1. PICK j \in Of("error") : TRUE
        BY <2>2, <3>2
      <4>2. tuples[j].req \in WithOutcome("error")
        BY <2>3
      <4> QED BY <4>2
    <3>3. CASE KindOf(event) = "apigw" /\ tuples = <<>>
      <4>1. 1..Len(tuples) = {}
        BY <3>3
      <4>2. {tuples[j].req : j \in Of("value")} = {}
        BY <4>1
      <4> QED BY <2>1, <2>3, <2>7, <3>3, <4>2
    <3> QED BY <3>1, <3>2, <3>3 DEF Resolves
  <2> QED BY <2>6, <2>7
<1> QED BY <1>1, InvocationIsSafe, PTL
=============================================================================
