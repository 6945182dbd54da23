---------------------------- MODULE BrokerProofs ----------------------------
(***************************************************************************)
(* What the broker guarantees for any number of requests and ids, whatever *)
(* its client and its server do.                                           *)
(***************************************************************************)
EXTENDS OpenBroker, TLAPS

\* A request that was not sent has no listener and no packets: a request is
\* sent once, so sending it cannot reopen a stream.
UnsentIsFresh ==
  \A r \in Request : sent[r] = NoId =>
    r \notin listeners /\ status[r] = "none" /\ stream[r] = <<>>

\* The inductive invariant: StreamIsolation needs UnsentIsFresh (giving a
\* request its id must not disagree with packets it already has), and
\* DisposedEndsStream needs ListenersAreOpen (a packet is appended to an open
\* stream only, which carries no disposed packet yet).
BrokerInv ==
  /\ BrokerTypeOK
  /\ ListenersAreOpen
  /\ StreamIsolation
  /\ DisposedEndsStream
  /\ UnsentIsFresh

\* The empty bus satisfies the invariant.
LEMMA InitInv == BrokerInit => BrokerInv
<1> SUFFICES ASSUME BrokerInit PROVE BrokerInv
  OBVIOUS
<1> USE DEF BrokerInit
<1>1. BrokerTypeOK
  <2>1. <<>> \in Seq(Packet)
    OBVIOUS
  <2> QED BY <2>1 DEF BrokerTypeOK
<1>2. \A r \in Request : stream[r] = <<>> /\ status[r] = "none"
  OBVIOUS
<1>3. ListenersAreOpen /\ UnsentIsFresh
  BY DEF ListenersAreOpen, UnsentIsFresh
<1>4. StreamIsolation /\ DisposedEndsStream
  BY <1>2 DEF StreamIsolation, DisposedEndsStream
<1> QED BY <1>1, <1>3, <1>4 DEF BrokerInv

\* sendRequest to a consumer, for a request sent for the first time.
LEMMA SendToConsumerInv ==
  ASSUME BrokerInv, NEW r \in Request, NEW i \in Id,
         sent[r] = NoId, SendToConsumer(r, i)
  PROVE  BrokerInv'
  BY NoIdAssumption DEF SendToConsumer, BrokerInv, BrokerTypeOK,
     ListenersAreOpen, StreamIsolation, DisposedEndsStream, UnsentIsFresh

\* sendRequest to nobody.
LEMMA SendToNobodyInv ==
  ASSUME BrokerInv, NEW r \in Request, NEW i \in Id,
         sent[r] = NoId, SendToNobody(r, i)
  PROVE  BrokerInv'
  BY NoIdAssumption DEF SendToNobody, BrokerInv, BrokerTypeOK,
     ListenersAreOpen, StreamIsolation, DisposedEndsStream, UnsentIsFresh

\* Any response, emitted at any time, preserves the invariant.
LEMMA EmitResponseInv ==
  ASSUME BrokerInv, NEW p \in Packet, EmitResponse(p)
  PROVE  BrokerInv'
<1> DEFINE A == Addressees(p)
<1> USE DEF BrokerInv
<1>1. /\ A \subseteq listeners
      /\ A \subseteq Request
      /\ \A r \in A : sent[r] = p.id /\ status[r] = "open" /\ sent[r] # NoId
  BY DEF Addressees, BrokerTypeOK, ListenersAreOpen
<1>2. /\ sent' = sent
      /\ consumer' = consumer
      /\ listeners' = IF p.disposed THEN listeners \ A ELSE listeners
      /\ \A r \in Request : stream'[r] = IF r \in A THEN Append(stream[r], p) ELSE stream[r]
      /\ \A r \in Request : status'[r] = IF r \in A /\ p.disposed THEN "complete" ELSE status[r]
  BY DEF EmitResponse, BrokerTypeOK
<1>3. \A r \in A : /\ stream'[r] \in Seq(Packet)
                   /\ Len(stream'[r]) = Len(stream[r]) + 1
                   /\ stream'[r][Len(stream'[r])] = p
                   /\ \A i \in 1..Len(stream[r]) : stream'[r][i] = stream[r][i]
  <2>1. \A r \in A : stream'[r] = Append(stream[r], p) /\ stream[r] \in Seq(Packet)
    BY <1>1, <1>2 DEF BrokerTypeOK
  <2> QED BY <2>1
<1>4. p.disposed \in BOOLEAN
  BY DEF Packet
<1>5. BrokerTypeOK'
  <2>1. stream' \in [Request -> Seq(Packet)]
    BY <1>2, <1>3 DEF EmitResponse, BrokerTypeOK
  <2>2. status' \in [Request -> {"none", "open", "complete", "error"}]
    BY <1>4 DEF EmitResponse, BrokerTypeOK
  <2> QED BY <1>1, <1>2, <1>4, <2>1, <2>2 DEF BrokerTypeOK
<1>6. ListenersAreOpen'
  BY <1>1, <1>2, <1>4 DEF ListenersAreOpen, BrokerTypeOK
<1>7. StreamIsolation'
  <2> SUFFICES ASSUME NEW r \in Request, NEW i \in 1..Len(stream'[r])
               PROVE  stream'[r][i].id = sent'[r]
    BY DEF StreamIsolation
  <2>1. Len(stream[r]) \in Nat
    BY DEF BrokerTypeOK
  <2>2. CASE r \in A /\ i = Len(stream'[r])
    BY <1>1, <1>2, <1>3, <2>2
  <2>3. CASE r \in A /\ i # Len(stream'[r])
    <3>1. i \in 1..Len(stream[r])
      BY <1>3, <2>1, <2>3
    <3> QED BY <1>2, <1>3, <2>3, <3>1 DEF StreamIsolation
  <2>4. CASE r \notin A
    BY <1>2, <2>4 DEF StreamIsolation
  <2> QED BY <2>2, <2>3, <2>4
<1>8. DisposedEndsStream'
  <2> SUFFICES ASSUME NEW r \in Request
               PROVE  /\ \A i \in 1..Len(stream'[r]) : stream'[r][i].disposed =>
                           i = Len(stream'[r]) /\ status'[r] = "complete"
                      /\ status'[r] = "complete" =>
                           Len(stream'[r]) > 0 /\ stream'[r][Len(stream'[r])].disposed
    BY DEF DisposedEndsStream
  <2>1. CASE r \in A
    <3>1. \A i \in 1..Len(stream[r]) : ~stream[r][i].disposed
      BY <1>1, <2>1 DEF DisposedEndsStream
    <3>2. Len(stream[r]) \in Nat
      BY DEF BrokerTypeOK
    <3> QED BY <1>1, <1>2, <1>3, <2>1, <3>1, <3>2
  <2>2. CASE r \notin A
    BY <1>2, <2>2 DEF DisposedEndsStream
  <2> QED BY <2>1, <2>2
<1>9. UnsentIsFresh'
  BY <1>1, <1>2 DEF UnsentIsFresh
<1> QED BY <1>5, <1>6, <1>7, <1>8, <1>9

\* Every step of the broker and its environment preserves the invariant.
LEMMA StepInv == BrokerInv /\ [BrokerNext]_brokerVars => BrokerInv'
<1> SUFFICES ASSUME BrokerInv, [BrokerNext]_brokerVars PROVE BrokerInv'
  OBVIOUS
<1> USE DEF BrokerInv
<1>1. CASE AddConsumer
  BY <1>1 DEF AddConsumer, BrokerTypeOK, ListenersAreOpen, StreamIsolation,
     DisposedEndsStream, UnsentIsFresh
<1>2. CASE CloseBroker
  BY <1>2 DEF CloseBroker, BrokerTypeOK, ListenersAreOpen, StreamIsolation,
     DisposedEndsStream, UnsentIsFresh
<1>3. ASSUME NEW r \in Request, NEW i \in Id, sent[r] = NoId,
             SendToConsumer(r, i) \/ SendToNobody(r, i)
      PROVE  BrokerInv'
  BY <1>3, SendToConsumerInv, SendToNobodyInv
<1>4. CASE AnyResponse
  <2>1. PICK i \in Id, o \in Request, k \in Kind, d \in BOOLEAN :
          EmitResponse([id |-> i, origin |-> o, kind |-> k, n |-> 0, disposed |-> d])
    BY <1>4 DEF AnyResponse
  <2>2. [id |-> i, origin |-> o, kind |-> k, n |-> 0, disposed |-> d] \in Packet
    BY DEF Packet
  <2> QED BY <2>1, <2>2, EmitResponseInv
<1>5. CASE UNCHANGED brokerVars
  BY <1>5 DEF brokerVars, BrokerTypeOK, ListenersAreOpen, StreamIsolation,
     DisposedEndsStream, UnsentIsFresh
<1> QED BY <1>1, <1>2, <1>3, <1>4, <1>5 DEF BrokerNext

\* The broker's invariant holds of every behaviour of it.
THEOREM BrokerInvariance == BrokerSpec => []BrokerInv
  BY InitInv, StepInv, PTL DEF BrokerSpec

\* The state of the bus is well typed in every behaviour.
THEOREM BrokerTypes == BrokerSpec => []BrokerTypeOK
<1>1. BrokerInv => BrokerTypeOK
  BY DEF BrokerInv
<1> QED BY <1>1, BrokerInvariance, PTL

\* Responses are routed by id, for any interleaving of any requests.
THEOREM BrokerIsolatesStreams == BrokerSpec => []StreamIsolation
<1>1. BrokerInv => StreamIsolation
  BY DEF BrokerInv
<1> QED BY <1>1, BrokerInvariance, PTL

\* A disposed packet is the last one of its stream, and only it completes it.
THEOREM BrokerDisposes == BrokerSpec => []DisposedEndsStream
<1>1. BrokerInv => DisposedEndsStream
  BY DEF BrokerInv
<1> QED BY <1>1, BrokerInvariance, PTL

\* Only an open stream has a listener, so no answer comes after the end.
THEOREM BrokerListens == BrokerSpec => []ListenersAreOpen
<1>1. BrokerInv => ListenersAreOpen
  BY DEF BrokerInv
<1> QED BY <1>1, BrokerInvariance, PTL

\* One step never touches a stream that has ended.
LEMMA StepEnded ==
  ASSUME BrokerInv, [BrokerNext]_brokerVars, NEW r \in Request,
         status[r] \in {"complete", "error"}
  PROVE  status'[r] = status[r] /\ stream'[r] = stream[r] /\ r \notin listeners'
<1>1. r \notin listeners /\ sent[r] # NoId
  BY DEF BrokerInv, ListenersAreOpen, UnsentIsFresh
<1>2. CASE AddConsumer
  BY <1>1, <1>2 DEF AddConsumer
<1>3. CASE CloseBroker
  BY <1>3 DEF CloseBroker
<1>4. ASSUME NEW q \in Request, NEW i \in Id, sent[q] = NoId,
             SendToConsumer(q, i) \/ SendToNobody(q, i)
      PROVE  status'[r] = status[r] /\ stream'[r] = stream[r] /\ r \notin listeners'
  BY <1>1, <1>4 DEF SendToConsumer, SendToNobody, BrokerInv, BrokerTypeOK
<1>5. ASSUME NEW p, EmitResponse(p)
      PROVE  status'[r] = status[r] /\ stream'[r] = stream[r] /\ r \notin listeners'
  BY <1>1, <1>5 DEF EmitResponse, Addressees
<1>6. CASE UNCHANGED brokerVars
  BY <1>1, <1>6 DEF brokerVars
<1> QED BY <1>2, <1>3, <1>4, <1>5, <1>6 DEF BrokerNext, AnyResponse

\* A stream that ended stays as it is: late, duplicated or misaddressed
\* answers do not reach it.
THEOREM BrokerEndedIsFinal == BrokerSpec => EndedIsFinal
<1>1. BrokerInv /\ [BrokerNext]_brokerVars =>
        [\A r \in Request : status[r] \in {"complete", "error"} =>
           /\ status'[r] = status[r]
           /\ stream'[r] = stream[r]
           /\ r \notin listeners']_brokerVars
  BY StepEnded
<1> QED BY <1>1, BrokerInvariance, PTL DEF BrokerSpec, EndedIsFinal
=============================================================================
