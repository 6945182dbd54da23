----------------------------- MODULE OpenBroker -----------------------------
(***************************************************************************)
(* The broker between an arbitrary client and an arbitrary server: requests *)
(* are sent once each, under any id, and any response may be emitted at any *)
(* time, for an unknown id or for one that is already answered.            *)
(***************************************************************************)
EXTENDS Broker

CONSTANT MaxPackets   \* bound on the packets of one stream

ASSUME MaxPacketsAssumption == MaxPackets \in Nat

AnyResponse ==
  \E i \in Id, o \in Request, k \in Kind, d \in BOOLEAN :
    LET p == [id |-> i, origin |-> o, kind |-> k, n |-> 0, disposed |-> d]
    IN  /\ \A r \in Addressees(p) : Len(stream[r]) < MaxPackets
        /\ EmitResponse(p)

BrokerNext ==
  \/ AddConsumer
  \/ CloseBroker
  \/ \E r \in Request, i \in Id :
       /\ sent[r] = NoId
       /\ SendToConsumer(r, i) \/ SendToNobody(r, i)
  \/ AnyResponse

BrokerSpec == BrokerInit /\ [][BrokerNext]_brokerVars

-----------------------------------------------------------------------------
\* Only an open stream has a listener: a request that was refused, or whose
\* stream is complete, is never called back by the bus again.
ListenersAreOpen ==
  \A r \in listeners : status[r] = "open" /\ sent[r] # NoId

\* Responses are routed by id: whatever is emitted, and in whatever order, a
\* stream only ever carries packets with the id its request was sent under.
StreamIsolation ==
  \A r \in Request : \A i \in 1..Len(stream[r]) : stream[r][i].id = sent[r]

\* A disposed packet ends its stream: nothing follows it, and a stream is
\* complete exactly when its last packet is the disposed one.
DisposedEndsStream ==
  \A r \in Request :
    /\ \A i \in 1..Len(stream[r]) :
         stream[r][i].disposed => i = Len(stream[r]) /\ status[r] = "complete"
    /\ status[r] = "complete" =>
         Len(stream[r]) > 0 /\ stream[r][Len(stream[r])].disposed

\* A stream that ended (completed, or failed for want of a consumer) is never
\* written, reopened or listened to again.
EndedIsFinal ==
  [][\A r \in Request : status[r] \in {"complete", "error"} =>
       /\ status'[r] = status[r]
       /\ stream'[r] = stream[r]
       /\ r \notin listeners']_brokerVars
=============================================================================
