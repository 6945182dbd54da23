-------------------------- MODULE DeploymentProofs --------------------------
(***************************************************************************)
(* Deployment, for any messages, any supply of microservices and any       *)
(* number of lost processes: types, and the three safety properties.       *)
(***************************************************************************)
EXTENDS Deployment, FiniteSetTheorems, TLAPS

Failed == BatchItemFailures(tuples)

\* A process makes one microservice at most, and nothing else listens.
EnvironmentInv ==
  /\ made = IF microservice = NoService THEN {} ELSE {microservice}
  /\ stage = "creating" => microservice = NoService
  /\ stage = "starting" => microservice # NoService
  /\ listening = {} => answered = {}

\* Where the messages are.
PlacesInv ==
  /\ queue \cap batch = {}
  /\ stage = "idle" => batch = {}
  /\ stage \notin {"processing", "uncaught"} => answered = {}

\* What has been done of them: a message that may still be handled in this
\* process, or received again, was handled only by processes that were lost.
CountInv ==
  /\ \A m \in Message : handled[m] <= 1 + losses
  /\ \A m \in queue \cup (batch \ answered) \cup Failed : handled[m] <= losses
  /\ \A m \in answered \ Failed : handled[m] > 0
  /\ \A m \in Message \ (queue \cup batch) : handled[m] > 0

DeploymentInv == DeploymentTypeOK /\ EnvironmentInv /\ PlacesInv /\ CountInv

-----------------------------------------------------------------------------
\* Failures are reported of answered messages only.
LEMMA FailedAreAnswered == DeploymentTypeOK => Failed \subseteq answered
BY DEF DeploymentTypeOK, Failed, BatchItemFailures, Errors

\* Without tuples there is nothing to report.
LEMMA NoTuplesNoFailures == tuples = <<>> => Failed = {}
BY DEF Failed, BatchItemFailures, Errors

\* One more tuple is one more failure, if it is an error.
LEMMA FailuresOfAppend ==
  ASSUME NEW ts \in Seq([req : Message, kind : {"value", "error"}]),
         NEW m \in Message, NEW k \in {"value", "error"}
  PROVE  LET us == Append(ts, [req |-> m, kind |-> k])
         IN  /\ k = "error" => BatchItemFailures(us) = BatchItemFailures(ts) \cup {m}
             /\ k # "error" => BatchItemFailures(us) = BatchItemFailures(ts)
<1> DEFINE us == Append(ts, [req |-> m, kind |-> k])
<1>1. Len(us) = Len(ts) + 1 /\ Len(ts) \in Nat
  OBVIOUS
<1>2. \A i \in 1..Len(ts) : us[i] = ts[i]
  OBVIOUS
<1>3. us[Len(us)] = [req |-> m, kind |-> k]
  OBVIOUS
<1>4. Errors(us) = Errors(ts) \cup (IF k = "error" THEN {Len(us)} ELSE {})
  BY <1>1, <1>2, <1>3 DEF Errors, IsError
<1>5. \A i \in Errors(ts) : us[i] = ts[i]
  BY <1>2 DEF Errors
<1>6. us[Len(us)].req = m
  BY <1>3
<1> HIDE DEF us
<1>7. ASSUME k = "error"
      PROVE  BatchItemFailures(us) = BatchItemFailures(ts) \cup {m}
  <2>1. Errors(us) = Errors(ts) \cup {Len(us)}
    BY <1>4, <1>7
  <2> QED BY <1>5, <1>6, <2>1 DEF BatchItemFailures
<1>8. ASSUME k # "error"
      PROVE  BatchItemFailures(us) = BatchItemFailures(ts)
  <2>1. Errors(us) = Errors(ts)
    BY <1>4, <1>8
  <2> QED BY <1>5, <2>1 DEF BatchItemFailures
<1> QED BY <1>7, <1>8 DEF us

\* The one server that listens handles a message once.
LEMMA OneListener ==
  DeploymentTypeOK /\ EnvironmentInv /\ listening # {} => Cardinality(listening) = 1
<1> SUFFICES ASSUME DeploymentTypeOK, EnvironmentInv, listening # {}
             PROVE  Cardinality(listening) = 1
  OBVIOUS
<1>1. listening = {microservice}
  BY DEF DeploymentTypeOK, EnvironmentInv
<1> QED BY <1>1, FS_Singleton

-----------------------------------------------------------------------------
\* The initial state: everything is queued, and nothing runs.
LEMMA DeploymentInitially == Init => DeploymentInv
<1> SUFFICES ASSUME Init PROVE DeploymentInv
  OBVIOUS
<1>1. Failed = {}
  BY NoTuplesNoFailures DEF Init
<1>2. DeploymentTypeOK
  BY DEF Init, DeploymentTypeOK, Stage
<1>3. EnvironmentInv /\ PlacesInv
  BY DEF Init, EnvironmentInv, PlacesInv
<1>4. CountInv
  BY <1>1 DEF Init, CountInv
<1> QED BY <1>2, <1>3, <1>4 DEF DeploymentInv

\* Stuttering steps.
LEMMA StutteringKeepsInv == DeploymentInv /\ UNCHANGED vars => DeploymentInv'
BY DEF DeploymentInv, DeploymentTypeOK, EnvironmentInv, PlacesInv, CountInv, Failed, vars, environment

\* An invocation that ends without a response returns its whole batch: nothing
\* was answered in it, or its process is one of the lost.
LEMMA ReturnKeepsCounts ==
  ASSUME DeploymentInv, Return(batch), UNCHANGED handled,
         \/ losses' = losses + 1
         \/ answered = {} /\ losses' = losses
  PROVE  PlacesInv' /\ CountInv'
<1> USE DEF DeploymentInv
<1>1. Failed' = {}
  BY NoTuplesNoFailures DEF Return, Failed, BatchItemFailures, Errors
<1>2. PlacesInv'
  BY DEF Return, PlacesInv
<1>3. losses \in Nat /\ handled \in [Message -> Nat]
  BY DEF DeploymentTypeOK
<1>4. queue' = queue \cup batch /\ batch' = {} /\ answered' = {} /\ handled' = handled
  BY DEF Return
<1>5. queue \subseteq Message /\ batch \subseteq Message
  BY DEF DeploymentTypeOK
<1>6. CASE losses' = losses + 1
  BY <1>1, <1>2, <1>3, <1>4, <1>5, <1>6 DEF CountInv
<1>7. CASE answered = {} /\ losses' = losses
  BY <1>1, <1>2, <1>3, <1>4, <1>5, <1>7 DEF CountInv
<1> QED BY <1>6, <1>7

\* The end of a process, which counts as a loss if it could have handled
\* anything of its batch.
LEMMA EndProcessKeepsInv == DeploymentInv /\ EndProcess => DeploymentInv'
<1> SUFFICES ASSUME DeploymentInv, EndProcess PROVE DeploymentInv'
  OBVIOUS
<1> USE DEF DeploymentInv
<1>1. losses' = losses + 1 \/ (answered = {} /\ losses' = losses)
  BY DEF EndProcess, EnvironmentInv
<1>2. PlacesInv' /\ CountInv'
  BY <1>1, ReturnKeepsCounts DEF EndProcess
<1>3. DeploymentTypeOK'
  BY DEF EndProcess, Return, DeploymentTypeOK, Stage
<1>4. EnvironmentInv'
  BY DEF EndProcess, Return, EnvironmentInv
<1> QED BY <1>2, <1>3, <1>4

\* An invocation moves messages from the queue into the batch.
LEMMA InvokeKeepsInv ==
  ASSUME DeploymentInv, NEW messages \in SUBSET Message, Invoke(messages)
  PROVE  DeploymentInv'
<1> USE DEF DeploymentInv
<1>1. Failed' = Failed
  BY DEF Invoke, Failed
<1>2. batch = {} /\ answered = {}
  BY DEF Invoke, PlacesInv, DeploymentTypeOK
<1>3. DeploymentTypeOK'
  BY <1>2 DEF Invoke, DeploymentTypeOK, environment, NextStage, Stage
<1>4. EnvironmentInv'
  BY DEF Invoke, EnvironmentInv, environment, NextStage
<1>5. PlacesInv'
  BY <1>2 DEF Invoke, PlacesInv, NextStage
<1>6. CountInv'
  BY <1>1, <1>2 DEF Invoke, CountInv
<1> QED BY <1>3, <1>4, <1>5, <1>6

\* The steps that start the microservice and publish the batch, whether they
\* succeed or not.
LEMMA StartKeepsInv ==
  ASSUME DeploymentInv,
         \/ CreateMicroservice \/ CreateFails \/ ListenSucceeds \/ ListenFails
         \/ RejectBatch \/ ProcessEvent
  PROVE  DeploymentInv'
<1> USE DEF DeploymentInv
<1>1. CASE CreateMicroservice
  <2>1. Failed' = Failed
    BY <1>1 DEF CreateMicroservice, Failed
  <2>2. DeploymentTypeOK'
    BY <1>1 DEF CreateMicroservice, DeploymentTypeOK, Stage
  <2>3. EnvironmentInv' /\ PlacesInv'
    BY <1>1, ServiceAssumption DEF CreateMicroservice, EnvironmentInv, PlacesInv
  <2>4. CountInv'
    BY <1>1, <2>1 DEF CreateMicroservice, CountInv
  <2> QED BY <2>2, <2>3, <2>4
<1>2. CASE CreateFails \/ ListenFails \/ RejectBatch
  <2>1. Return(batch) /\ UNCHANGED <<environment, handled, losses>> /\ answered = {}
    BY <1>2 DEF CreateFails, ListenFails, RejectBatch, PlacesInv
  <2>2. PlacesInv' /\ CountInv'
    BY <2>1, ReturnKeepsCounts
  <2>3. DeploymentTypeOK' /\ EnvironmentInv'
    BY <2>1 DEF Return, DeploymentTypeOK, EnvironmentInv, environment, Stage
  <2> QED BY <2>2, <2>3
<1>3. CASE ListenSucceeds
  <2>1. Failed' = Failed
    BY <1>3 DEF ListenSucceeds, Failed
  <2>2. DeploymentTypeOK' /\ EnvironmentInv'
    BY <1>3 DEF ListenSucceeds, DeploymentTypeOK, EnvironmentInv, PlacesInv, Stage
  <2>3. PlacesInv' /\ CountInv'
    BY <1>3, <2>1 DEF ListenSucceeds, PlacesInv, CountInv
  <2> QED BY <2>2, <2>3
<1>4. CASE ProcessEvent
  <2>1. Failed' = Failed
    BY <1>4 DEF ProcessEvent, Failed
  <2>2. DeploymentTypeOK' /\ EnvironmentInv'
    BY <1>4 DEF ProcessEvent, StageOfRequests, DeploymentTypeOK, EnvironmentInv, environment, Stage
  <2>3. PlacesInv' /\ CountInv'
    BY <1>4, <2>1 DEF ProcessEvent, StageOfRequests, PlacesInv, CountInv
  <2> QED BY <2>2, <2>3
<1> QED BY <1>1, <1>2, <1>3, <1>4

\* One message of the batch is answered, and handled unless that is an error.
LEMMA AnswerKeepsInv ==
  ASSUME DeploymentInv, NEW m \in Message, NEW kind \in {"value", "void", "error"}, Answer(m, kind)
  PROVE  DeploymentInv'
<1> USE DEF DeploymentInv
<1> DEFINE tuple == [req |-> m, kind |-> kind]
<1>1. /\ tuples' = IF kind = "void" THEN tuples ELSE Append(tuples, tuple)
      /\ answered' = answered \cup {m}
      /\ m \in batch \ answered
  BY DEF Answer
<1>2. tuples \in Seq([req : Message, kind : {"value", "error"}])
  BY DEF DeploymentTypeOK
<1>3. Failed' = Failed \cup (IF kind = "error" THEN {m} ELSE {})
  <2>1. CASE kind = "void"
    BY <1>1, <2>1 DEF Failed
  <2>2. CASE kind # "void"
    <3>1. kind \in {"value", "error"}
      BY <2>2
    <3>2. /\ kind = "error" => BatchItemFailures(Append(tuples, tuple)) = BatchItemFailures(tuples) \cup {m}
          /\ kind # "error" => BatchItemFailures(Append(tuples, tuple)) = BatchItemFailures(tuples)
      BY <1>2, <3>1, FailuresOfAppend
    <3>3. Failed' = BatchItemFailures(Append(tuples, tuple))
      BY <1>1, <2>2 DEF Failed, BatchItemFailures, Errors
    <3> QED BY <3>2, <3>3 DEF Failed
  <2> QED BY <2>1, <2>2
<1>4. handled' = IF kind = "error" THEN handled ELSE [handled EXCEPT ![m] = @ + 1]
  BY OneListener DEF Answer
<1>5. UNCHANGED <<queue, batch, stage, environment, losses>>
  BY DEF Answer
<1>6. tuples' \in Seq([req : Message, kind : {"value", "error"}])
  <2>1. CASE kind = "void"
    BY <1>1, <1>2, <2>1
  <2>2. CASE kind # "void"
    <3>1. tuple \in [req : Message, kind : {"value", "error"}]
      BY <2>2
    <3> QED BY <1>1, <1>2, <2>2, <3>1
  <2> QED BY <2>1, <2>2
<1>7. \A i \in 1..Len(tuples') : tuples'[i].req \in answered'
  <2>1. CASE kind = "void"
    BY <1>1, <2>1 DEF DeploymentTypeOK
  <2>2. CASE kind # "void"
    <3> SUFFICES ASSUME NEW i \in 1..Len(tuples') PROVE tuples'[i].req \in answered'
      OBVIOUS
    <3>1. CASE i <= Len(tuples)
      <4>1. tuples'[i] = tuples[i]
        BY <1>1, <1>2, <2>2, <3>1
      <4> QED BY <1>1, <1>2, <3>1, <4>1 DEF DeploymentTypeOK
    <3>2. CASE i = Len(tuples) + 1
      <4>1. tuples'[i] = tuple
        BY <1>1, <1>2, <2>2, <3>2
      <4> QED BY <1>1, <4>1
    <3> QED BY <1>1, <1>2, <2>2, <3>1, <3>2
  <2> QED BY <2>1, <2>2
<1>8. DeploymentTypeOK'
  <2>1. answered' \in SUBSET batch'
    BY <1>1, <1>5 DEF DeploymentTypeOK
  <2>2. handled' \in [Message -> Nat]
    BY <1>4 DEF DeploymentTypeOK
  <2> QED BY <1>5, <1>6, <1>7, <2>1, <2>2 DEF DeploymentTypeOK, environment
<1>9. EnvironmentInv' /\ PlacesInv'
  BY DEF Answer, EnvironmentInv, PlacesInv, environment
<1>10. CountInv'
  <2>1. Failed \subseteq answered
    BY FailedAreAnswered
  <2>2. handled \in [Message -> Nat] /\ losses \in Nat /\ queue \subseteq Message /\ batch \subseteq Message
    BY DEF DeploymentTypeOK
  <2>3. m \notin queue /\ m \notin Failed /\ handled[m] <= losses
    BY <1>1, <2>1 DEF PlacesInv, CountInv
  <2>4. CASE kind = "error"
    BY <1>1, <1>3, <1>4, <1>5, <2>1, <2>2, <2>3, <2>4 DEF CountInv
  <2>5. CASE kind # "error"
    <3>1. \A n \in Message : handled'[n] = IF n = m THEN handled[n] + 1 ELSE handled[n]
      BY <1>4, <2>2, <2>5
    <3>2. Failed' = Failed
      BY <1>3, <2>5
    <3> DEFINE open == queue \cup (batch \ answered) \cup Failed
    <3>3. \A n \in Message : handled'[n] <= 1 + losses
      BY <2>2, <2>3, <3>1 DEF CountInv
    <3>4. \A n \in open : n # m => handled'[n] <= losses
      <4>1. open \subseteq Message
        BY <2>1, <2>2, <1>8 DEF DeploymentTypeOK
      <4> QED BY <3>1, <4>1 DEF CountInv
    <3>5. queue' \cup (batch' \ answered') \cup Failed' = open \ {m}
      BY <1>1, <1>5, <2>3, <3>2
    <3>6. \A n \in answered' \ Failed' : handled'[n] > 0
      <4>1. answered \subseteq Message
        BY <2>2 DEF DeploymentTypeOK
      <4> QED BY <1>1, <2>2, <3>1, <3>2, <4>1 DEF CountInv
    <3>7. \A n \in Message \ (queue' \cup batch') : handled'[n] > 0
      BY <1>5, <2>2, <3>1 DEF CountInv
    <3> QED BY <1>5, <3>3, <3>4, <3>5, <3>6, <3>7 DEF CountInv
  <2> QED BY <2>4, <2>5
<1> QED BY <1>8, <1>9, <1>10

\* The promise of a handler rejects.
LEMMA HandlerRejectsKeepsInv ==
  ASSUME DeploymentInv, NEW m \in Message, HandlerRejects(m)
  PROVE  DeploymentInv'
<1> USE DEF DeploymentInv
<1>1. Failed' = Failed
  BY DEF HandlerRejects, Failed
<1>2. DeploymentTypeOK'
  BY DEF HandlerRejects, DeploymentTypeOK, environment, Stage
<1>3. EnvironmentInv' /\ PlacesInv'
  BY DEF HandlerRejects, EnvironmentInv, PlacesInv, environment
<1>4. CountInv'
  BY <1>1 DEF HandlerRejects, CountInv
<1> QED BY <1>2, <1>3, <1>4

\* The messages that are not reported as failures were all handled.
LEMMA RespondKeepsInv == DeploymentInv /\ Respond => DeploymentInv'
<1> SUFFICES ASSUME DeploymentInv, Respond PROVE DeploymentInv'
  OBVIOUS
<1> USE DEF DeploymentInv
<1>1. Undeleted = Failed
  BY DEF Undeleted, Resolves, Failed
<1>2. /\ queue' = queue \cup Failed /\ batch' = {} /\ answered' = {} /\ tuples' = <<>> /\ stage' = "idle"
      /\ UNCHANGED <<environment, handled, losses>>
      /\ answered = batch
  BY <1>1 DEF Respond, Return
<1>3. Failed' = {}
  BY <1>2 DEF Failed, BatchItemFailures, Errors
<1>4. Failed \subseteq batch
  BY <1>2, FailedAreAnswered
<1>5. DeploymentTypeOK'
  BY <1>2, <1>4 DEF DeploymentTypeOK, environment, Stage
<1>6. EnvironmentInv' /\ PlacesInv'
  BY <1>2 DEF EnvironmentInv, PlacesInv, environment
<1>7. CountInv'
  BY <1>2, <1>3, <1>4 DEF CountInv
<1> QED BY <1>5, <1>6, <1>7

\* An idle process is replaced.
LEMMA RecycleKeepsInv == DeploymentInv /\ Recycle => DeploymentInv'
<1> SUFFICES ASSUME DeploymentInv, Recycle PROVE DeploymentInv'
  OBVIOUS
<1> USE DEF DeploymentInv
<1>1. Failed' = Failed
  BY DEF Recycle, Failed
<1>2. DeploymentTypeOK'
  BY DEF Recycle, DeploymentTypeOK
<1>3. EnvironmentInv' /\ PlacesInv'
  BY DEF Recycle, EnvironmentInv, PlacesInv
<1>4. CountInv'
  BY <1>1 DEF Recycle, CountInv
<1> QED BY <1>2, <1>3, <1>4

\* Every step keeps the invariant.
LEMMA DeploymentNext == DeploymentInv /\ [Next]_vars => DeploymentInv'
<1> SUFFICES ASSUME DeploymentInv, [Next]_vars PROVE DeploymentInv'
  OBVIOUS
<1>1. CASE \E messages \in SUBSET Message : Invoke(messages)
  BY <1>1, InvokeKeepsInv
<1>2. CASE \/ CreateMicroservice \/ CreateFails \/ ListenSucceeds \/ ListenFails
           \/ RejectBatch \/ ProcessEvent
  BY <1>2, StartKeepsInv
<1>3. CASE \E m \in Message : Succeed(m) \/ Answer(m, "error")
  BY <1>3, AnswerKeepsInv DEF Succeed
<1>4. CASE \E m \in Message : HandlerRejects(m)
  BY <1>4, HandlerRejectsKeepsInv
<1>5. CASE Respond
  BY <1>5, RespondKeepsInv
<1>6. CASE Crash \/ Timeout
  BY <1>6, EndProcessKeepsInv DEF Crash, Timeout
<1>7. CASE Recycle
  BY <1>7, RecycleKeepsInv
<1>8. CASE UNCHANGED vars
  BY <1>8, StutteringKeepsInv
<1> QED BY <1>1, <1>2, <1>3, <1>4, <1>5, <1>6, <1>7, <1>8 DEF Next

\* The invariant of the deployment.
LEMMA DeploymentInvariant == Spec => []DeploymentInv
BY DeploymentInitially, DeploymentNext, PTL DEF Spec

-----------------------------------------------------------------------------
\* The state is well typed; every tuple is the answer to a message that is
\* counted as answered.
THEOREM DeploymentTypes == Spec => []DeploymentTypeOK
<1>1. DeploymentInv => DeploymentTypeOK
  BY DEF DeploymentInv
<1> QED BY <1>1, DeploymentInvariant, PTL

\* However often starts fail, handlers throw and processes end, the event
\* source deletes only what a handler has done.
THEOREM NothingIsLostInDeployment == Spec => []DeletedMeansHandled
<1>1. DeploymentInv => DeletedMeansHandled
  BY DEF DeploymentInv, CountInv, DeletedMeansHandled
<1> QED BY <1>1, DeploymentInvariant, PTL

\* Each repetition is paid for by a process that ended under a batch.
THEOREM RepetitionIsAccountedFor == Spec => []RepeatsNeedLosses
<1>1. DeploymentInv => RepeatsNeedLosses
  BY DEF DeploymentInv, CountInv, RepeatsNeedLosses
<1> QED BY <1>1, DeploymentInvariant, PTL

\* The broker of a process never has two consumers.
THEOREM ServersAreAlone == Spec => []OneServerListens
<1>1. DeploymentInv => OneServerListens
  BY DEF DeploymentInv, DeploymentTypeOK, EnvironmentInv, OneServerListens
<1> QED BY <1>1, DeploymentInvariant, PTL
=============================================================================
