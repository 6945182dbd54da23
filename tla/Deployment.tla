----------------------------- MODULE Deployment -----------------------------
(***************************************************************************)
(* A Lambda function with an SQS queue as its event source.  An execution  *)
(* environment (a process) creates its microservice on the first           *)
(* invocation and reuses it; Lambda invokes it serially and replaces it    *)
(* when the process ends.  What processEvent does with a batch is abstract *)
(* here: Transport implements it.                                          *)
(***************************************************************************)
EXTENDS Naturals, FiniteSets, ResponseBuilders

CONSTANTS
  Message,      \* the messages of the queue
  Poison,       \* those with an attribute that the event mapper throws at
  Service,      \* the microservices a process may create
  NoService,    \* the variable microservice before it is assigned
  MaxLosses     \* bound on the invocations lost with their process

ASSUME PoisonAssumption == Poison \subseteq Message
ASSUME ServiceAssumption == NoService \notin Service
ASSUME MaxLossesAssumption == MaxLosses \in Nat

VARIABLES
  queue,         \* the messages that can be received
  batch,         \* the messages of the active invocation
  stage,         \* how far it is
  microservice,  \* the module variable of the process
  made,          \* the microservices created in the process
  listening,     \* those that listen on its broker
  answered,      \* the messages of the batch that have been answered
  tuples,        \* what the client has collected of their answers
  handled,       \* how often a handler has done its work for each message
  losses         \* how many processes have ended while one handled a batch

environment == <<microservice, made, listening>>
vars == <<queue, batch, stage, environment, answered, tuples, handled, losses>>

Stage == {"idle", "creating", "starting", "ready", "processing", "uncaught"}

DeploymentTypeOK ==
  /\ queue \in SUBSET Message /\ batch \in SUBSET Message
  /\ stage \in Stage
  /\ microservice \in Service \cup {NoService}
  /\ made \in SUBSET Service /\ listening \in SUBSET made
  /\ answered \in SUBSET batch
  /\ tuples \in Seq([req : Message, kind : {"value", "error"}])
  /\ \A i \in 1..Len(tuples) : tuples[i].req \in answered
  /\ handled \in [Message -> Nat]
  /\ losses \in Nat

Init ==
  /\ queue = Message /\ batch = {}
  /\ stage = "idle"
  /\ microservice = NoService /\ made = {} /\ listening = {}
  /\ answered = {} /\ tuples = <<>>
  /\ handled = [m \in Message |-> 0]
  /\ losses = 0

-----------------------------------------------------------------------------
\* The invocation ends and some of its messages can be received again.
Return(messages) ==
  /\ queue' = queue \cup messages
  /\ batch' = {} /\ answered' = {} /\ tuples' = <<>>
  /\ stage' = "idle"

\* The process ends, and with it all that its modules remember.
EndProcess ==
  /\ Return(batch)
  /\ microservice' = NoService /\ made' = {} /\ listening' = {}
  /\ losses' = IF listening = {} THEN losses ELSE losses + 1
  /\ UNCHANGED handled

\* Mutant: every invocation makes its own microservice.
NextStageAlways == "creating"

\* if (!microservice)
NextStage == IF microservice = NoService THEN "creating" ELSE "ready"

\* The handler is invoked with a batch.
Invoke(messages) ==
  /\ stage = "idle"
  /\ messages # {} /\ messages \subseteq queue
  /\ queue' = queue \ messages
  /\ batch' = messages
  /\ stage' = NextStage
  /\ UNCHANGED <<environment, answered, tuples, handled, losses>>

\* The microservice is remembered when it is created, before it listens.
CreateMicroservice ==
  /\ stage = "creating"
  /\ \E s \in Service \ made : microservice' = s /\ made' = made \cup {s}
  /\ stage' = "starting"
  /\ UNCHANGED <<queue, batch, listening, answered, tuples, handled, losses>>

CreateFails ==
  /\ stage = "creating"
  /\ Return(batch)
  /\ UNCHANGED <<environment, handled, losses>>

ListenSucceeds ==
  /\ stage = "starting"
  /\ listening' = listening \cup {microservice}
  /\ stage' = "ready"
  /\ UNCHANGED <<queue, batch, microservice, made, answered, tuples, handled, losses>>

\* An initialisation hook of the application throws, or two handlers have one
\* pattern: the invocation is rejected, but the next one finds a microservice.
ListenFails ==
  /\ stage = "starting"
  /\ Return(batch)
  /\ UNCHANGED <<environment, handled, losses>>

\* Mutant: requests that nobody receives are merely not answered.
StageOfRequestsQuiet == "processing"

\* With no server on the broker the errors of the requests are uncaught.
StageOfRequests == IF listening = {} THEN "uncaught" ELSE "processing"

Mapped == batch \cap Poison = {}

\* The event mapper throws at one record, before any request is published: the
\* invocation is rejected, with the whole batch.
RejectBatch ==
  /\ stage = "ready" /\ ~Mapped
  /\ Return(batch)
  /\ UNCHANGED <<environment, handled, losses>>

ProcessEvent ==
  /\ stage = "ready" /\ Mapped
  /\ stage' = StageOfRequests
  /\ UNCHANGED <<queue, batch, environment, answered, tuples, handled, losses>>

\* Mutant: an answer without a response is a tuple like any other.
AnswerVoid(m, kind) ==
  /\ stage \in {"processing", "uncaught"} /\ listening # {}
  /\ m \in batch \ answered
  /\ answered' = answered \cup {m}
  /\ tuples' = Append(tuples, [req |-> m, kind |-> kind])
  /\ handled' = IF kind = "error" THEN handled
                ELSE [handled EXCEPT ![m] = @ + Cardinality(listening)]
  /\ UNCHANGED <<queue, batch, stage, environment, losses>>

\* A message is handled by each server that listens; the first answer counts.
Answer(m, kind) ==
  /\ stage \in {"processing", "uncaught"} /\ listening # {}
  /\ m \in batch \ answered
  /\ answered' = answered \cup {m}
  /\ tuples' = IF kind = "void" THEN tuples ELSE Append(tuples, [req |-> m, kind |-> kind])
  /\ handled' = IF kind = "error" THEN handled
                ELSE [handled EXCEPT ![m] = @ + Cardinality(listening)]
  /\ UNCHANGED <<queue, batch, stage, environment, losses>>

Succeed(m) == Answer(m, "value") \/ Answer(m, "void")

\* The promise of a handler rejects: its message gets no answer.
HandlerRejects(m) ==
  /\ stage = "processing" /\ listening # {}
  /\ m \in batch \ answered
  /\ losses < MaxLosses
  /\ stage' = "uncaught"
  /\ UNCHANGED <<queue, batch, environment, answered, tuples, handled, losses>>

\* Messages that are not reported as failures are deleted from the queue.
Undeleted == IF Resolves("sqs", tuples) THEN BatchItemFailures(tuples) ELSE batch

Respond ==
  /\ stage = "processing" /\ answered = batch
  /\ Return(Undeleted)
  /\ UNCHANGED <<environment, handled, losses>>

\* An uncaught error ends the process.
Crash == stage = "uncaught" /\ EndProcess

\* Lambda ends a process whose invocation takes too long, or one that is idle.
Timeout ==
  /\ stage # "idle"
  /\ listening # {} => losses < MaxLosses
  /\ EndProcess

Recycle ==
  /\ stage = "idle" /\ microservice # NoService
  /\ microservice' = NoService /\ made' = {} /\ listening' = {}
  /\ UNCHANGED <<queue, batch, stage, answered, tuples, handled, losses>>

Next ==
  \/ \E messages \in SUBSET Message : Invoke(messages)
  \/ CreateMicroservice \/ CreateFails
  \/ ListenSucceeds \/ ListenFails
  \/ RejectBatch \/ ProcessEvent
  \/ \E m \in Message : Succeed(m) \/ Answer(m, "error") \/ HandlerRejects(m)
  \/ Respond
  \/ Crash \/ Timeout \/ Recycle

Spec == Init /\ [][Next]_vars

StartFails == CreateFails \/ ListenFails \/ (stage \in {"creating", "starting"} /\ Timeout)

\* The event source delivers every message again and again; each handler fails
\* only now and then; from some point on starting the application succeeds;
\* the event loop runs what is ready.  Nothing is assumed of Recycle, of any
\* other Timeout, nor of what is delivered together.
Fairness ==
  /\ \A m \in Message :
       /\ SF_vars(\E messages \in SUBSET Message : m \in messages /\ Invoke(messages))
       /\ SF_vars(Succeed(m))
  /\ <>[][~StartFails]_vars
  /\ WF_vars(CreateMicroservice) /\ WF_vars(ListenSucceeds)
  /\ WF_vars(RejectBatch) /\ WF_vars(ProcessEvent) /\ WF_vars(Respond) /\ WF_vars(Crash)

FairSpec == Spec /\ Fairness

-----------------------------------------------------------------------------
\* No message is lost: one that the event source has deleted was handled with
\* success, whatever failed, crashed or timed out on the way.
DeletedMeansHandled == \A m \in Message : m \notin queue \cup batch => handled[m] > 0

\* A message is handled again only because a process ended before it could
\* respond: neither the failure of another record of the batch, nor a failed
\* start and the crash that follows it, repeats what was done.
RepeatsNeedLosses == \A m \in Message : handled[m] <= 1 + losses

\* No two servers listen on the broker of a process, through failed starts,
\* reuse and replacement.
OneServerListens == \A s, t \in listening : s = t

\* Every message that can be mapped is handled in the end, unless it is
\* delivered again and again together with one that cannot.  A start that
\* fails leaves a microservice that never listens: it takes the crash of the
\* next invocation to get rid of it.
EveryMessageIsHandled ==
  \A m \in Message \ Poison : <>(handled[m] > 0) \/ []<>(m \in batch /\ ~Mapped)
=============================================================================
