--------------------------- MODULE EventProcessing --------------------------
(***************************************************************************)
(* What processEvent promises to Lambda, without client, broker, server or *)
(* ids: each record of an event gets one verdict while its invocation is   *)
(* active, and the invocation settles after the last of them, with a       *)
(* result that depends on the verdicts and on the kind of event alone.     *)
(***************************************************************************)
CONSTANTS
  Event,       \* the events
  Record,      \* their records
  RecordsOf,   \* the set of records of each event
  SourceOf,    \* the kind of each event
  Unmappable,  \* events refused as a whole
  Overlapping  \* may invocations overlap

VARIABLES
  phase,       \* of the promise returned for each event
  verdict,     \* on each record
  failures,    \* the records reported to have failed, for a settled event
  up           \* is the process alive

absVars == <<phase, verdict, failures, up>>

AbsInit ==
  /\ phase = [e \in Event |-> "idle"]
  /\ verdict = [r \in Record |-> "pending"]
  /\ failures = [e \in Event |-> {}]
  /\ up = TRUE

FailedIn(e) == {r \in RecordsOf[e] : verdict[r] = "failed"}

\* A partial failure of an SQS batch is part of its response.  Any other event
\* is rejected as a whole, and so is an API Gateway event without response.
Result(e) ==
  IF \/ e \in Unmappable
     \/ SourceOf[e] # "sqs" /\ FailedIn(e) # {}
     \/ SourceOf[e] = "apigw" /\ \A r \in RecordsOf[e] : verdict[r] = "empty"
  THEN "rejected" ELSE "resolved"

Start(e) ==
  /\ up /\ phase[e] = "idle"
  /\ Overlapping \/ \A f \in Event : phase[f] # "active"
  /\ phase' = [phase EXCEPT ![e] =
       IF e \in Unmappable \/ RecordsOf[e] = {} THEN Result(e) ELSE "active"]
  /\ UNCHANGED <<verdict, failures, up>>

Decide(e, r) ==
  /\ up /\ phase[e] = "active"
  /\ r \in RecordsOf[e] /\ verdict[r] = "pending"
  /\ \E v \in {"answered", "empty", "failed"} : verdict' = [verdict EXCEPT ![r] = v]
  /\ UNCHANGED <<phase, failures, up>>

Settle(e) ==
  /\ up /\ phase[e] = "active"
  /\ \A r \in RecordsOf[e] : verdict[r] # "pending"
  /\ phase' = [phase EXCEPT ![e] = Result(e)]
  /\ failures' = [failures EXCEPT ![e] = FailedIn(e)]
  /\ UNCHANGED <<verdict, up>>

Stop == up /\ up' = FALSE /\ UNCHANGED <<phase, verdict, failures>>

AbsNext ==
  \/ \E e \in Event : Start(e) \/ Settle(e) \/ \E r \in Record : Decide(e, r)
  \/ Stop

AbsSpec == AbsInit /\ [][AbsNext]_absVars
=============================================================================
