-------------------------- MODULE ResponseBuilders --------------------------
(***************************************************************************)
(* The response builders of src/record-builders: what processEvent returns *)
(* to Lambda for the tuples it collected.  A tuple is a record with the    *)
(* request, and the kind of the response: "value", "void" (undefined) or   *)
(* "error" (an IncomingResponseError).                                     *)
(***************************************************************************)
EXTENDS Sequences, Naturals

Source == {"apigw", "eventbridge", "s3", "sns", "sqs", "custom"}

\* instanceof IncomingResponseError
IsError(t) == t.kind = "error"

\* Mutant: only the first tuple is looked at.
ErrorsFirst(ts) == {i \in 1..Len(ts) : i = 1 /\ IsError(ts[i])}

Errors(ts) == {i \in 1..Len(ts) : IsError(ts[i])}

\* Mutants: SQS throws the first error as the others do; the API Gateway
\* builder has the guard of the custom one.
ResolvesWithoutErrors(source, ts) ==
  Errors(ts) = {} /\ ~(source = "apigw" /\ ts = <<>>)

ResolvesEmpty(source, ts) == source = "sqs" \/ Errors(ts) = {}

\* The SQS builder reports each failed record; every other builder throws the
\* cause of the first error.  The API Gateway builder also throws (a TypeError
\* on tuple[1]) when there is no tuple at all.
Resolves(source, ts) ==
  \/ source = "sqs"
  \/ Errors(ts) = {} /\ ~(source = "apigw" /\ ts = <<>>)

\* The requests behind batchItemFailures, whatever order they are listed in.
BatchItemFailures(ts) == {ts[i].req : i \in Errors(ts)}
=============================================================================
