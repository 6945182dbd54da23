------------------------------ MODULE MCOverlap -----------------------------
(***************************************************************************)
(* Overlapping calls of processEvent on one client, all ids distinct: an   *)
(* SQS batch of two records (the second without a handler), an API Gateway *)
(* request, a batch that cannot be mapped, and an event without records.   *)
(***************************************************************************)
EXTENDS Refinement, TLC

CONSTANTS a, b, g, batch, http, binary, nobody, x, y, z

MCRequestsOf == batch :> <<a, b>> @@ http :> <<g>> @@ binary :> <<>> @@ nobody :> <<>>
MCSourceOf == batch :> "sqs" @@ http :> "apigw" @@ binary :> "sqs" @@ nobody :> "s3"
MCIdOf == a :> x @@ b :> y @@ g :> z
MCDataOf == [r \in Request |-> r]
MCRouteOf == a :> "message" @@ b :> "none" @@ g :> "message"
=============================================================================
