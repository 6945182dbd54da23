---------------------------- MODULE MCRedelivery ----------------------------
(***************************************************************************)
(* One Lambda environment, serial invocations: an SQS batch of two records *)
(* and its redelivery, with the same message ids, to the same process.     *)
(* The second record of the batch has no handler.                          *)
(***************************************************************************)
EXTENDS Refinement, TLC

CONSTANTS a, b, c, d, first, again, x, y

MCRequestsOf == first :> <<a, b>> @@ again :> <<c, d>>
MCSourceOf == [e \in Event |-> "sqs"]
MCIdOf == a :> x @@ b :> y @@ c :> x @@ d :> y
MCDataOf == [r \in Request |-> r]
MCRouteOf == a :> "message" @@ b :> "none" @@ c :> "message" @@ d :> "none"
=============================================================================
