---------------------------- MODULE MCDuplicate -----------------------------
(***************************************************************************)
(* An SQS batch that holds the same message twice, as at-least-once        *)
(* delivery allows: two requests under one id, in flight at the same time. *)
(***************************************************************************)
EXTENDS Transport, TLC

CONSTANTS a, b, batch, x

MCRequestsOf == batch :> <<a, b>>
MCSourceOf == batch :> "sqs"
MCIdOf == [r \in Request |-> x]
MCDataOf == [r \in Request |-> r]
MCRouteOf == [r \in Request |-> "message"]
=============================================================================
