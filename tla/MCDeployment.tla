---------------------------- MODULE MCDeployment ----------------------------
(***************************************************************************)
(* Three messages, one of which cannot be mapped, so that a batch can fail *)
(* in part or as a whole and leave a message in the queue, and processes   *)
(* that could make two microservices.                                      *)
(***************************************************************************)
EXTENDS Deployment
=============================================================================
