------------------------------ MODULE MCBroker ------------------------------
(* The broker with two requests, under the same id or under different ones. *)
EXTENDS OpenBroker
=============================================================================
