---------------------------- MODULE MCDecorator -----------------------------
(***************************************************************************)
(* A base controller and two that inherit from it: one overrides a method, *)
(* the other adds one.                                                     *)
(***************************************************************************)
EXTENDS PartialPatternMatch, TLC

CONSTANTS base, left, right, get, list, leftGet, find

MCName == (get :> "get") @@ (list :> "list") @@ (leftGet :> "get") @@ (find :> "find")
MCOwner == (get :> base) @@ (list :> base) @@ (leftGet :> left) @@ (find :> right)
MCLineage == (base :> {base}) @@ (left :> {base, left}) @@ (right :> {base, right})
=============================================================================
