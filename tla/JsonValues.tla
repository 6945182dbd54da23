----------------------------- MODULE JsonValues -----------------------------
(***************************************************************************)
(* JSON-like values, as events and patterns are made of them.              *)
(*                                                                         *)
(* A value is a record with one telling field.  A primitive is its type    *)
(* and its text, a sequence of words none of which begins another, so that *)
(* texts are equal when their words are.  An object is a function: its key *)
(* order is abstracted from, because no operation here depends on it.      *)
(* What a value inherits, the length of an array included, is not one of   *)
(* its properties here: no key is taken to have such a name.               *)
(***************************************************************************)
EXTENDS Naturals, Sequences, TLC

Num(word) == [prim |-> <<word>>, type |-> "number"]
Str(word) == [prim |-> <<word>>, type |-> "string"]
Spelled(words) == [prim |-> words, type |-> "string"]
Null == [null |-> TRUE]
Undefined == [undefined |-> TRUE]
Arr(s) == [elements |-> s]
Obj(f) == [fields |-> f]

IsPrimitive(v) == "prim" \in DOMAIN v
IsText(v) == IsPrimitive(v) /\ v.type = "string"
IsNumber(v) == IsPrimitive(v) /\ v.type = "number"
IsArray(v) == "elements" \in DOMAIN v
IsObject(v) == IsArray(v) \/ "fields" \in DOMAIN v   \* typeof 'object', not null

\* The own properties of an object; those of an array are its indices.
Index(i) == ToString(i - 1)

Keys(v) == IF IsArray(v) THEN {Index(i) : i \in DOMAIN v.elements} ELSE DOMAIN v.fields

Property(v, k) ==
  IF k \notin Keys(v) THEN Undefined
  ELSE IF IsArray(v) THEN v.elements[CHOOSE i \in DOMAIN v.elements : Index(i) = k]
  ELSE v.fields[k]

Parts(v) == {Property(v, k) : k \in Keys(v)}

Element(s, i) == IF i \in DOMAIN s THEN s[i] ELSE Undefined
=============================================================================
