---------------------------- MODULE NestedValues ----------------------------
(***************************************************************************)
(* The parts, the depth and the text of JSON values, for the values that   *)
(* TLC runs on.                                                            *)
(***************************************************************************)
EXTENDS JsonValues, FiniteSetsExt

RECURSIVE WithParts(_)
WithParts(v) == {v} \cup (IF IsObject(v) THEN UNION {WithParts(w) : w \in Parts(v)} ELSE {})

RECURSIVE DepthOf(_)
DepthOf(v) == IF IsObject(v) THEN 1 + Max({0} \cup {DepthOf(w) : w \in Parts(v)}) ELSE 0

-----------------------------------------------------------------------------
\* The words of the texts that TLC runs on, in the order of their characters.
Alphabet ==
  <<"\"", "*", ",", "1", ":", "[object Object]", "null", "p", "q", "x", "y", "{", "}">>

Rank(word) == CHOOSE i \in DOMAIN Alphabet : Alphabet[i] = word

\* String(v); an array joins the texts of its elements.
RECURSIVE Text(_)
Text(v) ==
  IF IsPrimitive(v) THEN v.prim
  ELSE IF v = Null THEN <<"null">>
  ELSE IF ~IsArray(v) THEN <<"[object Object]">>
  ELSE IF v.elements = <<>> THEN <<>>
  ELSE IF Len(v.elements) = 1 THEN Text(v.elements[1])
  ELSE Text(v.elements[1]) \o <<",">> \o Text(Arr(Tail(v.elements)))

Precedes(s, t) ==
  \E i \in 1..Len(t) :
    /\ \A j \in 1..(i - 1) : j <= Len(s) /\ s[j] = t[j]
    /\ i > Len(s) \/ Rank(s[i]) < Rank(t[i])

\* The order of sort().
TextBefore(v, w) == v # Undefined /\ (w = Undefined \/ Precedes(Text(v), Text(w)))
=============================================================================
