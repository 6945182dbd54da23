----------------------------- MODULE MCRouting ------------------------------
(***************************************************************************)
(* Patterns and messages over two keys and two texts: flat and nested      *)
(* objects, a number and a string of one text, arrays of primitives and of *)
(* objects, in both orders, and strings that are JSON, in another order of *)
(* the keys too.                                                           *)
(***************************************************************************)
EXTENDS MessageRouting, NestedValues

x == Str("x")
y == Str("y")

MCCatchAll == Str("*")

\* '{"p":"x"}' and '{"q":1,"p":"x"}'
JsonOfP == Spelled(<<"{", "\"", "p", "\"", ":", "\"", "x", "\"", "}">>)
JsonOfQP ==
  Spelled(<<"{", "\"", "q", "\"", ":", "1", ",", "\"", "p", "\"", ":", "\"", "x", "\"", "}">>)

MCLists == {Arr(<<x>>), Arr(<<x, y>>), Arr(<<y, x>>), Arr(<<Obj([q |-> x])>>)}

MCMessage ==
  {Obj([p |-> x]), Obj([p |-> Str("1")]), Obj([p |-> x, q |-> Num("1")]), Obj([p |-> Obj([q |-> x])]),
   Obj([p |-> Arr(<<>>)]), Obj([p |-> Arr(<<y, Obj([q |-> y])>>)])}
    \cup {Obj([p |-> v]) : v \in MCLists} \cup {Str("1"), JsonOfP, JsonOfQP}

MCPattern ==
  {MCCatchAll, Num("1"), JsonOfP, Obj([p |-> x]), Obj([p |-> x, q |-> Num("1")])}
    \cup {Obj([p |-> v]) : v \in MCLists \ {Arr(<<y, x>>)}}

\* Arrays of one or two primitives, and arrays of an object.
MCShortMessage == {Obj([p |-> Arr(<<x>>)]), Obj([p |-> Arr(<<x, y>>)])}
MCShortPattern == {MCCatchAll} \cup MCShortMessage
MCObjectsMessage == {Obj([p |-> Arr(<<Obj([q |-> x])>>)]), Obj([p |-> Arr(<<Obj([q |-> y])>>)])}
MCObjectsPattern == {MCCatchAll} \cup MCObjectsMessage

MCJsonValue ==
  {Undefined} \cup UNION {WithParts(v) : v \in MCPattern \cup MCMessage \cup MCShortMessage \cup MCObjectsMessage}
MCDepth == [v \in MCJsonValue |-> DepthOf(v)]
MCSortedBefore == {t \in MCJsonValue \X MCJsonValue : TextBefore(t[1], t[2])}
MCKeyBefore == {<<"0", "1">>, <<"p", "q">>}
MCFromJson ==
  (Str("1") :> Num("1")) @@ (JsonOfP :> Obj([p |-> x])) @@ (JsonOfQP :> Obj([p |-> x, q |-> Num("1")]))
    @@ [v \in MCJsonValue |-> v]

\* CatchAllIsLast and NothingForeignQualifies are proved for such values.
ASSUME ValuesArePlain == PlainlyMeant /\ PlainTexts
=============================================================================
