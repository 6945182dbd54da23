-------------------------- MODULE PatternMatching ---------------------------
(***************************************************************************)
(* performPatternMatch of LambdaMicroserviceServer and Nest's              *)
(* transformPatternToRoute, and a reference definition of what the two     *)
(* kinds of match are meant to say.                                        *)
(*                                                                         *)
(* What recurses in the code is a recursive function here, over all the    *)
(* values there are.  The operator before it is one call of it, with the   *)
(* function that answers the calls inside.                                 *)
(***************************************************************************)
EXTENDS JsonValues, FiniteSets, Functions

Seqs == INSTANCE SequencesExt

CONSTANTS
  JsonValue,    \* undefined, the patterns and the messages, with all their parts
  Depth,        \* how deep each of them is nested
  SortedBefore, \* the pairs that sort() puts in this order: by text, undefined last
  KeyBefore,    \* the pairs of keys that localeCompare puts in this order
  FromJson      \* JSON.parse(v), and v where that throws

\* Values are finite trees: every part lies less deep, and so does what is
\* read where there is no part.
ASSUME DepthAssumption == Depth \in [JsonValue -> Nat]
ASSUME ValueAssumption ==
  \A v \in JsonValue :
    /\ IsPrimitive(v) => v = [prim |-> v.prim, type |-> v.type]
    /\ IsObject(v) =>
         /\ ~IsPrimitive(v)
         /\ IsFiniteSet(Keys(v))
         /\ \A w \in Parts(v) \cup {Undefined} : w \in JsonValue /\ Depth[w] < Depth[v]
    /\ IsArray(v) =>
         /\ v.elements \in Seq(JsonValue)
         /\ \A i, j \in DOMAIN v.elements : Index(i) = Index(j) => i = j

\* Comparing texts orders the values, but for those of one text.
ASSUME OrderAssumption ==
  \A u, v, w \in JsonValue :
    /\ <<v, v>> \notin SortedBefore
    /\ <<u, v>> \in SortedBefore => <<u, w>> \in SortedBefore \/ <<w, v>> \in SortedBefore
    /\ <<u, v>> \in SortedBefore /\ <<v, w>> \in SortedBefore => <<u, w>> \in SortedBefore

ASSUME KeyAssumption ==
  \A v \in JsonValue : IsObject(v) =>
    /\ \A k, l \in Keys(v) : k # l => (<<k, l>> \in KeyBefore <=> <<l, k>> \notin KeyBefore)
    /\ \A k, l, n \in Keys(v) :
         <<k, l>> \in KeyBefore /\ <<l, n>> \in KeyBefore => <<k, n>> \in KeyBefore

\* The text of an object is no JSON, unless it is an array.
ASSUME JsonAssumption ==
  /\ FromJson \in [JsonValue -> JsonValue]
  /\ \A v \in JsonValue : IsObject(v) /\ ~IsArray(v) => FromJson[v] = v

-----------------------------------------------------------------------------
\* Of two positions in an array, which sort() puts first; it is stable.
ComesFirst(s, i, j) ==
  \/ <<s[i], s[j]>> \in SortedBefore
  \/ <<s[j], s[i]>> \notin SortedBefore /\ i < j

Sorting(s) ==
  CHOOSE p \in Bijection(DOMAIN s, DOMAIN s) :
    \A i, j \in DOMAIN s : i < j => ComesFirst(s, p[i], p[j])

\* [...s].sort()
Sorted(s) == [i \in DOMAIN s |-> s[Sorting(s)[i]]]

\* Mutants: the keys of the other side are compared; the shape of a full match
\* is not.
ComparedKeysSwapped(h, m, partial) == IF partial THEN Keys(m) ELSE Keys(h)
SameShapeAlways(h, m, partial) == TRUE

ComparedKeys(h, m, partial) == IF partial THEN Keys(h) ELSE Keys(m)
SameShape(h, m, partial) == partial \/ Cardinality(Keys(h)) = Cardinality(Keys(m))

\* In a partial match of arrays an element that is not primitive is compared
\* with the handler's own elements.
ArraysMatch(match, h, m, partial) ==
  LET hs == Sorted(h.elements)
      ms == Sorted(m.elements)
  IN  IF partial
      THEN \A i \in DOMAIN hs :
             IF IsPrimitive(hs[i]) THEN \E j \in DOMAIN ms : ms[j] = hs[i]
             ELSE \E j \in DOMAIN hs : match[<<hs[j], hs[i], partial>>]
      ELSE \A i \in DOMAIN ms : match[<<Element(hs, i), ms[i], partial>>]

ObjectsMatch(match, h, m, partial) ==
  /\ SameShape(h, m, partial)
  /\ \A k \in ComparedKeys(h, m, partial) : match[<<Property(h, k), Property(m, k), partial>>]

\* performPatternMatch.  Null and undefined match nothing.
MatchCall(match, h, m, partial) ==
  \/ IsPrimitive(m) /\ h = m
  \/ IsArray(h) /\ IsArray(m) /\ ArraysMatch(match, h, m, partial)
  \/ IsObject(h) /\ IsObject(m) /\ ~(IsArray(h) /\ IsArray(m)) /\ ObjectsMatch(match, h, m, partial)

PatternMatch[args \in JsonValue \X JsonValue \X BOOLEAN] ==
  MatchCall(PatternMatch, args[1], args[2], args[3])

SortedKeys(keys) ==
  [i \in 1..Cardinality(keys) |->
     CHOOSE k \in keys : Cardinality({l \in keys : <<l, k>> \in KeyBefore}) = i - 1]

\* The route of an object, from the texts of its properties.
Writing(texts) ==
  LET ks == SortedKeys(DOMAIN texts)
      Entry(i) == (IF i = 1 THEN <<>> ELSE <<",">>) \o <<"\"", ks[i], "\"", ":">> \o texts[ks[i]]
  IN  <<"{">> \o Seqs!FlattenSeq([i \in DOMAIN ks |-> Entry(i)]) \o <<"}">>

\* What is written of a property: a string in quotes, but not escaped.
PartText(route, v) ==
  CASE IsText(v) -> <<"\"">> \o v.prim \o <<"\"">>
    [] IsPrimitive(v) /\ ~IsText(v) -> v.prim
    [] IsObject(v) -> route[v]
    [] v = Null -> <<"null">>
    [] OTHER -> <<"undefined">>

PartTexts(route, v) == [k \in Keys(v) |-> PartText(route, Property(v, k))]

\* transformPatternToRoute: keys are sorted, an array is written as an object,
\* and what is neither an object nor text or number is returned as it is.
RouteCall(route, v) ==
  CASE IsObject(v) -> Writing(PartTexts(route, v))
    [] IsText(v) \/ IsNumber(v) -> v.prim
    [] OTHER -> v

RouteOfPattern[v \in JsonValue] == RouteCall(RouteOfPattern, v)

-----------------------------------------------------------------------------
\* Reference: a full match is equality, up to the order of the primitives of
\* an array.  Its other elements keep their order, and so may equal ones.
Alike(v, w) == v = w \/ (~IsPrimitive(v) /\ ~IsPrimitive(w))

SameCall(same, v, w) ==
  CASE IsArray(v) /\ IsArray(w) ->
         \E q \in Bijection(DOMAIN v.elements, DOMAIN w.elements) :
           /\ \A i \in DOMAIN v.elements : same[<<v.elements[i], w.elements[q[i]]>>]
           /\ \A i, j \in DOMAIN v.elements :
                i < j /\ Alike(v.elements[i], v.elements[j]) => q[i] < q[j]
    [] IsObject(v) /\ IsObject(w) /\ ~IsArray(v) /\ ~IsArray(w) ->
         Keys(v) = Keys(w) /\ \A k \in Keys(v) : same[<<Property(v, k), Property(w, k)>>]
    [] OTHER -> v = w

Same[vs \in JsonValue \X JsonValue] == SameCall(Same, vs[1], vs[2])

\* Reference: a partial match is containment of the handler's pattern.
ContainedCall(contained, h, m) ==
  CASE IsArray(h) /\ IsArray(m) ->
         \A i \in DOMAIN h.elements : \E j \in DOMAIN m.elements :
           contained[<<h.elements[i], m.elements[j]>>]
    [] IsObject(h) /\ IsObject(m) /\ ~IsArray(h) /\ ~IsArray(m) ->
         /\ Keys(h) \subseteq Keys(m)
         /\ \A k \in Keys(h) : contained[<<Property(h, k), Property(m, k)>>]
    [] OTHER -> h = m

Contained[vs \in JsonValue \X JsonValue] == ContainedCall(Contained, vs[1], vs[2])

\* What a value says: each primitive with the path to it, in which "[]" stands
\* for the index of any array.
Indices == UNION {Keys(v) : v \in {w \in JsonValue : IsArray(w)}}
PathStep(k) == IF k \in Indices THEN "[]" ELSE k

LeavesCall(leaves, v) ==
  IF IsObject(v)
  THEN UNION {{<< <<PathStep(k)>> \o l[1], l[2] >> : l \in leaves[Property(v, k)]} : k \in Keys(v)}
  ELSE {<< <<>>, v >>}

Leaves[v \in JsonValue] == LeavesCall(Leaves, v)

\* The leaves outside arrays, and those that are at most elements of one.
FieldLeaves(v) == {l \in Leaves[v] : \A i \in 1..Len(l[1]) : l[1][i] # "[]"}
PlainLeaves(v) ==
  {l \in Leaves[v] : \A i \in 1..Len(l[1]) : l[1][i] = "[]" => i = Len(l[1])}
=============================================================================
