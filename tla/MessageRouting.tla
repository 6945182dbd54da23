--------------------------- MODULE MessageRouting ---------------------------
(***************************************************************************)
(* Which messages reach which handler: the lookup with the server's own    *)
(* routes and matches, against the reference definitions.                  *)
(***************************************************************************)
EXTENDS HandlerLookup, PatternMatching

\* The values of the constants Normalized, Route and Match.  Only the route of
\* a message is that of what it is the JSON of.
ServerNormalized == [p \in Pattern |-> RouteOfPattern[p]]
ServerRoute == [m \in Message |-> RouteOfPattern[FromJson[m]]]
ServerMatch == [t \in Pattern \X Message \X BOOLEAN |-> PatternMatch[t]]

ASSUME ServerAssumption ==
  /\ Pattern \cup Message \subseteq JsonValue
  /\ Normalized = ServerNormalized /\ Route = ServerRoute /\ Match = ServerMatch

\* The type MsPattern.
ASSUME PatternAssumption == \A p \in Pattern : IsText(p) \/ IsNumber(p) \/ IsObject(p)

\* No number is written like '*', and no object.
ASSUME CatchAllIsAlone ==
  /\ CatchAll = Str("*")
  /\ \A p \in Pattern : Normalized[p] = Normalized[CatchAll] => p = CatchAll

\* The documented meaning of a pattern registered with or without partialMatch.
Meaning ==
  [t \in JsonValue \X JsonValue \X BOOLEAN |->
     IF t[3] THEN Contained[<<t[1], t[2]>>] ELSE Same[<<t[1], t[2]>>]]

\* Nothing in a message is foreign to the pattern of a full match, and nothing
\* that the pattern states outside arrays is missing from the message; nor is
\* anything that the pattern of a partial match states plainly.
Supported ==
  [t \in JsonValue \X JsonValue \X BOOLEAN |->
     IF t[3] THEN PlainLeaves(t[1]) \subseteq Leaves[t[2]]
     ELSE Leaves[t[2]] \subseteq Leaves[t[1]] /\ FieldLeaves(t[1]) \subseteq Leaves[t[2]]]

\* A string may be the JSON of what it means.
Readings(v) == {v, FromJson[v]}

Means(meaning, h, m) ==
  \E p \in Readings(h.pattern), r \in Readings(m) : meaning[<<p, r, h.partial>>]

\* Is m handled by h on account of its pattern?
ByPattern(h, m) == h # NoHandler /\ h.pattern # CatchAll /\ h = GetHandlerByPattern(m)

\* A handler is only called for what its pattern speaks of, whether by its
\* route or by a match, where a string may be the JSON of what it speaks of.
NothingForeignQualifies ==
  \A m \in Message :
    LET h == GetHandlerByPattern(m)
    IN  h = NoHandler \/ h.pattern = CatchAll \/ Means(Supported, h, m)

\* Nothing in v is null or undefined.
Stated(v) == \A l \in Leaves[v] : IsPrimitive(l[2])

ArrayElements == UNION {Range(v.elements) : v \in {w \in JsonValue : IsArray(w)}}

\* No array is in an array, and different elements have different texts, but
\* that the objects have one: sorting goes by what is meant.
SortedByMeaning ==
  \A a, b \in ArrayElements :
    /\ ~IsArray(a)
    /\ a = b \/ <<a, b>> \in SortedBefore \/ <<b, a>> \in SortedBefore \/ (IsObject(a) /\ IsObject(b))
    /\ IsObject(a) /\ IsObject(b) =>
         \A c \in ArrayElements :
           /\ <<a, c>> \in SortedBefore <=> <<b, c>> \in SortedBefore
           /\ <<c, a>> \in SortedBefore <=> <<c, b>> \in SortedBefore

\* Where the matches of the code are known to find all that is meant.
PlainlyMeant ==
  /\ SortedByMeaning
  /\ \A m \in Message : m # CatchAll /\ Route[m] # Normalized[CatchAll]
  /\ \A p \in Pattern : Stated(p)

\* No text holds what objects are written with, but for a string that is the
\* JSON of one: then a route tells the texts of its properties, such a text
\* what it was written for, and parsing it undoes the writing.
RoutesTell ==
  \A v, w \in JsonValue :
    IsObject(v) /\ IsObject(w) /\ RouteOfPattern[v] = RouteOfPattern[w] =>
      PartTexts(RouteOfPattern, v) = PartTexts(RouteOfPattern, w)

TextsTell ==
  \A v, w \in JsonValue :
    PartText(RouteOfPattern, v) = PartText(RouteOfPattern, w) => v = w \/ (IsObject(v) /\ IsObject(w))

ParsingUndoes ==
  \A v, w \in JsonValue :
    IsText(v) /\ (IsNumber(w) \/ IsObject(w)) /\ v.prim = RouteOfPattern[w] =>
      IF IsNumber(w) THEN FromJson[v] = w
      ELSE IsObject(FromJson[v]) /\ RouteOfPattern[FromJson[v]] = RouteOfPattern[w]

NumbersAreNoObjects ==
  \A v, w \in JsonValue : IsNumber(v) /\ IsObject(w) => v.prim # RouteOfPattern[w]

MessagesAreParsed ==
  \A m \in Message :
    IsObject(FromJson[m]) \/ IsNumber(FromJson[m]) \/ (IsText(m) /\ FromJson[m] = m)

PlainTexts ==
  RoutesTell /\ TextsTell /\ ParsingUndoes /\ NumbersAreNoObjects /\ MessagesAreParsed

\* A message goes to the catch-all handler, or to nobody, only when no
\* registered pattern means it.
CatchAllIsLast ==
  \A m \in Message :
    LET h == GetHandlerByPattern(m)
    IN  h = NoHandler \/ h.pattern = CatchAll =>
          \A i \in 1..Len(messageHandlers) :
            ~Meaning[<<messageHandlers[i].pattern, m, messageHandlers[i].partial>>]

\* A handler without partialMatch is only called for messages that have
\* exactly its pattern (README.md:193).
FullMatchIsExact ==
  \A m \in Message :
    LET h == GetHandlerByPattern(m)
    IN  ByPattern(h, m) /\ ~h.partial => Means(Meaning, h, m)

\* A handler with partialMatch is only called for messages that contain its
\* pattern (README.md:205).
PartialMatchIsContained ==
  \A m \in Message :
    LET h == GetHandlerByPattern(m)
    IN  ByPattern(h, m) /\ h.partial => Means(Meaning, h, m)
=============================================================================
