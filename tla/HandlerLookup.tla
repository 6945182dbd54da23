--------------------------- MODULE HandlerLookup ----------------------------
(***************************************************************************)
(* The handlers registered with LambdaMicroserviceServer, and which of     *)
(* them getHandlerByPattern picks for a message, for any notion of route   *)
(* and of match.  An event handler is registered and found like any other; *)
(* it is handleMessage that refuses it.                                    *)
(***************************************************************************)
EXTENDS Naturals, Sequences

CONSTANTS
  Pattern,     \* what handlers are registered under
  Message,     \* the patterns of messages
  CatchAll,    \* the pattern '*'
  Normalized,  \* normalizePattern: the routes of patterns
  Route,       \* getRouteFromPattern: those of messages
  Match,       \* performPatternMatch
  NoHandler,   \* null
  MaxHandlers  \* bound on the handlers registered

Handler == [pattern : Pattern, partial : BOOLEAN]

ASSUME CatchAllAssumption == CatchAll \in Pattern
ASSUME MatchAssumption == Match \in [Pattern \X Message \X BOOLEAN -> BOOLEAN]
ASSUME RouteAssumption == DOMAIN Normalized = Pattern /\ DOMAIN Route = Message
ASSUME NoHandlerAssumption == NoHandler \notin Handler
ASSUME MaxHandlersAssumption == MaxHandlers \in Nat

VARIABLES
  messageHandlers,  \* the map, in insertion order, with handlerPatternsMap
  aborted           \* an InvalidMessageException has ended the bootstrap

vars == <<messageHandlers, aborted>>

LookupTypeOK ==
  /\ messageHandlers \in Seq(Handler)
  /\ aborted \in BOOLEAN

Init ==
  /\ messageHandlers = <<>>
  /\ aborted = FALSE

\* The handlers, by position, with a given route.
Under(route) ==
  {i \in 1..Len(messageHandlers) : Normalized[messageHandlers[i].pattern] = route}

Duplicate(p) == Under(Normalized[p]) # {}

\* Mutant: the pattern itself is not kept.
AddHandlerForgotten(p, partial) ==
  /\ ~aborted
  /\ ~Duplicate(p)
  /\ Len(messageHandlers) < MaxHandlers
  /\ messageHandlers' = Append(messageHandlers, [pattern |-> NoHandler, partial |-> partial])
  /\ UNCHANGED aborted

\* addHandler: a new route is registered, last; another one throws.
AddHandler(p, partial) ==
  /\ ~aborted
  /\ ~Duplicate(p)
  /\ Len(messageHandlers) < MaxHandlers
  /\ messageHandlers' = Append(messageHandlers, [pattern |-> p, partial |-> partial])
  /\ UNCHANGED aborted

RefuseHandler(p) ==
  /\ ~aborted
  /\ Duplicate(p)
  /\ aborted' = TRUE
  /\ UNCHANGED messageHandlers

Next == \E p \in Pattern : RefuseHandler(p) \/ \E partial \in BOOLEAN : AddHandler(p, partial)

Spec == Init /\ [][Next]_vars

-----------------------------------------------------------------------------
Matches(h, m) == Match[<<h.pattern, m, h.partial>>]

Matching(m) == {i \in 1..Len(messageHandlers) : Matches(messageHandlers[i], m)}

\* Mutant: a later handler overrides an earlier one.
FirstLast(positions) == CHOOSE i \in positions : \A j \in positions : j <= i

First(positions) == CHOOSE i \in positions : \A j \in positions : i <= j

FirstOf(positions) == messageHandlers[First(positions)]

\* The exact route, else the first match, else the catch-all handler.
GetHandlerByPattern(m) ==
  IF Under(Route[m]) # {} THEN FirstOf(Under(Route[m]))
  ELSE IF Matching(m) # {} THEN FirstOf(Matching(m))
  ELSE IF Under(Normalized[CatchAll]) # {} THEN FirstOf(Under(Normalized[CatchAll]))
  ELSE NoHandler

-----------------------------------------------------------------------------
\* Registering one more handler takes a message from the handler that already
\* qualified for it only if that was the catch-all, or if the new one has the
\* message's own route: otherwise the first registered wins.
AddingKeepsRoutes ==
  [][\A m \in Message :
       \/ GetHandlerByPattern(m)' = GetHandlerByPattern(m)
       \/ GetHandlerByPattern(m) = NoHandler
       \/ Normalized[GetHandlerByPattern(m).pattern] = Normalized[CatchAll]
       \/ Normalized[GetHandlerByPattern(m)'.pattern] = Route[m]]_vars
=============================================================================
