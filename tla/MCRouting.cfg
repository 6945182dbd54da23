SPECIFICATION Spec
CONSTANTS
  Pattern <- MCPattern
  Message <- MCMessage
  CatchAll <- MCCatchAll
  Normalized <- ServerNormalized
  Route <- ServerRoute
  Match <- ServerMatch
  NoHandler = NoHandler
  JsonValue <- MCJsonValue
  Depth <- MCDepth
  SortedBefore <- MCSortedBefore
  KeyBefore <- MCKeyBefore
  FromJson <- MCFromJson
  MaxHandlers = 3
INVARIANTS LookupTypeOK NothingForeignQualifies CatchAllIsLast
PROPERTY AddingKeepsRoutes
CHECK_DEADLOCK FALSE
