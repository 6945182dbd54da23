SPECIFICATION Spec
CONSTANTS
  Pattern <- MCObjectsPattern
  Message <- MCObjectsMessage
  CatchAll <- MCCatchAll
  Normalized <- ServerNormalized
  Route <- ServerRoute
  Match <- ServerMatch
  NoHandler = NoHandler
  JsonValue <- MCJsonValue
  Depth <- MCDepth
  SortedBefore <- MCSortedBefore
  KeyBefore <- MCKeyBefore
  FromJson <- MCFromJson
  MaxHandlers = 2
INVARIANT PartialMatchIsContained
CHECK_DEADLOCK FALSE
