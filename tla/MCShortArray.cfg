SPECIFICATION Spec
CONSTANTS
  Pattern <- MCShortPattern
  Message <- MCShortMessage
  CatchAll <- MCCatchAll
  Normalized <- ServerNormalized
  Route <- ServerRoute
  Match <- ServerMatch
  NoHandler = NoHandler
  JsonValue <- MCJsonValue
  Depth <- MCDepth
  SortedBefore <- MCSortedBefore
  KeyBefore <- MCKeyBefore
  FromJson <- MCFromJson
  MaxHandlers = 2
INVARIANT FullMatchIsExact
CHECK_DEADLOCK FALSE
