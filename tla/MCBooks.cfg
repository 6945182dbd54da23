SPECIFICATION Spec
CONSTANTS
  Event <- MCEvent
  BookId <- MCBookId
  Normalized <- MCNormalized
  Route <- MCRoute
  Match <- MCMatch
  NoHandler = NoHandler
  JsonValue <- MCJsonValue
  Depth <- MCDepth
  SortedBefore <- MCSortedBefore
  KeyBefore <- MCKeyBefore
  FromJson <- MCFromJson
  MaxEvents = 4
INVARIANTS BooksTypeOK RequestsAreServed TitlesAreTexts OnlyErrorsReject
PROPERTY RemovedTitlesAreGone
CHECK_DEADLOCK FALSE
