CONSTANTS
  a = a  b = b  c = c  d = d
  first = first  again = again
  x = x  y = y
  Request = {a, b, c, d}
  Id = {x, y}
  NoId = NoId
  NoRequest = NoRequest
  Event = {first, again}
  Unmappable = {}
  Data = {a, b, c, d}
  RequestsOf <- MCRequestsOf
  SourceOf <- MCSourceOf
  IdOf <- MCIdOf
  DataOf <- MCDataOf
  RouteOf <- MCRouteOf
  MaxValues = 2
  Overlapping = FALSE
SPECIFICATION FairSpec
INVARIANTS TransportTypeOK NoCrosstalk ResponsesInOrder FailuresAreReported
  SettledMeansDone RoutingIsLive OnlyUnqualifiedLeak
PROPERTIES InvocationsSettle SettledIsFinal ImplementsPromise
CHECK_DEADLOCK FALSE
