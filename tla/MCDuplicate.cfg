CONSTANTS
  a = a  b = b
  batch = batch
  x = x
  Request = {a, b}
  Id = {x}
  NoId = NoId
  NoRequest = NoRequest
  Event = {batch}
  Unmappable = {}
  Data = {a, b}
  RequestsOf <- MCRequestsOf
  SourceOf <- MCSourceOf
  IdOf <- MCIdOf
  DataOf <- MCDataOf
  RouteOf <- MCRouteOf
  MaxValues = 1
  Overlapping = FALSE
SPECIFICATION FairSpec
PROPERTY InvocationsSettle
CHECK_DEADLOCK FALSE
