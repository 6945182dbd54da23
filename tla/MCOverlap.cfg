CONSTANTS
  a = a  b = b  g = g
  batch = batch  http = http  binary = binary  nobody = nobody
  x = x  y = y  z = z
  Request = {a, b, g}
  Id = {x, y, z}
  NoId = NoId
  NoRequest = NoRequest
  Event = {batch, http, binary, nobody}
  Unmappable = {binary}
  Data = {a, b, g}
  RequestsOf <- MCRequestsOf
  SourceOf <- MCSourceOf
  IdOf <- MCIdOf
  DataOf <- MCDataOf
  RouteOf <- MCRouteOf
  MaxValues = 1
  Overlapping = TRUE
SPECIFICATION Spec
INVARIANT NoCrosstalk
PROPERTY ImplementsPromise
CHECK_DEADLOCK FALSE
