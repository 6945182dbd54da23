CONSTANTS
  Request = {r1, r2}
  Id = {x, y}
  NoId = NoId
  MaxPackets = 2
SPECIFICATION BrokerSpec
INVARIANTS BrokerTypeOK ListenersAreOpen StreamIsolation DisposedEndsStream
PROPERTY EndedIsFinal
