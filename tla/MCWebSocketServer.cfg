SPECIFICATION Spec
CONSTANTS
  Welcome = Welcome
  BadRequest = BadRequest
  Cut = Cut
  Clients = {c1, c2}
  Fds = {1, 2}
  MinSnapshotMs = 100
  MaxPieces = 4
  MaxSnapshots = 2
INVARIANTS
  DescriptorsOwned
PROPERTIES
  ServesTheFeed
  RequestAnswered
  StopEnds
CHECK_DEADLOCK FALSE
