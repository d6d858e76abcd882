SPECIFICATION Spec
CONSTANTS
  Sockets = {w1, w2, w3, w4}
  NoSocket = NoSocket
  EffectRuns = {1, 2}
INVARIANTS
  ConnectionsBounded
  BadgeTellsTheFeed
  ForcedSimIsAlone
PROPERTIES
  Reconnects
