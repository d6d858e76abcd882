SPECIFICATION Spec
CONSTANTS
  Symbols = {AAPL, TSLA}
  Clients = {c1, c2}
  PipeCap = 2
  WireCap = 2
  MaxSnapshots = 2
INVARIANTS
  NeverOlder
  EveryFrameIsNews
  UpToDateMeansSent
PROPERTIES
  CatchesUp
CHECK_DEADLOCK FALSE
