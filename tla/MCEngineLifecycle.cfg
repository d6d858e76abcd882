SPECIFICATION Spec
CONSTANTS
  Symbols = {AAPL, TSLA}
  OpenPolls = 2
  MaxTicks = 1
INVARIANTS
  TypeOK
  NeverOpensStaleRegion
  LiveOnlyAfterSignal
  NoOrphanAfterExit
PROPERTIES
  WaitingEnds
  OrchestratorEnds
CHECK_DEADLOCK FALSE
