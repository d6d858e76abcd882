SPECIFICATION Spec
CONSTANTS
  Symbols = {AAPL}
  OpenPolls = 2
  MaxTicks = 1
INVARIANTS SignalIsNotLost
CHECK_DEADLOCK FALSE
