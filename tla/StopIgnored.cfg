SPECIFICATION Spec
CONSTANTS
  Symbols = {AAPL}
  OpenPolls = 2
  MaxTicks = 1
PROPERTIES StopIsHonoured
CHECK_DEADLOCK FALSE
