SPECIFICATION Spec
CONSTANTS
  Locates = {AAPL, TSLA}
  OrderIds = {o1, o2}
  Prices = {990000, 1005000}
  Quantities = {1, 2}
  MinValidPrice = 100
  MaxPriceTicks = 1000000
  QueueCap = 1
  MaxMessages = 5
SYMMETRY Symmetry
INVARIANTS
  OrderMapCurrent
  BookFollowsExchange
  DropsOnlyOverstate
CHECK_DEADLOCK FALSE
