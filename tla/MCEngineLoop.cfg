SPECIFICATION Spec
CONSTANTS
  OrderIds = {o1, o2, o3}
  Prices = {1, 2}
  Quantities = {0, 1, 2}
  TradePrices = {0, 1}
  MinValidPrice = 1
  MaxPriceTicks = 3
  MaxOrders = 2
  ClusterWidth = 2
  MaxTracked = 1
  MinVolume = 2
  Window = 1
  MaxEvents = 2
  PinWindow = 2
  Width = 4
  Probe = 3
  TopDepth = 1
  TotalDepth = 2
  Roundings <- MCRoundings
  EveryN = 3
  WindowCap = 2
  MaxTicks = 5
SYMMETRY Symmetry
INVARIANTS
  TrackersFollowBook
  CancelsCoveredByAdds
  WindowCountsAgree
  ExecutionsComplete
  FlowSeesEveryChange
  RunningTotals
  RiskMatchesDepth
  NoArbitrageWhenQuoted
CHECK_DEADLOCK FALSE
