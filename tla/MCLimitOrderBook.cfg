SPECIFICATION Spec
CONSTANTS
  OrderIds = {o1, o2, o3, o4}
  Prices = {0, 1, 2, 3}
  Quantities = {0, 1, 2}
  MinValidPrice = 1
  MaxPriceTicks = 3
  MaxOrders = 3
  Null = Null
SYMMETRY Symmetry
INVARIANTS
  TypeOK
  PoolConserved
  ListsMatchMap
  VolumesAddUp
  BestPricesCurrent
PROPERTIES
  AbstractBookSpec
CHECK_DEADLOCK FALSE
