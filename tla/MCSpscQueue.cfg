SPECIFICATION Spec
CONSTANTS
  Ticks = {t1, t2}
  NoTick = NoTick
  Capacity = 4
  MaxSpins = 2
  MaxPushes = 6
INVARIANTS
  TypeOK
  NoSlotRace
  InOrderDelivery
PROPERTIES
  FifoChannel
  PushReturns
CHECK_DEADLOCK FALSE
