CONSTANTS
  x1 = x1
  x2 = x2
  x3 = x3
  Ad <- TwoAds
  Slot <- OneSlot
  First <- StartsOfTwo
  Last <- EndsOfTwo
  Actor = {a1, a2, a3}
  LastDay = 3
  NoAd = NoAd
SPECIFICATION Spec
CHECK_DEADLOCK FALSE
SYMMETRY Alike
INVARIANTS
  ServingIsPaid
  NoDoubleReservation
PROPERTIES
  ImplementsWindow
