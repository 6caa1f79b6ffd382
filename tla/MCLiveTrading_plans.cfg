SPECIFICATION Spec
CONSTANTS
  s1 = s1
  b1 = b1
  b2 = b2
  Intents = {s1, b1}
  SideOf <- SellBuySide
  Qty <- SellBuyQty
  MaxCrashes = 1
  MaxFaults = 0
CHECK_DEADLOCK FALSE
INVARIANTS
  NoPlanOutlivesItsWindow
